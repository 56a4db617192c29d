----------------------------- MODULE PlacesProofs -----------------------------
(***************************************************************************)
(* Networks, locations, stalls, periods and sessions, for every number of  *)
(* rows, of charges reported and of rows imported.  Sane is the inductive  *)
(* invariant of the database.  Each handler is a function of the database, *)
(* so it is enough that each preserves Sane, of whatever database it gets; *)
(* an import is a chain of such functions, and the proof goes along it.    *)
(* Last come the pages that add up what the sessions cost.                 *)
(***************************************************************************)
EXTENDS CsvImport, FiniteProofs

Sane(d) == Typed(d) /\ Consistent(d)

Ids(S) == IsFiniteSet(S) /\ S = 1 .. Cardinality(S)

-----------------------------------------------------------------------------
(***************************************************************************)
(* Choices among finitely many, and primary keys.                          *)
(***************************************************************************)
LEMMA LeastIsOne ==
    ASSUME NEW S, IsFiniteSet(S), S # {}, S \subseteq Int
    PROVE  Least(S) \in S /\ \A x \in S : Least(S) <= x
<1> DEFINE f == [x \in S |-> x]
<1>1. \A x \in S : f[x] \in Int
  OBVIOUS
<1>2. \E x \in S : \A y \in S : f[x] <= f[y]
  <2> HIDE DEF f
  <2> QED BY <1>1, FiniteHasLeast
<1> QED BY <1>2 DEF Least

LEMMA PrimaryKeys ==
    Ids(NetId) /\ Ids(PlaceId) /\ Ids(GpsId) /\ Ids(StallId) /\ Ids(SessionId)
<1>1. \A S \in {NetId, PlaceId, GpsId, StallId, SessionId} : Ids(S)
  BY PlacesAssumption DEF Ids
<1> QED BY <1>1

LEMMA KeysAreNumbers ==
    ASSUME NEW S, Ids(S)
    PROVE  S \subseteq Nat \ {0} /\ IsFiniteSet(S) /\ Null \notin S /\ 0 \notin S
<1>1. Cardinality(S) \in Nat /\ S = 1 .. Cardinality(S) /\ IsFiniteSet(S)
  BY FS_CardinalityType DEF Ids
<1> QED BY <1>1, PlacesAssumption

LEMMA LeastStored ==
    ASSUME NEW S, Ids(S), NEW U \in SUBSET S, U # {}
    PROVE  Least(U) \in U /\ Least(U) # Null
<1>1. U \subseteq Int /\ IsFiniteSet(U) /\ Null \notin U
  BY KeysAreNumbers, FS_Subset
<1> QED BY <1>1, LeastIsOne

\* An id is free: the next one is greater than every stored one.
LEMMA NextIdIsFree ==
    ASSUME NEW S, Ids(S), NEW table, DOMAIN table = S, Room(table)
    PROVE  NextId(table) \in S \ Stored(table)
<1> DEFINE Below == {i \in DOMAIN table : \E j \in Stored(table) : i <= j}
           n == Cardinality(Below)
<1>1. Below \subseteq S /\ IsFiniteSet(S) /\ S = 1 .. Cardinality(S) /\ Cardinality(S) \in Nat
  BY FS_CardinalityType DEF Ids
<1>2. IsFiniteSet(Below) /\ n \in Nat
  BY <1>1, FS_Subset, FS_CardinalityType
<1>3. NextId(table) = 1 + n /\ 1 + n \in S
  BY DEF NextId, Room
<1> HIDE DEF n
<1>4. ASSUME 1 + n \in Stored(table)
      PROVE  FALSE
  <2>1. 1 .. 1 + n \subseteq Below
    BY <1>1, <1>2, <1>3, <1>4
  <2>2. Cardinality(1 .. 1 + n) = 1 + n
    BY <1>2, FS_Interval
  <2>3. Cardinality(1 .. 1 + n) <= n
    <3> HIDE DEF Below
    <3> QED BY <2>1, <1>2, FS_Subset DEF n
  <2> QED BY <2>2, <2>3, <1>2
<1> QED BY <1>3, <1>4

\* What Put does to a table.
LEMMA PutAdds ==
    ASSUME NEW S, Ids(S), NEW R, NoRow \notin R,
           NEW table \in [S -> R \cup {NoRow}], NEW row \in R, Room(table)
    PROVE  LET n == NextId(table)
               t == Put(table, row)
           IN  /\ n \in S \ Stored(table) /\ t \in [S -> R \cup {NoRow}]
               /\ Stored(t) = Stored(table) \cup {n} /\ t[n] = row
               /\ \A i \in Stored(table) : t[i] = table[i]
<1> DEFINE n == NextId(table)
<1>1. n \in S \ Stored(table)
  BY NextIdIsFree
<1> HIDE DEF n
<1>2. Put(table, row) = [table EXCEPT ![n] = row]
  BY DEF Put, n
<1> QED BY <1>1, <1>2 DEF Stored, n

-----------------------------------------------------------------------------
(***************************************************************************)
(* A database with one table replaced.                                     *)
(***************************************************************************)
LEMMA Tables ==
    ASSUME NEW d, Typed(d)
    PROVE  /\ d.nets \in [NetId -> NetworkRow \cup {NoRow}] /\ d.aliases \in [Name -> OrNull(NetId)]
           /\ d.places \in [PlaceId -> PlaceRow \cup {NoRow}]
           /\ d.gps \in [GpsId -> AliasRow \cup {NoRow}]
           /\ d.stalls \in [StallId -> StallRow \cup {NoRow}]
           /\ d.periods \subseteq PeriodRow /\ IsFiniteSet(d.periods)
           /\ d.sessions \in [SessionId -> SessionRow \cup {NoRow}]
           /\ \A n \in Stored(d.nets) : n \in NetId /\ d.nets[n] \in NetworkRow
           /\ \A p \in Stored(d.places) : p \in PlaceId /\ d.places[p] \in PlaceRow
           /\ \A g \in Stored(d.gps) : g \in GpsId /\ d.gps[g] \in AliasRow
           /\ \A s \in Stored(d.stalls) : s \in StallId /\ d.stalls[s] \in StallRow
           /\ \A i \in Stored(d.sessions) : i \in SessionId /\ d.sessions[i] \in SessionRow
BY DEF Typed, Database, Stored

LEMMA WithNets ==
    ASSUME NEW d, Typed(d), NEW t \in [NetId -> NetworkRow \cup {NoRow}]
    PROVE  LET e == [d EXCEPT !.nets = t] IN
           /\ Typed(e) /\ e.nets = t /\ e.aliases = d.aliases /\ e.places = d.places /\ e.gps = d.gps
           /\ e.stalls = d.stalls /\ e.periods = d.periods /\ e.sessions = d.sessions
BY DEF Typed, Database

LEMMA WithPlaces ==
    ASSUME NEW d, Typed(d), NEW t \in [PlaceId -> PlaceRow \cup {NoRow}]
    PROVE  LET e == [d EXCEPT !.places = t] IN
           /\ Typed(e) /\ e.nets = d.nets /\ e.aliases = d.aliases /\ e.places = t /\ e.gps = d.gps
           /\ e.stalls = d.stalls /\ e.periods = d.periods /\ e.sessions = d.sessions
BY DEF Typed, Database

LEMMA WithGps ==
    ASSUME NEW d, Typed(d), NEW t \in [GpsId -> AliasRow \cup {NoRow}]
    PROVE  LET e == [d EXCEPT !.gps = t] IN
           /\ Typed(e) /\ e.nets = d.nets /\ e.aliases = d.aliases /\ e.places = d.places /\ e.gps = t
           /\ e.stalls = d.stalls /\ e.periods = d.periods /\ e.sessions = d.sessions
BY DEF Typed, Database

LEMMA WithStalls ==
    ASSUME NEW d, Typed(d), NEW t \in [StallId -> StallRow \cup {NoRow}]
    PROVE  LET e == [d EXCEPT !.stalls = t] IN
           /\ Typed(e) /\ e.nets = d.nets /\ e.aliases = d.aliases /\ e.places = d.places
           /\ e.gps = d.gps /\ e.stalls = t /\ e.periods = d.periods /\ e.sessions = d.sessions
BY DEF Typed, Database

LEMMA WithPeriods ==
    ASSUME NEW d, Typed(d), NEW t, t \subseteq PeriodRow, IsFiniteSet(t)
    PROVE  LET e == [d EXCEPT !.periods = t] IN
           /\ Typed(e) /\ e.nets = d.nets /\ e.aliases = d.aliases /\ e.places = d.places
           /\ e.gps = d.gps /\ e.stalls = d.stalls /\ e.periods = t /\ e.sessions = d.sessions
BY DEF Typed, Database

LEMMA WithSessions ==
    ASSUME NEW d, Typed(d), NEW t \in [SessionId -> SessionRow \cup {NoRow}]
    PROVE  LET e == [d EXCEPT !.sessions = t] IN
           /\ Typed(e) /\ e.nets = d.nets /\ e.aliases = d.aliases /\ e.places = d.places
           /\ e.gps = d.gps /\ e.stalls = d.stalls /\ e.periods = d.periods /\ e.sessions = t
BY DEF Typed, Database

-----------------------------------------------------------------------------
(***************************************************************************)
(* What ingestion may do to a database, and rows that are added to one.    *)
(***************************************************************************)
OnlyNets(d, e) ==
    /\ e.aliases = d.aliases /\ e.places = d.places /\ e.gps = d.gps /\ e.stalls = d.stalls
    /\ e.periods = d.periods /\ e.sessions = d.sessions

OnlyPlaces(d, e) ==
    /\ e.nets = d.nets /\ e.aliases = d.aliases /\ e.gps = d.gps /\ e.stalls = d.stalls
    /\ e.periods = d.periods /\ e.sessions = d.sessions

OnlySessions(d, e) ==
    /\ e.nets = d.nets /\ e.aliases = d.aliases /\ e.places = d.places /\ e.gps = d.gps
    /\ e.stalls = d.stalls /\ e.periods = d.periods

NetworksStay(d, e) ==
    /\ Stored(d.nets) \subseteq Stored(e.nets) /\ Approved(e.nets) = Approved(d.nets)
    /\ \A name \in Name : Known(d, name) # Null =>
            Known(e, name) = Known(d, name) /\ Named(e, name) = Named(d, name)

PlacesStay(d, e) ==
    /\ Approved(e.places) = Approved(d.places)
    /\ \A p \in Stored(d.places) : p \in Stored(e.places) /\ OnlyFills(d.places[p], e.places[p])

SessionsStay(d, e) ==
    \A i \in Stored(d.sessions) :
        /\ i \in Stored(e.sessions)
        /\ d.sessions[i].network # Null => e.sessions[i].network # Null

Adds(d, e) ==
    /\ NetworksStay(d, e) /\ PlacesStay(d, e) /\ SessionsStay(d, e)
    /\ e.aliases = d.aliases /\ e.gps = d.gps /\ e.stalls = d.stalls /\ e.periods = d.periods

\* An import adds, too, but the session a row is written over may lose its network.
Grows(d, e) ==
    /\ NetworksStay(d, e) /\ PlacesStay(d, e) /\ Stored(d.sessions) \subseteq Stored(e.sessions)
    /\ e.aliases = d.aliases /\ e.gps = d.gps /\ e.stalls = d.stalls /\ e.periods = d.periods

\* All sessions but some keep a network.
NetworksOfSessionsStay(d, e, but) ==
    \A i \in Stored(d.sessions) \ but : d.sessions[i].network # Null => e.sessions[i].network # Null

\* All sessions stay, and all but some keep their key.
KeysStay(d, e, but) ==
    /\ \A i \in Stored(d.sessions) : i \in Stored(e.sessions)
    /\ \A i \in Stored(d.sessions) \ but : e.sessions[i].key = d.sessions[i].key

\* No name becomes that of two networks.
NamesStayClear(d, e) == \A name \in Name : ~Ambiguous(d, name) => ~Ambiguous(e, name)

LEMMA RowsAreNotNull == NoRow \notin NetworkRow /\ NoRow \notin PlaceRow /\ NoRow \notin AliasRow
                          /\ NoRow \notin StallRow /\ NoRow \notin SessionRow
BY PlacesAssumption

LEMMA ValuesAreNotNull ==
    /\ Null \notin Int /\ Null \notin Name /\ Null \notin Address /\ Null \notin Key /\ Null \notin Source
    /\ Null \notin NetId /\ Null \notin PlaceId /\ Null \notin StallId /\ Null \notin SessionId
    /\ Null \notin Spot /\ Null \notin Day
<1>1. Spot \subseteq Int /\ Day \subseteq Int
  BY PlacesAssumption
<1>2. Null \notin NetId /\ Null \notin PlaceId /\ Null \notin StallId /\ Null \notin SessionId
  BY PrimaryKeys, KeysAreNumbers
<1> QED BY <1>1, <1>2, PlacesAssumption

\* Figures can be multiplied, whether they have signs or not.
LEMMA AmountsAreNumbers ==
    /\ Amount \subseteq Int /\ Null \notin Amount
    /\ {0, 7, 10} \subseteq Amount /\ Rate \subseteq Amount /\ Fee \in Amount
    /\ \A a, b \in Amount : a * b \in Amount
<1>1. Amount \subseteq Int /\ {0, 7, 10} \subseteq Amount
  BY DEF Amount
<1>2. ASSUME NEW a \in Amount, NEW b \in Amount PROVE a * b \in Amount
  BY DEF Amount
<1> QED BY <1>1, <1>2, ValuesAreNotNull, PlacesAssumption

LEMMA AddsNothing ==
    ASSUME NEW d
    PROVE  Adds(d, d)
BY DEF Adds, NetworksStay, PlacesStay, SessionsStay, OnlyFills

LEMMA FillsTwice ==
    ASSUME NEW a, NEW b, NEW c, OnlyFills(a, b), OnlyFills(b, c), DOMAIN b = DOMAIN a
    PROVE  OnlyFills(a, c)
BY DEF OnlyFills

\* A network is added.
LEMMA PutNetwork ==
    ASSUME NEW d, Sane(d), NEW row \in NetworkRow, Room(d.nets)
    PROVE  LET e == [d EXCEPT !.nets = Put(@, row)]
               n == NextId(d.nets)
           IN  /\ Sane(e) /\ OnlyNets(d, e) /\ n \in NetId /\ n \notin Stored(d.nets)
               /\ Stored(e.nets) = Stored(d.nets) \cup {n} /\ e.nets[n] = row
               /\ \A i \in Stored(d.nets) : e.nets[i] = d.nets[i]
<1> DEFINE t == Put(d.nets, row)
           e == [d EXCEPT !.nets = t]
           n == NextId(d.nets)
<1>1. Typed(d) /\ Consistent(d) /\ d.nets \in [NetId -> NetworkRow \cup {NoRow}]
  BY Tables DEF Sane
<1>2. /\ n \in NetId \ Stored(d.nets) /\ t \in [NetId -> NetworkRow \cup {NoRow}]
      /\ Stored(t) = Stored(d.nets) \cup {n} /\ t[n] = row
      /\ \A i \in Stored(d.nets) : t[i] = d.nets[i]
  BY <1>1, PutAdds, PrimaryKeys, RowsAreNotNull
<1> HIDE DEF t, n
<1>3. Typed(e) /\ e.nets = t /\ OnlyNets(d, e)
  BY <1>1, <1>2, WithNets DEF OnlyNets
<1> HIDE DEF e
<1>4. Consistent(e)
  BY <1>1, <1>2, <1>3 DEF Consistent, OnlyNets, SessionsRefer, KeysAreUnique, PeriodsAreUnique, PlacesRefer, NamesRefer,
     PeriodsRefer, SpotsRefer, StallsRefer, Refers
<1> QED BY <1>2, <1>3, <1>4 DEF Sane, e, t, n

\* A location is added.
LEMMA PutPlace ==
    ASSUME NEW d, Sane(d), NEW row \in PlaceRow, Refers(row.network, d.nets), Room(d.places)
    PROVE  LET e == [d EXCEPT !.places = Put(@, row)]
               p == NextId(d.places)
           IN  /\ Sane(e) /\ OnlyPlaces(d, e) /\ p \in PlaceId /\ p \notin Stored(d.places)
               /\ Stored(e.places) = Stored(d.places) \cup {p} /\ e.places[p] = row
               /\ \A i \in Stored(d.places) : e.places[i] = d.places[i]
<1> DEFINE t == Put(d.places, row)
           e == [d EXCEPT !.places = t]
           p == NextId(d.places)
<1>1. Typed(d) /\ Consistent(d) /\ d.places \in [PlaceId -> PlaceRow \cup {NoRow}]
  BY Tables DEF Sane
<1>2. /\ p \in PlaceId \ Stored(d.places) /\ t \in [PlaceId -> PlaceRow \cup {NoRow}]
      /\ Stored(t) = Stored(d.places) \cup {p} /\ t[p] = row
      /\ \A i \in Stored(d.places) : t[i] = d.places[i]
  BY <1>1, PutAdds, PrimaryKeys, RowsAreNotNull
<1> HIDE DEF t, p
<1>3. Typed(e) /\ e.places = t /\ OnlyPlaces(d, e)
  BY <1>1, <1>2, WithPlaces DEF OnlyPlaces
<1> HIDE DEF e
<1>4. Consistent(e)
  BY <1>1, <1>2, <1>3 DEF Consistent, OnlyPlaces, SessionsRefer, KeysAreUnique, PeriodsAreUnique, PlacesRefer, NamesRefer,
     PeriodsRefer, SpotsRefer, StallsRefer
<1> QED BY <1>2, <1>3, <1>4 DEF Sane, e, t, p

\* A stall is added.
LEMMA PutStall ==
    ASSUME NEW d, Sane(d), NEW row \in StallRow, row.place \in Stored(d.places), Room(d.stalls)
    PROVE  Sane([d EXCEPT !.stalls = Put(@, row)])
<1> DEFINE t == Put(d.stalls, row)
           e == [d EXCEPT !.stalls = t]
           s == NextId(d.stalls)
<1>1. Typed(d) /\ Consistent(d) /\ d.stalls \in [StallId -> StallRow \cup {NoRow}]
  BY Tables DEF Sane
<1>2. /\ s \in StallId \ Stored(d.stalls) /\ t \in [StallId -> StallRow \cup {NoRow}]
      /\ Stored(t) = Stored(d.stalls) \cup {s} /\ t[s] = row
      /\ \A i \in Stored(d.stalls) : t[i] = d.stalls[i]
  BY <1>1, PutAdds, PrimaryKeys, RowsAreNotNull
<1> HIDE DEF t, s
<1>3. /\ Typed(e) /\ e.nets = d.nets /\ e.aliases = d.aliases /\ e.places = d.places
      /\ e.gps = d.gps /\ e.stalls = t /\ e.periods = d.periods /\ e.sessions = d.sessions
  BY <1>1, <1>2, WithStalls
<1> HIDE DEF e
<1>4. Consistent(e)
  BY <1>1, <1>2, <1>3 DEF Consistent, SessionsRefer, KeysAreUnique, PeriodsAreUnique, PlacesRefer, NamesRefer,
     PeriodsRefer, SpotsRefer, StallsRefer, Refers
<1> QED BY <1>3, <1>4 DEF Sane, e, t

\* A session is added, under a key of its own.
LEMMA PutSession ==
    ASSUME NEW d, Sane(d), NEW row \in SessionRow, Room(d.sessions),
           Refers(row.network, d.nets), Refers(row.stall, d.stalls), ~Recorded(d, row.key)
    PROVE  LET e == [d EXCEPT !.sessions = Put(@, row)]
               i == NextId(d.sessions)
           IN  /\ Sane(e) /\ OnlySessions(d, e) /\ i \in SessionId /\ i \notin Stored(d.sessions)
               /\ Stored(e.sessions) = Stored(d.sessions) \cup {i} /\ e.sessions[i] = row
               /\ \A j \in Stored(d.sessions) : e.sessions[j] = d.sessions[j]
<1> DEFINE t == Put(d.sessions, row)
           e == [d EXCEPT !.sessions = t]
           i == NextId(d.sessions)
<1>1. Typed(d) /\ Consistent(d) /\ d.sessions \in [SessionId -> SessionRow \cup {NoRow}]
  BY Tables DEF Sane
<1>2. /\ i \in SessionId \ Stored(d.sessions) /\ t \in [SessionId -> SessionRow \cup {NoRow}]
      /\ Stored(t) = Stored(d.sessions) \cup {i} /\ t[i] = row
      /\ \A j \in Stored(d.sessions) : t[j] = d.sessions[j]
  BY <1>1, PutAdds, PrimaryKeys, RowsAreNotNull
<1> HIDE DEF t, i
<1>3. Typed(e) /\ e.sessions = t /\ OnlySessions(d, e)
  BY <1>1, <1>2, WithSessions DEF OnlySessions
<1> HIDE DEF e
<1>4. SessionsRefer(e) /\ KeysAreUnique(e)
  BY <1>1, <1>2, <1>3 DEF Consistent, OnlySessions, SessionsRefer, KeysAreUnique, Recorded
<1>5. Consistent(e)
  BY <1>1, <1>3, <1>4 DEF Consistent, OnlySessions, PeriodsAreUnique, PlacesRefer, NamesRefer,
     PeriodsRefer, SpotsRefer, StallsRefer
<1> QED BY <1>2, <1>3, <1>5 DEF Sane, e, t, i

-----------------------------------------------------------------------------
(***************************************************************************)
(* resolve_network and resolve_location.                                   *)
(***************************************************************************)
\* A name leads to a row, or to nothing.
LEMMA KnownRefers ==
    ASSUME NEW d, Sane(d), NEW name \in Name
    PROVE  Known(d, name) \in OrNull(NetId) /\ Refers(Known(d, name), d.nets)
<1>1. Typed(d) /\ NamesRefer(d) /\ Named(d, name) \subseteq NetId /\ Named(d, name) \subseteq Stored(d.nets)
  BY Tables DEF Sane, Consistent, Named
<1>2. CASE Named(d, name) # {}
  BY <1>1, <1>2, PrimaryKeys, LeastStored DEF Known, Refers, OrNull
<1>3. CASE Named(d, name) = {}
  BY <1>1, <1>3, Tables DEF Known, NamesRefer
<1> QED BY <1>2, <1>3

LEMMA ResolveNetworkSane ==
    ASSUME NEW d, Sane(d), NEW name \in OrNull(Name), NEW src \in OrNull(Source), Room(d.nets)
    PROVE  LET r == ResolveNetwork(d, name, src)
           IN  /\ Sane(r.db) /\ OnlyNets(d, r.db) /\ Adds(d, r.db)
               /\ r.id \in OrNull(NetId) /\ Refers(r.id, r.db.nets)
               /\ name # Null => r.id # Null
<1> DEFINE r == ResolveNetwork(d, name, src)
<1>1. CASE name = Null
  <2>1. r = [db |-> d, id |-> Null]
    BY <1>1 DEF ResolveNetwork
  <2> QED BY <1>1, <2>1, AddsNothing DEF OnlyNets, OrNull, Refers
<1>2. CASE name # Null /\ Known(d, name) # Null
  <2>1. r = [db |-> d, id |-> Known(d, name)] /\ name \in Name
    BY <1>2 DEF ResolveNetwork, OrNull
  <2> QED BY <1>2, <2>1, KnownRefers, AddsNothing DEF OnlyNets
<1>3. CASE name # Null /\ Known(d, name) = Null
  <2> DEFINE row == Automatic(name, src)
             n == NextId(d.nets)
             e == [d EXCEPT !.nets = Put(@, row)]
  <2>1. r = [db |-> e, id |-> n] /\ name \in Name
    BY <1>3 DEF ResolveNetwork, OrNull
  <2>2. row \in NetworkRow /\ row.name = name /\ row.verified = FALSE
    <3>1. Predefined[name] \in [rate : OrNull(Amount), free : BOOLEAN]
      BY <2>1, PlacesAssumption
    <3> QED BY <2>1, <3>1 DEF Automatic, Network, NetworkRow
  <2> HIDE DEF row
  <2>3. /\ Sane(e) /\ OnlyNets(d, e) /\ n \in NetId /\ n \notin Stored(d.nets)
        /\ Stored(e.nets) = Stored(d.nets) \cup {n} /\ e.nets[n] = row
        /\ \A i \in Stored(d.nets) : e.nets[i] = d.nets[i]
    BY <2>2, PutNetwork
  <2> HIDE DEF e, n, r
  <2>4. Approved(e.nets) = Approved(d.nets)
    BY <2>2, <2>3 DEF Approved
  <2>5. ASSUME NEW other \in Name, Known(d, other) # Null
        PROVE  Known(e, other) = Known(d, other) /\ Named(e, other) = Named(d, other)
    <3>1. other # name
      BY <1>3, <2>5
    <3>2. Named(e, other) = Named(d, other)
      BY <2>2, <2>3, <3>1 DEF Named
    <3> QED BY <2>3, <3>2 DEF Known, OnlyNets
  <2>6. NetworksStay(d, e)
    BY <2>3, <2>4, <2>5 DEF NetworksStay
  <2>7. PlacesStay(d, e) /\ SessionsStay(d, e)
    BY <2>3 DEF PlacesStay, SessionsStay, OnlyNets, OnlyFills
  <2>8. Adds(d, e)
    BY <2>3, <2>6, <2>7 DEF Adds, OnlyNets
  <2>9. n \in OrNull(NetId) /\ Refers(n, e.nets) /\ n # Null
    BY <2>3, ValuesAreNotNull DEF OrNull, Refers
  <2> QED BY <2>1, <2>3, <2>8, <2>9 DEF r
<1> QED BY <1>1, <1>2, <1>3

LEMMA ResolvedIsClear ==
    ASSUME NEW d, Sane(d), NEW name \in OrNull(Name), NEW src \in OrNull(Source), Room(d.nets)
    PROVE  NamesStayClear(d, ResolveNetwork(d, name, src).db)
<1> DEFINE r == ResolveNetwork(d, name, src)
<1>1. CASE name = Null \/ Known(d, name) # Null
  <2>1. r.db = d
    BY <1>1 DEF ResolveNetwork
  <2> QED BY <2>1 DEF NamesStayClear
<1>2. CASE ~(name = Null \/ Known(d, name) # Null)
  <2> DEFINE row == Automatic(name, src)
             n == NextId(d.nets)
             e == [d EXCEPT !.nets = Put(@, row)]
  <2>1. r.db = e /\ name \in Name
    BY <1>2 DEF ResolveNetwork, OrNull
  <2>2. row \in NetworkRow /\ row.name = name
    <3>1. Predefined[name] \in [rate : OrNull(Amount), free : BOOLEAN]
      BY <2>1, PlacesAssumption
    <3> QED BY <2>1, <3>1 DEF Automatic, Network, NetworkRow
  <2> HIDE DEF row
  <2>3. /\ Stored(e.nets) = Stored(d.nets) \cup {n} /\ e.nets[n] = row
        /\ \A i \in Stored(d.nets) : e.nets[i] = d.nets[i]
        /\ n \notin Stored(d.nets)
    BY <2>2, PutNetwork
  <2> HIDE DEF e, n, r
  <2>4. Named(d, name) = {}
    <3> SUFFICES ASSUME Named(d, name) # {} PROVE FALSE
      OBVIOUS
    <3>1. Named(d, name) \subseteq Stored(d.nets) /\ Stored(d.nets) \subseteq NetId
      BY Tables DEF Named, Sane
    <3>2. Least(Named(d, name)) \in NetId
      BY <3>1, PrimaryKeys, LeastStored
    <3> QED BY <1>2, <3>2, ValuesAreNotNull DEF Known
  <2>5. Named(e, name) = {n}
    BY <2>2, <2>3, <2>4 DEF Named
  <2>6. ~Ambiguous(e, name)
    <3>1. Cardinality({n}) = 1
      BY FS_Singleton
    <3>2. Cardinality(Named(e, name)) = 1
      BY <2>5, <3>1
    <3> QED BY <3>2 DEF Ambiguous
  <2>7. \A other \in Name \ {name} : Named(e, other) = Named(d, other)
    BY <2>2, <2>3 DEF Named
  <2>8. NamesStayClear(d, e)
    BY <2>6, <2>7 DEF NamesStayClear, Ambiguous
  <2> QED BY <2>1, <2>8 DEF r
<1> QED BY <1>1, <1>2

\* What a location is looked up with.
Observation ==
    [at : OrNull(Spot), address : OrNull(Address), name : OrNull(Name), network : OrNull(NetId),
     home : BOOLEAN, src : Source]

LEMMA GapIsNumber ==
    ASSUME NEW a \in Int, NEW b \in Int
    PROVE  Gap(a, b) \in Int
BY DEF Gap

LEMMA NearIsKnown ==
    ASSUME NEW a \in OrNull(Spot), NEW b \in OrNull(Spot), Near(a, b)
    PROVE  a \in Spot /\ b \in Spot /\ a \in Int /\ b \in Int
BY PlacesAssumption DEF Near, OrNull

LEMMA ClosestIsOne ==
    ASSUME NEW d, Sane(d), NEW obs \in Observation, Acceptable(d, obs) # {}
    PROVE  Closest(d, Acceptable(d, obs), obs.at) \in Acceptable(d, obs)
<1> DEFINE ids == Acceptable(d, obs)
           f == [p \in ids |-> Gap(d.places[p].at, obs.at)]
           nearest == {p \in ids : \A q \in ids : f[p] <= f[q]}
<1>1. ids \subseteq PlaceId /\ IsFiniteSet(ids)
  <2>1. ids \subseteq PlaceId
    BY Tables DEF Sane, Acceptable
  <2> QED BY <2>1, PrimaryKeys, FS_Subset DEF Ids
<1>2. \A p \in ids : f[p] \in Int
  <2>1. \A p \in ids : Near(d.places[p].at, obs.at) /\ d.places[p].at \in OrNull(Spot)
    BY Tables DEF Sane, Acceptable, PlaceRow
  <2>2. obs.at \in OrNull(Spot)
    BY DEF Observation
  <2> HIDE DEF ids
  <2>3. \A p \in ids : d.places[p].at \in Int /\ obs.at \in Int
    BY <2>1, <2>2, NearIsKnown
  <2> QED BY <2>3, GapIsNumber
<1>3. nearest # {}
  <2>1. ids # {}
    OBVIOUS
  <2> HIDE DEF ids, f
  <2>2. \E p \in ids : \A q \in ids : f[p] <= f[q]
    BY <1>1, <1>2, <2>1, FiniteHasLeast
  <2> QED BY <2>2
<1>4. Closest(d, ids, obs.at) = Least(nearest)
  BY DEF Closest
<1>5. Least(nearest) \in nearest
  <2>1. nearest \subseteq PlaceId
    BY <1>1
  <2> HIDE DEF nearest
  <2> QED BY <1>3, <2>1, PrimaryKeys, LeastStored
<1> QED BY <1>4, <1>5

\* A match is a row.
LEMMA MatchIsStored ==
    ASSUME NEW d, Sane(d), NEW obs \in Observation, Match(d, obs) # Null
    PROVE  Match(d, obs) \in Stored(d.places)
<1>1. CASE Acceptable(d, obs) # {}
  <2>1. Match(d, obs) = Closest(d, Acceptable(d, obs), obs.at)
    BY <1>1 DEF Match
  <2>2. Match(d, obs) \in Acceptable(d, obs)
    BY <1>1, <2>1, ClosestIsOne
  <2> QED BY <2>2 DEF Acceptable
<1>2. CASE Acceptable(d, obs) = {} /\ AtAddress(d, obs.address) # {}
  <2>1. Match(d, obs) = Least(AtAddress(d, obs.address))
    BY <1>2 DEF Match
  <2>2. AtAddress(d, obs.address) \subseteq PlaceId
    BY Tables DEF Sane, AtAddress
  <2>3. Match(d, obs) \in AtAddress(d, obs.address)
    BY <1>2, <2>1, <2>2, PrimaryKeys, LeastStored
  <2> QED BY <2>3 DEF AtAddress
<1> QED BY <1>1, <1>2 DEF Match

\* What is filled is as good a row, and only filled.
LEMMA FilledFills ==
    ASSUME NEW row \in PlaceRow, NEW obs \in Observation
    PROVE  /\ Filled(row, obs) \in PlaceRow /\ OnlyFills(row, Filled(row, obs))
           /\ Filled(row, obs).network \in {row.network, obs.network}
           /\ Filled(row, obs).verified = row.verified
<1>1. CASE row.src = "manual"
  BY <1>1 DEF Filled, OnlyFills
<1>2. CASE row.src # "manual"
  <2> DEFINE new == Filled(row, obs)
  <2>1. new = [row EXCEPT !.address = Either(@, obs.address), !.at = Either(@, obs.at),
                          !.network = Either(@, obs.network)]
    BY <1>2 DEF Filled
  <2>2. /\ Either(row.address, obs.address) \in OrNull(Address)
        /\ Either(row.at, obs.at) \in OrNull(Spot)
        /\ Either(row.network, obs.network) \in OrNull(NetId) \cap {row.network, obs.network}
    BY DEF PlaceRow, Observation, Either
  <2>3. /\ new.address = Either(row.address, obs.address) /\ new.at = Either(row.at, obs.at)
        /\ new.network = Either(row.network, obs.network) /\ new.name = row.name /\ new.rate = row.rate
        /\ new.verified = row.verified /\ new.src = row.src
    BY <2>1 DEF PlaceRow
  <2>4. new \in PlaceRow
    BY <2>1, <2>2 DEF PlaceRow
  <2>5. DOMAIN row = {"name", "at", "address", "network", "rate", "verified", "src"}
    BY DEF PlaceRow
  <2> HIDE DEF new
  <2>6. OnlyFills(row, new)
    BY <1>2, <2>3, <2>5 DEF OnlyFills, Either
  <2> QED BY <2>2, <2>3, <2>4, <2>6 DEF new
<1> QED BY <1>1, <1>2

LEMMA NewPlaceIsRow ==
    ASSUME NEW obs \in Observation
    PROVE  NewPlace(obs) \in PlaceRow /\ NewPlace(obs).network \in {Null, obs.network}
           /\ NewPlace(obs).verified = FALSE
<1>1. CASE obs.home /\ Home # Null
  BY <1>1, PlacesAssumption DEF NewPlace, Place, PlaceRow, Observation, OrNull
<1>2. CASE ~(obs.home /\ Home # Null)
  <2>1. Either(obs.name, Nameless) \in Name
    BY PlacesAssumption DEF Observation, Either, OrNull
  <2> QED BY <1>2, <2>1 DEF NewPlace, Place, PlaceRow, Observation, OrNull
<1> QED BY <1>1, <1>2

LEMMA ResolvePlaceSane ==
    ASSUME NEW d, Sane(d), NEW obs \in Observation, Refers(obs.network, d.nets), Room(d.places)
    PROVE  LET r == ResolvePlace(d, obs)
           IN  /\ Sane(r.db) /\ OnlyPlaces(d, r.db) /\ Adds(d, r.db)
               /\ r.id \in OrNull(PlaceId)
<1> DEFINE r == ResolvePlace(d, obs)
<1>0. Typed(d) /\ Consistent(d)
  BY DEF Sane
<1>a. ASSUME r.db = d, r.id \in OrNull(PlaceId)
      PROVE  Sane(r.db) /\ OnlyPlaces(d, r.db) /\ Adds(d, r.db) /\ r.id \in OrNull(PlaceId)
  <2> HIDE DEF r
  <2> QED BY <1>a, AddsNothing DEF OnlyPlaces
<1>b. ASSUME NEW e, Sane(e), OnlyPlaces(d, e), PlacesStay(d, e)
      PROVE  Adds(d, e)
  BY <1>b DEF Adds, OnlyPlaces, NetworksStay, SessionsStay, Known, Named
<1>1. CASE obs.at = Null /\ obs.address = Null
  <2>1. r = [db |-> d, id |-> Null]
    BY <1>1 DEF ResolvePlace
  <2> HIDE DEF r
  <2>2. r.db = d /\ r.id \in OrNull(PlaceId)
    BY <2>1 DEF OrNull
  <2> QED BY <2>2, <1>a DEF r
<1>2. CASE ~(obs.at = Null /\ obs.address = Null) /\ AliasesNear(d, obs.at) # {}
  <2> DEFINE g == Least(AliasesNear(d, obs.at))
  <2>1. r = [db |-> d, id |-> d.gps[g].place]
    BY <1>2 DEF ResolvePlace
  <2>2. AliasesNear(d, obs.at) \subseteq GpsId
    BY <1>0, Tables DEF AliasesNear
  <2>3. g \in Stored(d.gps)
    <3>1. g \in AliasesNear(d, obs.at)
      BY <1>2, <2>2, PrimaryKeys, LeastStored
    <3> QED BY <3>1 DEF AliasesNear
  <2>4. d.gps[g].place \in PlaceId
    BY <1>0, <2>3, Tables DEF AliasRow
  <2> HIDE DEF r, g
  <2>5. r.db = d /\ r.id \in OrNull(PlaceId)
    BY <2>1, <2>4 DEF OrNull
  <2> QED BY <2>5, <1>a DEF r
<1> DEFINE Unheard == ~(obs.at = Null /\ obs.address = Null) /\ AliasesNear(d, obs.at) = {}
<1>3. CASE Unheard /\ Match(d, obs) # Null
  <2> DEFINE p == Match(d, obs)
             row == Filled(d.places[p], obs)
             t == [d.places EXCEPT ![p] = row]
             e == [d EXCEPT !.places = t]
  <2>1. p \in Stored(d.places)
    BY <1>3, MatchIsStored
  <2>2. r = [db |-> e, id |-> p]
    BY <1>3 DEF ResolvePlace
  <2>3. p \in PlaceId /\ d.places[p] \in PlaceRow
    BY <1>0, <2>1, Tables
  <2>4. /\ row \in PlaceRow /\ OnlyFills(d.places[p], row) /\ row.network \in {d.places[p].network, obs.network}
        /\ row.verified = d.places[p].verified
    BY <2>3, FilledFills
  <2> HIDE DEF p, row, r
  <2>5. /\ t \in [PlaceId -> PlaceRow \cup {NoRow}] /\ Stored(t) = Stored(d.places) /\ t[p] = row
        /\ \A q \in Stored(d.places) : q # p => t[q] = d.places[q]
    BY <1>0, <2>1, <2>3, <2>4, Tables, RowsAreNotNull DEF Stored
  <2> HIDE DEF t
  <2>6. Typed(e) /\ e.places = t /\ OnlyPlaces(d, e)
    BY <1>0, <2>5, WithPlaces DEF OnlyPlaces
  <2> HIDE DEF e
  <2>7. PlacesRefer(e)
    BY <1>0, <2>1, <2>4, <2>5, <2>6 DEF Consistent, PlacesRefer, OnlyPlaces, Refers
  <2>8. Sane(e)
    BY <1>0, <2>5, <2>6, <2>7 DEF Sane, Consistent, OnlyPlaces, SessionsRefer, KeysAreUnique, PeriodsAreUnique,
       NamesRefer, PeriodsRefer, SpotsRefer, StallsRefer
  <2>9. Approved(e.places) = Approved(d.places)
    BY <2>4, <2>5, <2>6 DEF Approved
  <2>10. PlacesStay(d, e)
    BY <2>4, <2>5, <2>6, <2>9 DEF PlacesStay, OnlyFills
  <2> QED BY <2>2, <2>3, <2>6, <2>8, <2>10, <1>b DEF r, OrNull
<1>4. CASE Unheard /\ Match(d, obs) = Null /\ obs.home /\ AtHome(d) # {}
  <2>1. r = [db |-> d, id |-> Least(AtHome(d))]
    BY <1>4 DEF ResolvePlace
  <2>2. AtHome(d) \subseteq PlaceId
    BY <1>0, Tables DEF AtHome
  <2>3. Least(AtHome(d)) \in PlaceId
    BY <1>4, <2>2, PrimaryKeys, LeastStored
  <2> HIDE DEF r
  <2>4. r.db = d /\ r.id \in OrNull(PlaceId)
    BY <2>1, <2>3 DEF OrNull
  <2> QED BY <2>4, <1>a DEF r
<1>5. CASE Unheard /\ Match(d, obs) = Null /\ ~(obs.home /\ AtHome(d) # {})
  <2> DEFINE row == NewPlace(obs)
             p == NextId(d.places)
             e == [d EXCEPT !.places = Put(@, row)]
  <2>1. r = [db |-> e, id |-> p]
    BY <1>5 DEF ResolvePlace
  <2>2. row \in PlaceRow /\ row.network \in {Null, obs.network} /\ row.verified = FALSE
    BY NewPlaceIsRow
  <2>3. Refers(row.network, d.nets)
    BY <2>2 DEF Refers
  <2> HIDE DEF row
  <2>4. /\ Sane(e) /\ OnlyPlaces(d, e) /\ p \in PlaceId /\ p \notin Stored(d.places)
        /\ Stored(e.places) = Stored(d.places) \cup {p} /\ e.places[p] = row
        /\ \A i \in Stored(d.places) : e.places[i] = d.places[i]
    BY <2>2, <2>3, PutPlace
  <2> HIDE DEF e, p, r
  <2>5. Approved(e.places) = Approved(d.places)
    BY <2>2, <2>4 DEF Approved
  <2>6. PlacesStay(d, e)
    BY <2>4, <2>5 DEF PlacesStay, OnlyFills
  <2> QED BY <2>1, <2>4, <2>6, <1>b DEF r, OrNull
<1> QED BY <1>1, <1>2, <1>3, <1>4, <1>5

LEMMA InheritedRefers ==
    ASSUME NEW d, Sane(d), NEW n \in OrNull(NetId), Refers(n, d.nets), NEW p
    PROVE  /\ Inherited(d, n, p) \in OrNull(NetId) /\ Refers(Inherited(d, n, p), d.nets)
           /\ n # Null => Inherited(d, n, p) # Null
BY Tables DEF Sane, Consistent, Inherited, PlacesRefer, PlaceRow

LEMMA DefaultStallRefers ==
    ASSUME NEW d, Sane(d), NEW p
    PROVE  DefaultStall(d, p) \in OrNull(StallId) /\ Refers(DefaultStall(d, p), d.stalls)
<1> DEFINE here == {s \in Stored(d.stalls) : d.stalls[s].place = p}
           flagged == {s \in here : d.stalls[s].default}
           f == [s \in flagged |-> d.stalls[s].label]
           first == CHOOSE s \in flagged : \A o \in flagged : d.stalls[s].label <= d.stalls[o].label
<1>0. \A s \in Stored(d.stalls) : s \in StallId /\ d.stalls[s] \in StallRow
  BY Tables DEF Sane
<1>1. here \subseteq StallId /\ IsFiniteSet(flagged) /\ \A s \in flagged : f[s] \in Int
  <2>1. here \subseteq StallId /\ flagged \subseteq StallId
    BY <1>0
  <2>2. IsFiniteSet(flagged)
    BY <2>1, PrimaryKeys, FS_Subset DEF Ids
  <2>3. \A s \in flagged : f[s] \in Int
    BY <1>0 DEF StallRow
  <2> QED BY <2>1, <2>2, <2>3
<1>2. CASE flagged # {}
  <2>1. DefaultStall(d, p) = first
    BY <1>2 DEF DefaultStall
  <2>2. \E s \in flagged : \A o \in flagged : f[s] <= f[o]
    <3> HIDE DEF flagged, f
    <3> QED BY <1>1, <1>2, FiniteHasLeast
  <2>3. first \in flagged
    BY <2>2
  <2> HIDE DEF first
  <2> QED BY <1>0, <2>1, <2>3 DEF Refers, OrNull
<1>3. CASE flagged = {} /\ Cardinality(here) = 1
  <2>1. DefaultStall(d, p) = Least(here)
    BY <1>3 DEF DefaultStall
  <2>2. here # {}
    <3>1. Cardinality(here) = 1
      BY <1>3
    <3> HIDE DEF here
    <3> QED BY <3>1, FS_EmptySet
  <2>3. Least(here) \in here
    <3> HIDE DEF here
    <3> QED BY <1>1, <2>2, PrimaryKeys, LeastStored
  <2> QED BY <1>0, <2>1, <2>3 DEF Refers, OrNull
<1>4. CASE flagged = {} /\ Cardinality(here) # 1
  <2>1. DefaultStall(d, p) = Null
    BY <1>4 DEF DefaultStall
  <2> QED BY <2>1 DEF Refers, OrNull
<1> QED BY <1>2, <1>3, <1>4

LEMMA EstimateIsNumber ==
    ASSUME NEW d, Sane(d), NEW s, s.energy \in OrNull(Amount),
           s.network \in OrNull(NetId), Refers(s.network, d.nets)
    PROVE  Estimate(d, s) \in OrNull(Amount)
<1>1. EstimateRate(d, s.network, s.place) \in OrNull(Amount)
  BY Tables DEF Sane, EstimateRate, PlaceRow, NetworkRow, Refers, OrNull
<1> DEFINE rate == EstimateRate(d, s.network, s.place)
<1> HIDE DEF rate
<1>2. CASE Null \in {s.energy, rate}
  BY <1>2 DEF Estimate, OrNull, rate
<1>3. CASE Null \notin {s.energy, rate}
  <2>1. s.energy \in Amount /\ rate \in Amount
    BY <1>1, <1>3 DEF OrNull, rate
  <2>2. s.energy * rate \in Amount
    BY <2>1, AmountsAreNumbers
  <2> QED BY <1>3, <2>2 DEF Estimate, OrNull, rate
<1> QED BY <1>2, <1>3

LEMMA GrowsTwice ==
    ASSUME NEW d, Sane(d), NEW e, Sane(e), NEW f, Sane(f), Grows(d, e), Grows(e, f)
    PROVE  Grows(d, f)
<1>1. NetworksStay(d, f)
  BY DEF Grows, NetworksStay
<1>2. PlacesStay(d, f)
  <2> SUFFICES ASSUME NEW p \in Stored(d.places)
               PROVE  p \in Stored(f.places) /\ OnlyFills(d.places[p], f.places[p])
    BY DEF Grows, PlacesStay
  <2>1. /\ p \in Stored(e.places) /\ OnlyFills(d.places[p], e.places[p])
        /\ p \in Stored(f.places) /\ OnlyFills(e.places[p], f.places[p])
    BY DEF Grows, PlacesStay
  <2>2. d.places[p] \in PlaceRow /\ e.places[p] \in PlaceRow
    BY <2>1, Tables DEF Sane
  <2>3. DOMAIN e.places[p] = DOMAIN d.places[p]
    BY <2>2 DEF PlaceRow
  <2> QED BY <2>1, <2>3, FillsTwice
<1> QED BY <1>1, <1>2 DEF Grows

LEMMA AddingGrows ==
    ASSUME NEW d, NEW e, Adds(d, e)
    PROVE  Grows(d, e) /\ NetworksOfSessionsStay(d, e, {})
BY DEF Adds, Grows, SessionsStay, NetworksOfSessionsStay

LEMMA AddsTwice ==
    ASSUME NEW d, Sane(d), NEW e, Sane(e), NEW f, Sane(f), Adds(d, e), Adds(e, f)
    PROVE  Adds(d, f)
<1>1. Grows(d, f)
  BY AddingGrows, GrowsTwice
<1>2. SessionsStay(d, f)
  BY DEF Adds, SessionsStay
<1> QED BY <1>1, <1>2 DEF Adds, Grows

\* A session added to what only gained networks and locations.
LEMMA SessionIsAdded ==
    ASSUME NEW d, Sane(d), NEW row \in SessionRow, Room(d.sessions),
           Refers(row.network, d.nets), Refers(row.stall, d.stalls), ~Recorded(d, row.key)
    PROVE  LET e == [d EXCEPT !.sessions = Put(@, row)]
           IN  /\ Sane(e) /\ Adds(d, e) /\ OnlySessions(d, e) /\ KeysStay(d, e, {})
               /\ Recorded(e, row.key)
<1> DEFINE e == [d EXCEPT !.sessions = Put(@, row)]
           i == NextId(d.sessions)
<1>1. /\ Sane(e) /\ OnlySessions(d, e) /\ i \in SessionId /\ i \notin Stored(d.sessions)
      /\ Stored(e.sessions) = Stored(d.sessions) \cup {i} /\ e.sessions[i] = row
      /\ \A j \in Stored(d.sessions) : e.sessions[j] = d.sessions[j]
  BY PutSession
<1> HIDE DEF e, i
<1>2. NetworksStay(d, e) /\ PlacesStay(d, e)
  BY <1>1 DEF NetworksStay, PlacesStay, OnlySessions, OnlyFills, Known, Named
<1>3. SessionsStay(d, e)
  BY <1>1 DEF SessionsStay
<1>4. Recorded(e, row.key) /\ KeysStay(d, e, {})
  BY <1>1 DEF Recorded, KeysStay
<1>5. Adds(d, e)
  BY <1>1, <1>2, <1>3 DEF Adds, OnlySessions
<1> QED BY <1>1, <1>4, <1>5 DEF e

-----------------------------------------------------------------------------
(***************************************************************************)
(* The handlers of sessions.                                               *)
(***************************************************************************)
LEMMA ChargeAdds ==
    ASSUME NEW d, Sane(d), NEW key \in DOMAIN Charge, ~Recorded(d, key), RoomIn(d)
    PROVE  Sane(AfterCharge(d, key)) /\ Adds(d, AfterCharge(d, key))
<1> DEFINE c == Charge[key]
           n == ResolveNetwork(d, c.network, c.src)
           obs == [at |-> c.at, address |-> c.address, name |-> c.name, network |-> n.id,
                   home |-> c.home, src |-> c.src]
           p == ResolvePlace(n.db, obs)
           of == IF p.id \in Stored(p.db.places) THEN p.db.places[p.id] ELSE [name |-> Null, network |-> Null]
           row == [key |-> key, name |-> Either(of.name, c.name), network |-> Either(of.network, n.id),
                   place |-> p.id, stall |-> DefaultStall(p.db, p.id), at |-> c.at,
                   address |-> c.address, day |-> c.day, energy |-> c.energy, cost |-> Null,
                   by |-> Null, free |-> FALSE, estimate |-> Null]
           e == [p.db EXCEPT !.sessions = Put(@, row)]
<1>1. c \in Report /\ key \in Key
  BY PlacesAssumption
<1>2. AfterCharge(d, key) = e
  BY DEF AfterCharge
<1>3. /\ c.network \in OrNull(Name) /\ c.src \in OrNull(Source) /\ c.src \in Source /\ c.at \in OrNull(Spot)
      /\ c.address \in OrNull(Address) /\ c.name \in OrNull(Name) /\ c.home \in BOOLEAN
      /\ c.day \in OrNull(Day) /\ c.energy \in OrNull(Amount)
  BY <1>1 DEF Report, OrNull
<1> HIDE DEF c
<1>4. /\ Sane(n.db) /\ OnlyNets(d, n.db) /\ Adds(d, n.db)
      /\ n.id \in OrNull(NetId) /\ Refers(n.id, n.db.nets)
  BY <1>3, ResolveNetworkSane DEF RoomIn
<1> HIDE DEF n
<1>5. obs \in Observation /\ Refers(obs.network, n.db.nets) /\ Room(n.db.places)
  BY <1>3, <1>4 DEF Observation, OnlyNets, RoomIn
<1> HIDE DEF obs
<1>6. Sane(p.db) /\ OnlyPlaces(n.db, p.db) /\ Adds(n.db, p.db) /\ p.id \in OrNull(PlaceId)
  BY <1>4, <1>5, ResolvePlaceSane
<1> HIDE DEF p
<1>7. of.name \in OrNull(Name) /\ of.network \in OrNull(NetId) /\ Refers(of.network, p.db.nets)
  <2>1. CASE p.id \in Stored(p.db.places)
    <3>1. of \in PlaceRow /\ Refers(of.network, p.db.nets)
      BY <1>6, <2>1, Tables DEF Sane, Consistent, PlacesRefer
    <3> HIDE DEF of
    <3> QED BY <3>1 DEF PlaceRow, OrNull
  <2>2. CASE p.id \notin Stored(p.db.places)
    <3>1. of.name = Null /\ of.network = Null
      BY <2>2
    <3> HIDE DEF of
    <3> QED BY <3>1 DEF OrNull, Refers
  <2> QED BY <2>1, <2>2
<1> HIDE DEF of
<1>8. DefaultStall(p.db, p.id) \in OrNull(StallId) /\ Refers(DefaultStall(p.db, p.id), p.db.stalls)
  BY <1>6, DefaultStallRefers
<1>9. row \in SessionRow /\ Refers(row.network, p.db.nets) /\ Refers(row.stall, p.db.stalls)
  <2>1. Either(of.name, c.name) \in OrNull(Name)
    BY <1>3, <1>7 DEF Either
  <2>2. Either(of.network, n.id) \in OrNull(NetId) /\ Refers(Either(of.network, n.id), p.db.nets)
    BY <1>4, <1>6, <1>7 DEF Either, OnlyPlaces
  <2> QED BY <1>1, <1>3, <1>6, <1>8, <2>1, <2>2 DEF SessionRow, OrNull
<1>10. Room(p.db.sessions) /\ ~Recorded(p.db, row.key)
  <2>1. row.key = key /\ p.db.sessions = d.sessions
    BY <1>4, <1>6 DEF OnlyNets, OnlyPlaces
  <2> QED BY <2>1 DEF Recorded, RoomIn
<1> HIDE DEF row
<1>11. Sane(e) /\ Adds(p.db, e)
  BY <1>6, <1>9, <1>10, SessionIsAdded
<1> HIDE DEF e
<1>12. Adds(d, e)
  BY <1>4, <1>6, <1>11, AddsTwice
<1> QED BY <1>2, <1>11, <1>12

LEMMA EntryAdds ==
    ASSUME NEW d, Sane(d), NEW key \in Key, NEW name \in OrNull(Name), NEW place \in OrNull(PlaceId),
           NEW energy \in Amount, NEW cost \in OrNull(Amount), ~Recorded(d, key), RoomIn(d)
    PROVE  LET e == AfterEntry(d, key, name, place, energy, cost)
           IN  Sane(e) /\ Adds(d, e)
<1> DEFINE n == ResolveNetwork(d, name, Null)
           s == [key |-> key, name |-> Null, network |-> Inherited(n.db, n.id, place),
              place |-> place, stall |-> Null, at |-> Null, address |-> Null, day |-> Least(Day),
              energy |-> energy, cost |-> cost, by |-> IF cost = Null THEN Null ELSE "manual",
              free |-> cost = 0, estimate |-> Null]
           row == [s EXCEPT !.estimate = Estimate(n.db, s)]
           e == [n.db EXCEPT !.sessions = Put(@, row)]
<1>1. AfterEntry(d, key, name, place, energy, cost) = e
  BY DEF AfterEntry
<1>2. /\ Sane(n.db) /\ OnlyNets(d, n.db) /\ Adds(d, n.db)
      /\ n.id \in OrNull(NetId) /\ Refers(n.id, n.db.nets)
  BY ResolveNetworkSane DEF RoomIn, OrNull
<1> HIDE DEF n
<1>3. /\ Inherited(n.db, n.id, place) \in OrNull(NetId) /\ Refers(Inherited(n.db, n.id, place), n.db.nets)
  BY <1>2, InheritedRefers
<1>4. Least(Day) \in Day
  BY PlacesAssumption, LeastIsOne
<1>5. s \in SessionRow
  BY <1>3, <1>4 DEF SessionRow, OrNull
<1>6. s.energy \in OrNull(Amount) /\ s.network \in OrNull(NetId) /\ Refers(s.network, n.db.nets)
      /\ s.stall = Null /\ s.key = key
  BY <1>3 DEF OrNull
<1> HIDE DEF s
<1>7. Estimate(n.db, s) \in OrNull(Amount)
  BY <1>2, <1>6, EstimateIsNumber
<1>8. row \in SessionRow /\ row.network = s.network /\ row.stall = Null /\ row.key = key
  BY <1>5, <1>6, <1>7 DEF SessionRow
<1>9. Room(n.db.sessions) /\ ~Recorded(n.db, row.key) /\ Refers(row.stall, n.db.stalls)
  BY <1>2, <1>8 DEF OnlyNets, Recorded, RoomIn, Refers
<1> HIDE DEF row
<1>10. Sane(e) /\ Adds(n.db, e)
  BY <1>2, <1>6, <1>8, <1>9, SessionIsAdded
<1> HIDE DEF e
<1> QED BY <1>1, <1>2, <1>10, AddsTwice

\* Sessions of a database are replaced, each under its key, or go.
LEMMA SessionsReplaced ==
    ASSUME NEW d, Sane(d), NEW t \in [SessionId -> SessionRow \cup {NoRow}],
           Stored(t) \subseteq Stored(d.sessions),
           \A i \in Stored(t) : /\ t[i].key = d.sessions[i].key
                                /\ Refers(t[i].network, d.nets) /\ Refers(t[i].stall, d.stalls)
    PROVE  LET e == [d EXCEPT !.sessions = t]
           IN  Sane(e) /\ OnlySessions(d, e) /\ e.sessions = t
<1> DEFINE e == [d EXCEPT !.sessions = t]
<1>1. Typed(d) /\ Consistent(d)
  BY DEF Sane
<1>2. Typed(e) /\ OnlySessions(d, e) /\ e.sessions = t
  BY <1>1, WithSessions DEF OnlySessions
<1> HIDE DEF e
<1>3. SessionsRefer(e) /\ KeysAreUnique(e)
  BY <1>1, <1>2 DEF Consistent, OnlySessions, SessionsRefer, KeysAreUnique
<1>4. Consistent(e)
  BY <1>1, <1>2, <1>3 DEF Consistent, OnlySessions, PeriodsAreUnique, PlacesRefer, NamesRefer,
     PeriodsRefer, SpotsRefer, StallsRefer
<1> QED BY <1>2, <1>4 DEF Sane, e

\* Only sessions differ, and none has lost its network.
LEMMA SessionsOnlyAdd ==
    ASSUME NEW d, NEW e, OnlySessions(d, e), SessionsStay(d, e)
    PROVE  Adds(d, e)
BY DEF Adds, NetworksStay, PlacesStay, OnlySessions, OnlyFills, Known, Named

\* One session is replaced, perhaps under another key.
LEMMA SessionReplaced ==
    ASSUME NEW d, Sane(d), NEW i \in Stored(d.sessions), NEW row \in SessionRow,
           Refers(row.network, d.nets), Refers(row.stall, d.stalls),
           \A j \in Stored(d.sessions) \ {i} : d.sessions[j].key # row.key
    PROVE  LET e == [d EXCEPT !.sessions[i] = row]
           IN  /\ Sane(e) /\ OnlySessions(d, e) /\ Stored(e.sessions) = Stored(d.sessions)
               /\ e.sessions[i] = row
               /\ \A j \in Stored(d.sessions) \ {i} : e.sessions[j] = d.sessions[j]
<1> DEFINE t == [d.sessions EXCEPT ![i] = row]
           e == [d EXCEPT !.sessions = t]
<1>1. Typed(d) /\ Consistent(d) /\ d.sessions \in [SessionId -> SessionRow \cup {NoRow}]
      /\ i \in SessionId
  BY Tables DEF Sane
<1>2. /\ t \in [SessionId -> SessionRow \cup {NoRow}] /\ Stored(t) = Stored(d.sessions) /\ t[i] = row
      /\ \A j \in Stored(d.sessions) \ {i} : t[j] = d.sessions[j]
  BY <1>1, RowsAreNotNull DEF Stored
<1> HIDE DEF t
<1>3. Typed(e) /\ OnlySessions(d, e) /\ e.sessions = t
  BY <1>1, <1>2, WithSessions DEF OnlySessions
<1> HIDE DEF e
<1>4. SessionsRefer(e) /\ KeysAreUnique(e)
  BY <1>1, <1>2, <1>3 DEF Consistent, OnlySessions, SessionsRefer, KeysAreUnique
<1>5. Consistent(e)
  BY <1>1, <1>3, <1>4 DEF Consistent, OnlySessions, PeriodsAreUnique, PlacesRefer, NamesRefer,
     PeriodsRefer, SpotsRefer, StallsRefer
<1>6. e = [d EXCEPT !.sessions[i] = row]
  BY DEF e, t
<1> QED BY <1>2, <1>3, <1>5, <1>6 DEF Sane

LEMMA EditAdds ==
    ASSUME NEW d, Sane(d), NEW i \in Stored(d.sessions), NEW name \in OrNull(Name),
           NEW place \in OrNull(PlaceId), RoomIn(d)
    PROVE  LET e == AfterEdit(d, i, name, place)
           IN  Sane(e) /\ Adds(d, e)
<1> DEFINE old == d.sessions[i]
           n == ResolveNetwork(d, name, Null)
           moved == [old EXCEPT !.network = Either(n.id, @), !.place = Either(place, @)]
           obs == [at |-> old.at, address |-> old.address, name |-> old.name,
                   network |-> moved.network, home |-> FALSE, src |-> "manual"]
           p == IF moved.place # Null THEN [db |-> n.db, id |-> moved.place] ELSE ResolvePlace(n.db, obs)
           net == Inherited(p.db, moved.network, p.id)
           repriced == /\ net # old.network /\ old.by # "manual" /\ net # Null
                       /\ Priced(p.db.nets[net].rate) /\ old.energy # Null
           s == [moved EXCEPT !.place = p.id, !.network = net,
                              !.cost = IF repriced THEN p.db.nets[net].rate * old.energy ELSE @,
                              !.by = IF repriced THEN "calculated" ELSE @]
           row == [s EXCEPT !.estimate = Estimate(p.db, s)]
           e == [p.db EXCEPT !.sessions[i] = row]
<1>1. AfterEdit(d, i, name, place) = e
  BY DEF AfterEdit
<1>2. old \in SessionRow /\ i \in SessionId /\ Refers(old.network, d.nets) /\ Refers(old.stall, d.stalls)
  BY Tables DEF Sane, Consistent, SessionsRefer
<1>a. \A j \in Stored(d.sessions) \ {i} : d.sessions[j].key # old.key
  BY DEF Sane, Consistent, KeysAreUnique
<1> HIDE DEF old
<1>3. /\ Sane(n.db) /\ OnlyNets(d, n.db) /\ Adds(d, n.db)
      /\ n.id \in OrNull(NetId) /\ Refers(n.id, n.db.nets)
  BY ResolveNetworkSane DEF RoomIn, OrNull
<1> HIDE DEF n
<1>b. Refers(old.network, n.db.nets)
  BY <1>2, <1>3 DEF Adds, NetworksStay, Refers
<1>4. /\ moved \in SessionRow /\ Refers(moved.network, n.db.nets) /\ moved.stall = old.stall
      /\ moved.key = old.key /\ (old.network # Null => moved.network # Null)
  <2>1. /\ Either(n.id, old.network) \in OrNull(NetId) /\ Refers(Either(n.id, old.network), n.db.nets)
        /\ old.network # Null => Either(n.id, old.network) # Null
    BY <1>2, <1>3, <1>b DEF Either, SessionRow
  <2>2. Either(place, old.place) \in OrNull(PlaceId)
    BY <1>2 DEF Either, SessionRow
  <2> QED BY <1>2, <2>1, <2>2 DEF SessionRow
<1> HIDE DEF moved
<1>5. /\ Sane(p.db) /\ OnlyPlaces(n.db, p.db) /\ Adds(n.db, p.db) /\ p.id \in OrNull(PlaceId)
  <2>1. CASE moved.place # Null
    <3>1. p.db = n.db /\ p.id = moved.place
      BY <2>1
    <3> HIDE DEF p
    <3> QED BY <1>3, <1>4, <3>1, AddsNothing DEF OnlyPlaces, SessionRow
  <2>2. CASE moved.place = Null
    <3>1. p = ResolvePlace(n.db, obs)
      BY <2>2
    <3>2. obs \in Observation /\ Refers(obs.network, n.db.nets) /\ Room(n.db.places)
      BY <1>2, <1>3, <1>4 DEF Observation, OnlyNets, RoomIn, SessionRow, Source
    <3> HIDE DEF p, obs
    <3> QED BY <1>3, <3>1, <3>2, ResolvePlaceSane
  <2> QED BY <2>1, <2>2
<1> HIDE DEF p
<1>6. /\ net \in OrNull(NetId) /\ Refers(net, p.db.nets)
      /\ (moved.network # Null => net # Null)
  <2>1. moved.network \in OrNull(NetId) /\ Refers(moved.network, p.db.nets)
    BY <1>4, <1>5 DEF SessionRow, OnlyPlaces
  <2> QED BY <1>5, <2>1, InheritedRefers
<1> HIDE DEF net
<1>7. repriced => p.db.nets[net].rate * old.energy \in Amount
  <2> SUFFICES ASSUME repriced PROVE p.db.nets[net].rate * old.energy \in Amount
    OBVIOUS
  <2>1. p.db.nets[net] \in NetworkRow
    BY <1>5, <1>6, Tables DEF Sane, Refers
  <2>2. p.db.nets[net].rate \in Amount
    BY <2>1 DEF NetworkRow, Priced, OrNull
  <2>3. old.energy \in Amount
    BY <1>2 DEF SessionRow, OrNull
  <2> HIDE DEF repriced
  <2> QED BY <2>2, <2>3, AmountsAreNumbers
<1> HIDE DEF repriced
<1>8. s \in SessionRow /\ s.network = net /\ s.stall = old.stall /\ s.key = old.key
  <2>1. (IF repriced THEN p.db.nets[net].rate * old.energy ELSE moved.cost) \in OrNull(Amount)
    BY <1>4, <1>7 DEF SessionRow, OrNull
  <2>2. (IF repriced THEN "calculated" ELSE moved.by) \in {Null, "manual", "calculated"}
    BY <1>4 DEF SessionRow
  <2> QED BY <1>4, <1>5, <1>6, <2>1, <2>2 DEF SessionRow
<1> HIDE DEF s
<1>9. Estimate(p.db, s) \in OrNull(Amount)
  BY <1>5, <1>6, <1>8, EstimateIsNumber DEF SessionRow
<1>10. row \in SessionRow /\ row.network = net /\ row.stall = old.stall /\ row.key = old.key
  BY <1>8, <1>9 DEF SessionRow
<1> HIDE DEF row
<1>11. p.db.sessions = d.sessions /\ p.db.stalls = d.stalls
  BY <1>3, <1>5 DEF OnlyNets, OnlyPlaces
<1>12. /\ Sane(e) /\ OnlySessions(p.db, e) /\ Stored(e.sessions) = Stored(d.sessions)
       /\ e.sessions[i] = row /\ \A j \in Stored(d.sessions) \ {i} : e.sessions[j] = d.sessions[j]
  <2>1. /\ i \in Stored(p.db.sessions) /\ Refers(row.network, p.db.nets) /\ Refers(row.stall, p.db.stalls)
        /\ \A j \in Stored(p.db.sessions) \ {i} : p.db.sessions[j].key # row.key
    BY <1>2, <1>a, <1>6, <1>10, <1>11
  <2>2. /\ Sane(e) /\ OnlySessions(p.db, e) /\ Stored(e.sessions) = Stored(p.db.sessions)
        /\ e.sessions[i] = row
        /\ \A j \in Stored(p.db.sessions) \ {i} : e.sessions[j] = p.db.sessions[j]
    <3>1. Sane(p.db) /\ row \in SessionRow
      BY <1>5, <1>10
    <3> QED BY <3>1, <2>1, SessionReplaced
  <2> HIDE DEF e
  <2> QED BY <1>11, <2>2
<1> HIDE DEF e
<1>13. SessionsStay(p.db, e)
  BY <1>4, <1>6, <1>10, <1>11, <1>12 DEF SessionsStay, old
<1>14. Adds(p.db, e)
  BY <1>12, <1>13, SessionsOnlyAdd
<1>15. Adds(d, p.db)
  BY <1>3, <1>5, AddsTwice
<1> QED BY <1>1, <1>5, <1>12, <1>14, <1>15, AddsTwice

LEMMA BulkSane ==
    ASSUME NEW d, Sane(d), NEW chosen, chosen \subseteq Stored(d.sessions), NEW name \in OrNull(Name),
           NEW place \in OrNull(PlaceId), NEW cost \in OrNull(Amount), RoomIn(d)
    PROVE  LET e == AfterBulk(d, chosen, name, place, cost)
           IN  /\ Sane(e) /\ e.periods = d.periods /\ Stored(e.sessions) = Stored(d.sessions)
               /\ name # Null => Adds(d, e)
<1> DEFINE n == ResolveNetwork(d, name, Null)
           changed(s) == [s EXCEPT !.network = n.id, !.place = Either(place, @), !.cost = Either(cost, @),
                                   !.by = IF cost = Null THEN @ ELSE "manual"]
           t == [i \in SessionId |-> IF i \in chosen THEN changed(d.sessions[i]) ELSE d.sessions[i]]
           e == [n.db EXCEPT !.sessions = t]
<1>1. AfterBulk(d, chosen, name, place, cost) = e
  BY DEF AfterBulk
<1>2. /\ Sane(n.db) /\ OnlyNets(d, n.db) /\ Adds(d, n.db)
      /\ n.id \in OrNull(NetId) /\ Refers(n.id, n.db.nets) /\ (name # Null => n.id # Null)
  BY ResolveNetworkSane DEF RoomIn, OrNull
<1> HIDE DEF n
<1>3. /\ d.sessions \in [SessionId -> SessionRow \cup {NoRow}]
      /\ \A i \in Stored(d.sessions) : d.sessions[i] \in SessionRow /\ i \in SessionId
  BY Tables DEF Sane
<1>4. ASSUME NEW s \in SessionRow
      PROVE  /\ changed(s) \in SessionRow /\ changed(s).network = n.id
             /\ changed(s).key = s.key /\ changed(s).stall = s.stall
  <2>1. Either(place, s.place) \in OrNull(PlaceId) /\ Either(cost, s.cost) \in OrNull(Amount)
    BY DEF Either, SessionRow
  <2>2. (IF cost = Null THEN s.by ELSE "manual") \in {Null, "manual", "calculated"}
    BY DEF SessionRow
  <2> QED BY <1>2, <2>1, <2>2 DEF SessionRow
<1> HIDE DEF changed
<1>5. /\ t \in [SessionId -> SessionRow \cup {NoRow}] /\ Stored(t) = Stored(d.sessions)
      /\ \A i \in chosen : t[i] = changed(d.sessions[i])
      /\ \A i \in Stored(d.sessions) \ chosen : t[i] = d.sessions[i]
  BY <1>3, <1>4, RowsAreNotNull DEF Stored
<1> HIDE DEF t
<1>6. \A i \in Stored(t) : /\ t[i].key = d.sessions[i].key
                           /\ Refers(t[i].network, n.db.nets) /\ Refers(t[i].stall, n.db.stalls)
  <2>1. \A i \in Stored(d.sessions) : Refers(d.sessions[i].network, n.db.nets) /\ Refers(d.sessions[i].stall, n.db.stalls)
    BY <1>2 DEF Sane, Consistent, SessionsRefer, OnlyNets
  <2> QED BY <1>2, <1>3, <1>4, <1>5, <2>1
<1>7. Sane(e) /\ OnlySessions(n.db, e) /\ e.sessions = t
  BY <1>2, <1>5, <1>6, SessionsReplaced DEF OnlyNets
<1> HIDE DEF e
<1>8. ASSUME name # Null
      PROVE  Adds(n.db, e)
  <2>1. SessionsStay(n.db, e)
    BY <1>2, <1>3, <1>4, <1>5, <1>7, <1>8 DEF SessionsStay, OnlyNets
  <2> QED BY <1>7, <2>1, SessionsOnlyAdd
<1>9. e.periods = d.periods
  BY <1>2, <1>7 DEF OnlyNets, OnlySessions
<1> QED BY <1>1, <1>2, <1>5, <1>7, <1>8, <1>9, AddsTwice

LEMMA RecalculatedAdds ==
    ASSUME NEW d, Sane(d), NEW n \in Stored(d.nets)
    PROVE  Sane(Recalculated(d, n)) /\ Adds(d, Recalculated(d, n))
<1> DEFINE own(s) == /\ s.place \in Stored(d.places) /\ d.places[s.place].network = n
                     /\ d.places[s.place].rate # Null
           rate(s) == IF own(s) THEN d.places[s.place].rate ELSE d.nets[n].rate
           again(s) == s # NoRow /\ s.network = n /\ s.energy \notin {Null, 0}
                       /\ (own(s) \/ Priced(d.nets[n].rate))
           recalculated(s) == IF again(s) THEN [s EXCEPT !.estimate = rate(s) * s.energy] ELSE s
           t == [i \in SessionId |-> recalculated(d.sessions[i])]
           e == [d EXCEPT !.sessions = t]
<1>1. Recalculated(d, n) = e
  BY DEF Recalculated
<1>2. /\ d.sessions \in [SessionId -> SessionRow \cup {NoRow}] /\ d.nets[n] \in NetworkRow
      /\ \A i \in Stored(d.sessions) : d.sessions[i] \in SessionRow /\ i \in SessionId
  BY Tables DEF Sane
<1>3. ASSUME NEW s \in SessionRow
      PROVE  /\ recalculated(s) \in SessionRow /\ recalculated(s).network = s.network
             /\ recalculated(s).key = s.key /\ recalculated(s).stall = s.stall
  <2>1. CASE ~again(s)
    <3>1. recalculated(s) = s
      BY <2>1
    <3> HIDE DEF recalculated
    <3> QED BY <3>1
  <2>2. CASE again(s)
    <3>1. recalculated(s) = [s EXCEPT !.estimate = rate(s) * s.energy]
      BY <2>2
    <3>2. s.energy \in Amount
      BY <2>2 DEF SessionRow, OrNull
    <3>3. rate(s) \in Amount
      <4>1. CASE own(s)
        <5>1. d.places[s.place] \in PlaceRow
          BY <4>1, Tables DEF Sane
        <5> QED BY <4>1, <5>1 DEF PlaceRow, OrNull
      <4>2. CASE ~own(s)
        BY <1>2, <2>2, <4>2 DEF NetworkRow, OrNull, Priced
      <4> QED BY <4>1, <4>2
    <3> HIDE DEF rate, recalculated, again
    <3>4. rate(s) * s.energy \in OrNull(Amount)
      BY <3>2, <3>3, AmountsAreNumbers DEF OrNull
    <3> QED BY <3>1, <3>4 DEF SessionRow
  <2> QED BY <2>1, <2>2
<1>4. recalculated(NoRow) = NoRow
  OBVIOUS
<1> HIDE DEF recalculated
<1>5. /\ t \in [SessionId -> SessionRow \cup {NoRow}] /\ Stored(t) = Stored(d.sessions)
      /\ \A i \in Stored(d.sessions) : t[i] = recalculated(d.sessions[i])
  <2>1. \A i \in SessionId : recalculated(d.sessions[i]) \in SessionRow \cup {NoRow}
    BY <1>2, <1>3, <1>4
  <2>2. \A i \in SessionId : recalculated(d.sessions[i]) = NoRow <=> d.sessions[i] = NoRow
    BY <1>2, <1>3, <1>4, RowsAreNotNull
  <2> QED BY <1>2, <2>1, <2>2 DEF Stored
<1> HIDE DEF t
<1>6. Sane(e) /\ OnlySessions(d, e) /\ e.sessions = t
  BY <1>2, <1>3, <1>5, SessionsReplaced DEF Sane, Consistent, SessionsRefer
<1> HIDE DEF e
<1>7. SessionsStay(d, e)
  BY <1>2, <1>3, <1>5, <1>6 DEF SessionsStay
<1> QED BY <1>1, <1>6, <1>7, SessionsOnlyAdd

LEMMA DeletionSane ==
    ASSUME NEW d, Sane(d), NEW i \in Stored(d.sessions)
    PROVE  LET e == [d EXCEPT !.sessions[i] = NoRow]
           IN  /\ Sane(e) /\ OnlySessions(d, e) /\ Stored(e.sessions) = Stored(d.sessions) \ {i}
               /\ \A j \in Stored(e.sessions) : e.sessions[j] = d.sessions[j]
<1> DEFINE t == [d.sessions EXCEPT ![i] = NoRow]
           e == [d EXCEPT !.sessions = t]
<1>1. d.sessions \in [SessionId -> SessionRow \cup {NoRow}] /\ i \in SessionId
  BY Tables DEF Sane
<1>2. /\ t \in [SessionId -> SessionRow \cup {NoRow}] /\ Stored(t) = Stored(d.sessions) \ {i}
      /\ \A j \in Stored(t) : t[j] = d.sessions[j]
  BY <1>1 DEF Stored
<1> HIDE DEF t
<1>3. Sane(e) /\ OnlySessions(d, e) /\ e.sessions = t
  BY <1>2, SessionsReplaced DEF Sane, Consistent, SessionsRefer
<1>4. e = [d EXCEPT !.sessions[i] = NoRow]
  BY DEF e, t
<1> HIDE DEF e
<1> QED BY <1>2, <1>3, <1>4

-----------------------------------------------------------------------------
(***************************************************************************)
(* The handlers of networks.                                               *)
(***************************************************************************)
\* Of a network that stays, no period is new.
FewerPeriods(d, e) == e.periods \subseteq d.periods /\ Stored(e.nets) \subseteq Stored(d.nets)

\* One network is replaced.
LEMMA NetworkReplaced ==
    ASSUME NEW d, Sane(d), NEW n \in Stored(d.nets), NEW row \in NetworkRow
    PROVE  LET e == [d EXCEPT !.nets[n] = row] IN Sane(e) /\ OnlyNets(d, e)
<1> DEFINE t == [d.nets EXCEPT ![n] = row]
           e == [d EXCEPT !.nets = t]
<1>1. Typed(d) /\ Consistent(d) /\ d.nets \in [NetId -> NetworkRow \cup {NoRow}] /\ n \in NetId
  BY Tables DEF Sane
<1>2. t \in [NetId -> NetworkRow \cup {NoRow}] /\ Stored(t) = Stored(d.nets)
  BY <1>1, RowsAreNotNull DEF Stored
<1> HIDE DEF t
<1>3. Typed(e) /\ e.nets = t /\ OnlyNets(d, e)
  BY <1>1, <1>2, WithNets DEF OnlyNets
<1>4. e = [d EXCEPT !.nets[n] = row]
  BY DEF e, t
<1> HIDE DEF e
<1>5. Consistent(e)
  BY <1>1, <1>2, <1>3 DEF Consistent, OnlyNets, SessionsRefer, KeysAreUnique, PeriodsAreUnique, PlacesRefer, NamesRefer,
     PeriodsRefer, SpotsRefer, StallsRefer, Refers
<1> QED BY <1>3, <1>4, <1>5 DEF Sane

\* One network replaces another, or none does, in a table.
LEMMA RepointedRefers ==
    ASSUME NEW S, NEW table, DOMAIN table = S, NEW n, NEW m
    PROVE  LET t == Repointed(table, n, m)
           IN  /\ DOMAIN t = S
               /\ \A i \in S : table[i] = NoRow \/ table[i].network # n => t[i] = table[i]
               /\ \A i \in S : ~(table[i] = NoRow \/ table[i].network # n) =>
                                  t[i] = [table[i] EXCEPT !.network = m]
BY DEF Repointed

SessionsOf(d, t, n, m) ==
    /\ t \in [SessionId -> SessionRow \cup {NoRow}] /\ Stored(t) = Stored(d.sessions)
    /\ \A i \in Stored(t) :
        /\ t[i].key = d.sessions[i].key /\ t[i].stall = d.sessions[i].stall
        /\ t[i].network = IF d.sessions[i].network = n THEN m ELSE d.sessions[i].network

PlacesOf(d, t, n, m) ==
    /\ t \in [PlaceId -> PlaceRow \cup {NoRow}] /\ Stored(t) = Stored(d.places)
    /\ \A p \in Stored(t) :
        t[p].network = IF d.places[p].network = n THEN m ELSE d.places[p].network

LEMMA RepointedSessions ==
    ASSUME NEW d, Sane(d), NEW n, NEW m \in OrNull(NetId)
    PROVE  SessionsOf(d, Repointed(d.sessions, n, m), n, m)
<1> DEFINE t == Repointed(d.sessions, n, m)
<1>1. d.sessions \in [SessionId -> SessionRow \cup {NoRow}]
  BY Tables DEF Sane
<1>2. /\ DOMAIN t = SessionId
      /\ \A i \in SessionId : d.sessions[i] = NoRow \/ d.sessions[i].network # n => t[i] = d.sessions[i]
      /\ \A i \in SessionId : ~(d.sessions[i] = NoRow \/ d.sessions[i].network # n) =>
                                 t[i] = [d.sessions[i] EXCEPT !.network = m]
  BY <1>1, RepointedRefers
<1>3. t = [i \in SessionId |-> t[i]]
  BY <1>1 DEF Repointed
<1> HIDE DEF t
<1>4. ASSUME NEW s \in SessionRow
      PROVE  /\ [s EXCEPT !.network = m] \in SessionRow /\ [s EXCEPT !.network = m].network = m
             /\ [s EXCEPT !.network = m].key = s.key /\ [s EXCEPT !.network = m].stall = s.stall
  BY DEF SessionRow
<1>5. ASSUME NEW i \in SessionId
      PROVE  /\ t[i] \in SessionRow \cup {NoRow} /\ (t[i] = NoRow <=> d.sessions[i] = NoRow)
             /\ t[i] # NoRow =>
                  /\ t[i].key = d.sessions[i].key /\ t[i].stall = d.sessions[i].stall
                  /\ t[i].network = IF d.sessions[i].network = n THEN m ELSE d.sessions[i].network
  <2>1. d.sessions[i] \in SessionRow \cup {NoRow}
    BY <1>1
  <2>2. CASE d.sessions[i] = NoRow \/ d.sessions[i].network # n
    BY <1>2, <2>1, <2>2
  <2>3. CASE ~(d.sessions[i] = NoRow \/ d.sessions[i].network # n)
    <3> DEFINE s == d.sessions[i]
    <3>1. t[i] = [s EXCEPT !.network = m] /\ s \in SessionRow /\ s.network = n
      BY <1>2, <2>1, <2>3
    <3> HIDE DEF s
    <3>2. t[i] \in SessionRow /\ t[i].network = m /\ t[i].key = s.key /\ t[i].stall = s.stall
      BY <1>4, <3>1
    <3> QED BY <2>3, <3>1, <3>2, RowsAreNotNull DEF s
  <2> QED BY <2>2, <2>3
<1>6. t \in [SessionId -> SessionRow \cup {NoRow}]
  BY <1>3, <1>5
<1> QED BY <1>1, <1>5, <1>6 DEF Stored, SessionsOf, t

LEMMA RepointedPlaces ==
    ASSUME NEW d, Sane(d), NEW n, NEW m \in OrNull(NetId)
    PROVE  PlacesOf(d, Repointed(d.places, n, m), n, m)
<1> DEFINE t == Repointed(d.places, n, m)
<1>1. d.places \in [PlaceId -> PlaceRow \cup {NoRow}]
  BY Tables DEF Sane
<1>2. /\ DOMAIN t = PlaceId
      /\ \A i \in PlaceId : d.places[i] = NoRow \/ d.places[i].network # n => t[i] = d.places[i]
      /\ \A i \in PlaceId : ~(d.places[i] = NoRow \/ d.places[i].network # n) =>
                                 t[i] = [d.places[i] EXCEPT !.network = m]
  BY <1>1, RepointedRefers
<1>3. t = [i \in PlaceId |-> t[i]]
  BY <1>1 DEF Repointed
<1> HIDE DEF t
<1>4. ASSUME NEW s \in PlaceRow
      PROVE  [s EXCEPT !.network = m] \in PlaceRow /\ [s EXCEPT !.network = m].network = m
  BY DEF PlaceRow
<1>5. ASSUME NEW i \in PlaceId
      PROVE  /\ t[i] \in PlaceRow \cup {NoRow} /\ (t[i] = NoRow <=> d.places[i] = NoRow)
             /\ t[i] # NoRow =>
                  t[i].network = IF d.places[i].network = n THEN m ELSE d.places[i].network
  <2>1. d.places[i] \in PlaceRow \cup {NoRow}
    BY <1>1
  <2>2. CASE d.places[i] = NoRow \/ d.places[i].network # n
    BY <1>2, <2>1, <2>2
  <2>3. CASE ~(d.places[i] = NoRow \/ d.places[i].network # n)
    <3> DEFINE s == d.places[i]
    <3>1. t[i] = [s EXCEPT !.network = m] /\ s \in PlaceRow /\ s.network = n
      BY <1>2, <2>1, <2>3
    <3> HIDE DEF s
    <3>2. t[i] \in PlaceRow /\ t[i].network = m
      BY <1>4, <3>1
    <3> QED BY <2>3, <3>1, <3>2, RowsAreNotNull DEF s
  <2> QED BY <2>2, <2>3
<1>6. t \in [PlaceId -> PlaceRow \cup {NoRow}]
  BY <1>3, <1>5
<1> QED BY <1>1, <1>5, <1>6 DEF Stored, PlacesOf, t

\* A network goes, with its names and its periods; sessions and locations lose it.
LEMMA WithoutNetworkSane ==
    ASSUME NEW d, Sane(d), NEW n \in Stored(d.nets)
    PROVE  LET e == WithoutNetwork(d, n)
           IN  /\ Sane(e) /\ FewerPeriods(d, e) /\ Stored(e.nets) = Stored(d.nets) \ {n}
               /\ Stored(e.sessions) = Stored(d.sessions)
               /\ \A i \in Stored(d.sessions) : e.sessions[i].network =
                     IF d.sessions[i].network = n THEN Null ELSE d.sessions[i].network
<1> DEFINE e == WithoutNetwork(d, n)
           nets == [d.nets EXCEPT ![n] = NoRow]
           aliases == [name \in Name |-> IF d.aliases[name] = n THEN Null ELSE d.aliases[name]]
           periods == {p \in d.periods : p.network # n}
           places == Repointed(d.places, n, Null)
           sessions == Repointed(d.sessions, n, Null)
<1>1. /\ Typed(d) /\ Consistent(d) /\ d.nets \in [NetId -> NetworkRow \cup {NoRow}] /\ n \in NetId
      /\ d.aliases \in [Name -> OrNull(NetId)] /\ d.periods \subseteq PeriodRow /\ IsFiniteSet(d.periods)
      /\ d.gps \in [GpsId -> AliasRow \cup {NoRow}] /\ d.stalls \in [StallId -> StallRow \cup {NoRow}]
  BY Tables DEF Sane
<1>2. e = [d EXCEPT !.nets = nets, !.aliases = aliases, !.periods = periods,
                    !.places = places, !.sessions = sessions]
  BY DEF WithoutNetwork
<1>3. nets \in [NetId -> NetworkRow \cup {NoRow}] /\ Stored(nets) = Stored(d.nets) \ {n}
  BY <1>1 DEF Stored
<1>4. /\ aliases \in [Name -> OrNull(NetId)]
      /\ \A name \in Name : aliases[name] # n \/ aliases[name] = Null
      /\ \A name \in Name : aliases[name] \in {Null, d.aliases[name]}
  BY <1>1 DEF OrNull
<1>5. periods \subseteq d.periods /\ IsFiniteSet(periods) /\ \A p \in periods : p.network # n
  BY <1>1, FS_Subset
<1>6. PlacesOf(d, places, n, Null)
  BY RepointedPlaces DEF OrNull
<1>7. SessionsOf(d, sessions, n, Null)
  BY RepointedSessions DEF OrNull
<1> HIDE DEF nets, aliases, periods, places, sessions, e
<1>8. /\ e.nets = nets /\ e.aliases = aliases /\ e.periods = periods /\ e.places = places
      /\ e.sessions = sessions /\ e.gps = d.gps /\ e.stalls = d.stalls /\ e \in Database
  <2>1. d \in Database
    BY <1>1 DEF Typed
  <2>2. periods \subseteq PeriodRow
    BY <1>1, <1>5
  <2> QED BY <1>2, <1>3, <1>4, <1>6, <1>7, <2>1, <2>2 DEF Database, SessionsOf, PlacesOf
<1>9. Typed(e)
  BY <1>5, <1>8 DEF Typed
<1>10. SessionsRefer(e) /\ KeysAreUnique(e)
  BY <1>1, <1>3, <1>7, <1>8 DEF SessionsOf, PlacesOf, Consistent, SessionsRefer, KeysAreUnique, Refers
<1>11. PlacesRefer(e) /\ NamesRefer(e)
  BY <1>1, <1>3, <1>4, <1>6, <1>8 DEF SessionsOf, PlacesOf, Consistent, PlacesRefer, NamesRefer, Refers
<1>12. PeriodsAreUnique(e) /\ PeriodsRefer(e) /\ SpotsRefer(e) /\ StallsRefer(e)
  BY <1>1, <1>3, <1>5, <1>6, <1>8 DEF SessionsOf, PlacesOf, Consistent, PeriodsAreUnique, PeriodsRefer,
     SpotsRefer, StallsRefer
<1> QED BY <1>3, <1>5, <1>7, <1>8, <1>9, <1>10, <1>11, <1>12 DEF Sane, Consistent, FewerPeriods, SessionsOf, e

\* A merge leaves no session without its network.
LEMMA MergeSane ==
    ASSUME NEW d, Sane(d), NEW n \in Stored(d.nets), NEW m \in Stored(d.nets), n # m
    PROVE  LET e == AfterMerge(d, n, m)
           IN  Sane(e) /\ SessionsStay(d, e)
<1> DEFINE name == d.nets[n].name
           sessions == Repointed(d.sessions, n, m)
           places == Repointed(d.places, n, m)
           periods == {IF p.network = n THEN [p EXCEPT !.network = m] ELSE p : p \in d.periods}
           aliases == [d.aliases EXCEPT ![name] = IF @ = Null THEN m ELSE @]
           moved == [Moved(d, n, m) EXCEPT !.aliases[name] = IF @ = Null THEN m ELSE @]
           e == WithoutNetwork(moved, n)
<1>1. /\ Typed(d) /\ Consistent(d) /\ m \in NetId /\ m \in OrNull(NetId) /\ name \in Name
      /\ d.nets \in [NetId -> NetworkRow \cup {NoRow}] /\ d.aliases \in [Name -> OrNull(NetId)]
      /\ d.periods \subseteq PeriodRow /\ IsFiniteSet(d.periods)
      /\ d.gps \in [GpsId -> AliasRow \cup {NoRow}] /\ d.stalls \in [StallId -> StallRow \cup {NoRow}]
  BY Tables DEF Sane, OrNull, NetworkRow
<1>2. moved = [d EXCEPT !.sessions = sessions, !.places = places, !.periods = periods, !.aliases = aliases]
  <2>1. d \in Database
    BY <1>1 DEF Typed
  <2> HIDE DEF sessions, places, periods, name
  <2> QED BY <2>1 DEF Moved, Database, sessions, places, periods
<1>3. SessionsOf(d, sessions, n, m)
  BY <1>1, RepointedSessions
<1>4. PlacesOf(d, places, n, m)
  BY <1>1, RepointedPlaces
<1>5. /\ periods \subseteq PeriodRow /\ IsFiniteSet(periods)
      /\ \A p \in periods : p.network \in Stored(d.nets)
      /\ \A p, q \in periods : p.id = q.id => p = q
  <2> DEFINE f(p) == IF p.network = n THEN [p EXCEPT !.network = m] ELSE p
  <2>1. ASSUME NEW p \in d.periods
        PROVE  f(p) \in PeriodRow /\ f(p).network \in Stored(d.nets) /\ f(p).id = p.id
    <3>1. p \in PeriodRow /\ p.network \in Stored(d.nets)
      BY <1>1 DEF Consistent, PeriodsRefer
    <3> QED BY <1>1, <3>1 DEF PeriodRow
  <2>2. periods = {f(p) : p \in d.periods} /\ [p \in d.periods |-> f(p)] \in Surjection(d.periods, periods)
    BY DEF Surjection
  <2> HIDE DEF f, periods
  <2>3. IsFiniteSet(periods)
    BY <1>1, <2>2, FS_Surjection
  <2>4. \A p, q \in d.periods : p.id = q.id => p = q
    BY <1>1 DEF Consistent, PeriodsAreUnique
  <2>5. \A p, q \in periods : p.id = q.id => p = q
    BY <2>1, <2>2, <2>4
  <2> QED BY <2>1, <2>2, <2>3, <2>5
<1>6. /\ aliases \in [Name -> OrNull(NetId)]
      /\ \A other \in Name : aliases[other] \in {d.aliases[other], m}
  BY <1>1
<1> HIDE DEF sessions, places, periods, aliases, moved, name, e
<1>7. /\ moved.nets = d.nets /\ moved.aliases = aliases /\ moved.periods = periods /\ moved.places = places
      /\ moved.sessions = sessions /\ moved.gps = d.gps /\ moved.stalls = d.stalls /\ moved \in Database
  <2>1. d \in Database
    BY <1>1 DEF Typed
  <2> QED BY <1>2, <1>3, <1>4, <1>5, <1>6, <2>1 DEF Database, SessionsOf, PlacesOf
<1>8. Typed(moved)
  BY <1>5, <1>7 DEF Typed
<1>9. SessionsRefer(moved) /\ KeysAreUnique(moved)
  BY <1>1, <1>3, <1>7 DEF SessionsOf, PlacesOf, Consistent, SessionsRefer, KeysAreUnique, Refers
<1>10. PlacesRefer(moved) /\ NamesRefer(moved)
  BY <1>1, <1>4, <1>6, <1>7 DEF SessionsOf, PlacesOf, Consistent, PlacesRefer, NamesRefer, Refers
<1>11. PeriodsAreUnique(moved) /\ PeriodsRefer(moved) /\ SpotsRefer(moved) /\ StallsRefer(moved)
  BY <1>1, <1>4, <1>5, <1>7 DEF SessionsOf, PlacesOf, Consistent, PeriodsAreUnique, PeriodsRefer,
     SpotsRefer, StallsRefer
<1>12. Sane(moved)
  BY <1>8, <1>9, <1>10, <1>11 DEF Sane, Consistent
<1>13. /\ Sane(e) /\ Stored(e.sessions) = Stored(moved.sessions)
       /\ \A i \in Stored(moved.sessions) : e.sessions[i].network =
             IF moved.sessions[i].network = n THEN Null ELSE moved.sessions[i].network
  BY <1>7, <1>12, WithoutNetworkSane DEF e
<1>14. SessionsStay(d, e)
  <2> SUFFICES ASSUME NEW i \in Stored(d.sessions), d.sessions[i].network # Null
               PROVE  e.sessions[i].network # Null
    BY <1>3, <1>7, <1>13 DEF SessionsStay, SessionsOf
  <2>1. moved.sessions[i].network # n /\ moved.sessions[i].network # Null
    BY <1>1, <1>3, <1>7, ValuesAreNotNull DEF SessionsOf
  <2> QED BY <1>3, <1>7, <1>13, <2>1 DEF SessionsOf
<1>15. AfterMerge(d, n, m) = e
  BY DEF AfterMerge, e, moved, name
<1> QED BY <1>13, <1>14, <1>15

\* Nor does a conversion.
LEMMA ConversionSane ==
    ASSUME NEW d, Sane(d), NEW n \in Stored(d.nets), NEW m \in NetId, n # m,
           NEW place \in PlaceId, NEW name \in Name,
           m \in Stored(d.nets) \/ \A i \in Stored(d.sessions) : d.sessions[i].network # n
    PROVE  LET e == AfterConversion(d, n, m, place, name)
           IN  Sane(e) /\ SessionsStay(d, e) /\ FewerPeriods(d, e)
<1> DEFINE converted(s) == [s EXCEPT !.network = m, !.place = place, !.name = name]
           t == [i \in SessionId |-> IF d.sessions[i] = NoRow \/ d.sessions[i].network # n
                                     THEN d.sessions[i] ELSE converted(d.sessions[i])]
           f == [d EXCEPT !.sessions = t]
           e == WithoutNetwork(f, n)
<1>1. AfterConversion(d, n, m, place, name) = e
  BY DEF AfterConversion
<1>2. /\ d.sessions \in [SessionId -> SessionRow \cup {NoRow}]
      /\ \A i \in Stored(d.sessions) : d.sessions[i] \in SessionRow /\ i \in SessionId
  BY Tables DEF Sane
<1>3. ASSUME NEW s \in SessionRow
      PROVE  /\ converted(s) \in SessionRow /\ converted(s).network = m
             /\ converted(s).key = s.key /\ converted(s).stall = s.stall
  BY DEF SessionRow, OrNull
<1> HIDE DEF converted
<1>4. SessionsOf(d, t, n, m)
  <2>1. ASSUME NEW i \in SessionId
        PROVE  /\ t[i] \in SessionRow \cup {NoRow} /\ (t[i] = NoRow <=> d.sessions[i] = NoRow)
               /\ t[i] # NoRow =>
                    /\ t[i].key = d.sessions[i].key /\ t[i].stall = d.sessions[i].stall
                    /\ t[i].network = IF d.sessions[i].network = n THEN m ELSE d.sessions[i].network
    <3>1. CASE d.sessions[i] = NoRow \/ d.sessions[i].network # n
      BY <1>2, <3>1
    <3>2. CASE ~(d.sessions[i] = NoRow \/ d.sessions[i].network # n)
      BY <1>2, <1>3, <3>2, RowsAreNotNull
    <3> QED BY <3>1, <3>2
  <2>2. DOMAIN t = SessionId /\ t \in [SessionId -> SessionRow \cup {NoRow}]
    BY <2>1
  <2> HIDE DEF t
  <2> QED BY <1>2, <2>1, <2>2 DEF SessionsOf, Stored
<1> HIDE DEF t
<1>5. Sane(f) /\ OnlySessions(d, f) /\ f.sessions = t
  <2>1. \A i \in Stored(t) : /\ t[i].key = d.sessions[i].key
                             /\ Refers(t[i].network, d.nets) /\ Refers(t[i].stall, d.stalls)
    <3>1. \A i \in Stored(d.sessions) : Refers(d.sessions[i].network, d.nets) /\ Refers(d.sessions[i].stall, d.stalls)
      BY DEF Sane, Consistent, SessionsRefer
    <3> QED BY <1>4, <3>1 DEF SessionsOf, Refers
  <2>2. t \in [SessionId -> SessionRow \cup {NoRow}] /\ Stored(t) \subseteq Stored(d.sessions)
    BY <1>4 DEF SessionsOf
  <2> QED BY <2>1, <2>2, SessionsReplaced
<1> HIDE DEF f
<1>6. /\ Sane(e) /\ FewerPeriods(f, e) /\ Stored(e.sessions) = Stored(f.sessions)
      /\ \A i \in Stored(f.sessions) : e.sessions[i].network =
            IF f.sessions[i].network = n THEN Null ELSE f.sessions[i].network
  BY <1>5, WithoutNetworkSane DEF OnlySessions
<1> HIDE DEF e
<1>7. SessionsStay(d, e)
  <2> SUFFICES ASSUME NEW i \in Stored(d.sessions), d.sessions[i].network # Null
               PROVE  e.sessions[i].network # Null
    BY <1>4, <1>5, <1>6 DEF SessionsStay, SessionsOf
  <2>1. f.sessions[i].network # n /\ f.sessions[i].network # Null
    BY <1>4, <1>5, ValuesAreNotNull DEF SessionsOf
  <2> QED BY <1>4, <1>5, <1>6, <2>1 DEF SessionsOf
<1>8. FewerPeriods(d, e)
  BY <1>5, <1>6 DEF FewerPeriods, OnlySessions
<1> QED BY <1>1, <1>6, <1>7, <1>8

-----------------------------------------------------------------------------
(***************************************************************************)
(* The handlers of locations and stalls.                                   *)
(***************************************************************************)
\* Networks, periods and the networks of the sessions are as they were.
OnlyThere(d, e) ==
    /\ e.nets = d.nets /\ e.periods = d.periods /\ Stored(e.sessions) = Stored(d.sessions)
    /\ \A i \in Stored(d.sessions) : e.sessions[i].network = d.sessions[i].network

\* One location is replaced.
LEMMA PlaceReplaced ==
    ASSUME NEW d, Sane(d), NEW p \in Stored(d.places), NEW row \in PlaceRow, Refers(row.network, d.nets)
    PROVE  LET e == [d EXCEPT !.places[p] = row] IN Sane(e) /\ OnlyPlaces(d, e)
<1> DEFINE t == [d.places EXCEPT ![p] = row]
           e == [d EXCEPT !.places = t]
<1>1. Typed(d) /\ Consistent(d) /\ d.places \in [PlaceId -> PlaceRow \cup {NoRow}] /\ p \in PlaceId
  BY Tables DEF Sane
<1>2. /\ t \in [PlaceId -> PlaceRow \cup {NoRow}] /\ Stored(t) = Stored(d.places)
      /\ \A q \in Stored(t) : t[q] = IF q = p THEN row ELSE d.places[q]
  BY <1>1, RowsAreNotNull DEF Stored
<1> HIDE DEF t
<1>3. Typed(e) /\ e.places = t /\ OnlyPlaces(d, e)
  BY <1>1, <1>2, WithPlaces DEF OnlyPlaces
<1>4. e = [d EXCEPT !.places[p] = row]
  BY DEF e, t
<1> HIDE DEF e
<1>5. PlacesRefer(e)
  BY <1>1, <1>2, <1>3 DEF Consistent, OnlyPlaces, PlacesRefer
<1>6. Consistent(e)
  BY <1>1, <1>2, <1>3, <1>5 DEF Consistent, OnlyPlaces, SessionsRefer, KeysAreUnique, PeriodsAreUnique, NamesRefer,
     PeriodsRefer, SpotsRefer, StallsRefer
<1> QED BY <1>3, <1>4, <1>6 DEF Sane

\* One stall is replaced.
LEMMA StallReplaced ==
    ASSUME NEW d, Sane(d), NEW s \in Stored(d.stalls), NEW default \in BOOLEAN
    PROVE  LET e == [d EXCEPT !.stalls[s].default = default] IN Sane(e) /\ OnlyThere(d, e)
<1> DEFINE row == [d.stalls[s] EXCEPT !.default = default]
           t == [d.stalls EXCEPT ![s] = row]
           e == [d EXCEPT !.stalls = t]
<1>1. /\ Typed(d) /\ Consistent(d) /\ d.stalls \in [StallId -> StallRow \cup {NoRow}] /\ s \in StallId
      /\ d.stalls[s] \in StallRow
  BY Tables DEF Sane
<1>2. row \in StallRow /\ row.place = d.stalls[s].place
  BY <1>1 DEF StallRow
<1>3. e = [d EXCEPT !.stalls[s].default = default]
  BY DEF e, t
<1> HIDE DEF row
<1>4. /\ t \in [StallId -> StallRow \cup {NoRow}] /\ Stored(t) = Stored(d.stalls)
      /\ \A o \in Stored(t) : t[o].place = d.stalls[o].place
  BY <1>1, <1>2, RowsAreNotNull DEF Stored
<1> HIDE DEF t
<1>5. /\ Typed(e) /\ e.nets = d.nets /\ e.aliases = d.aliases /\ e.places = d.places
      /\ e.gps = d.gps /\ e.stalls = t /\ e.periods = d.periods /\ e.sessions = d.sessions
  BY <1>1, <1>4, WithStalls
<1> HIDE DEF e
<1>6. Consistent(e)
  BY <1>1, <1>4, <1>5 DEF Consistent, SessionsRefer, KeysAreUnique, PeriodsAreUnique, PlacesRefer, NamesRefer,
     PeriodsRefer, SpotsRefer, StallsRefer, Refers
<1> QED BY <1>3, <1>5, <1>6 DEF Sane, OnlyThere

\* Stalls go, and sessions lose them.
LEMMA WithoutStallsRefers ==
    ASSUME NEW d, Typed(d), SessionsRefer(d), KeysAreUnique(d), NEW gone
    PROVE  LET e == WithoutStalls(d, gone)
           IN  /\ Typed(e) /\ SessionsRefer(e) /\ KeysAreUnique(e) /\ OnlyThere(d, e)
               /\ e.aliases = d.aliases /\ e.places = d.places /\ e.gps = d.gps
               /\ Stored(e.stalls) = Stored(d.stalls) \ gone
               /\ \A s \in Stored(e.stalls) : e.stalls[s] = d.stalls[s]
<1> DEFINE cleared(s) == [s EXCEPT !.stall = Null]
           stalls == [s \in StallId |-> IF s \in gone THEN NoRow ELSE d.stalls[s]]
           t == [i \in SessionId |-> IF d.sessions[i] = NoRow \/ d.sessions[i].stall \notin gone
                                     THEN d.sessions[i] ELSE cleared(d.sessions[i])]
           e == [d EXCEPT !.stalls = stalls, !.sessions = t]
<1>1. WithoutStalls(d, gone) = e
  BY DEF WithoutStalls
<1>2. /\ d.sessions \in [SessionId -> SessionRow \cup {NoRow}]
      /\ \A i \in Stored(d.sessions) : d.sessions[i] \in SessionRow /\ i \in SessionId
      /\ d.stalls \in [StallId -> StallRow \cup {NoRow}]
  BY Tables
<1>3. ASSUME NEW s \in SessionRow
      PROVE  /\ cleared(s) \in SessionRow /\ cleared(s).network = s.network
             /\ cleared(s).key = s.key /\ cleared(s).stall = Null
  BY DEF SessionRow, OrNull
<1> HIDE DEF cleared
<1>4. /\ t \in [SessionId -> SessionRow \cup {NoRow}] /\ Stored(t) = Stored(d.sessions)
      /\ \A i \in Stored(t) :
            /\ t[i].key = d.sessions[i].key /\ t[i].network = d.sessions[i].network
            /\ t[i].stall = Null \/ (t[i].stall = d.sessions[i].stall /\ t[i].stall \notin gone)
  <2>1. ASSUME NEW i \in SessionId
        PROVE  /\ t[i] \in SessionRow \cup {NoRow} /\ (t[i] = NoRow <=> d.sessions[i] = NoRow)
               /\ t[i] # NoRow =>
                    /\ t[i].key = d.sessions[i].key /\ t[i].network = d.sessions[i].network
                    /\ t[i].stall = Null \/ (t[i].stall = d.sessions[i].stall /\ t[i].stall \notin gone)
    <3>1. CASE d.sessions[i] = NoRow \/ d.sessions[i].stall \notin gone
      BY <1>2, <3>1
    <3>2. CASE ~(d.sessions[i] = NoRow \/ d.sessions[i].stall \notin gone)
      BY <1>2, <1>3, <3>2, RowsAreNotNull
    <3> QED BY <3>1, <3>2
  <2>2. DOMAIN t = SessionId /\ t \in [SessionId -> SessionRow \cup {NoRow}]
    BY <2>1
  <2> HIDE DEF t
  <2> QED BY <1>2, <2>1, <2>2 DEF Stored
<1>5. /\ stalls \in [StallId -> StallRow \cup {NoRow}] /\ Stored(stalls) = Stored(d.stalls) \ gone
      /\ \A s \in Stored(stalls) : stalls[s] = d.stalls[s]
  BY <1>2 DEF Stored
<1> HIDE DEF t, stalls
<1>6. /\ e.nets = d.nets /\ e.aliases = d.aliases /\ e.places = d.places /\ e.gps = d.gps
      /\ e.stalls = stalls /\ e.periods = d.periods /\ e.sessions = t /\ Typed(e)
  BY <1>4, <1>5 DEF Typed, Database
<1> HIDE DEF e
<1>7. SessionsRefer(e) /\ KeysAreUnique(e)
  BY <1>4, <1>5, <1>6 DEF SessionsRefer, KeysAreUnique, Refers
<1>8. OnlyThere(d, e)
  BY <1>4, <1>6 DEF OnlyThere
<1> QED BY <1>1, <1>5, <1>6, <1>7, <1>8

LEMMA StallGoes ==
    ASSUME NEW d, Sane(d), NEW gone
    PROVE  LET e == WithoutStalls(d, gone) IN Sane(e) /\ OnlyThere(d, e)
<1> DEFINE e == WithoutStalls(d, gone)
<1>1. Typed(d) /\ Consistent(d) /\ SessionsRefer(d) /\ KeysAreUnique(d)
  BY DEF Sane, Consistent
<1>2. /\ Typed(e) /\ SessionsRefer(e) /\ KeysAreUnique(e) /\ OnlyThere(d, e)
      /\ e.aliases = d.aliases /\ e.places = d.places /\ e.gps = d.gps
      /\ Stored(e.stalls) = Stored(d.stalls) \ gone
      /\ \A s \in Stored(e.stalls) : e.stalls[s] = d.stalls[s]
  BY <1>1, WithoutStallsRefers
<1> HIDE DEF e
<1>3. Consistent(e)
  BY <1>1, <1>2 DEF Consistent, OnlyThere, PeriodsAreUnique, PlacesRefer, NamesRefer, PeriodsRefer, SpotsRefer, StallsRefer
<1> QED BY <1>2, <1>3 DEF Sane, e

\* A location goes, with its stalls and the positions remembered for it.
LEMMA WithoutPlaceSane ==
    ASSUME NEW d, Sane(d), NEW p \in Stored(d.places)
    PROVE  LET e == WithoutPlace(d, p) IN Sane(e) /\ OnlyThere(d, e)
<1> DEFINE places == [d.places EXCEPT ![p] = NoRow]
           gps == [g \in GpsId |-> IF d.gps[g] = NoRow \/ d.gps[g].place # p THEN d.gps[g] ELSE NoRow]
           gone == {s \in Stored(d.stalls) : d.stalls[s].place = p}
           f == [d EXCEPT !.places[p] = NoRow, !.gps = gps]
           e == WithoutStalls(f, gone)
<1>1. /\ Typed(d) /\ Consistent(d) /\ p \in PlaceId /\ d.places \in [PlaceId -> PlaceRow \cup {NoRow}]
      /\ d.gps \in [GpsId -> AliasRow \cup {NoRow}]
  BY Tables DEF Sane
<1>2. WithoutPlace(d, p) = e
  BY DEF WithoutPlace
<1>3. /\ places \in [PlaceId -> PlaceRow \cup {NoRow}] /\ Stored(places) = Stored(d.places) \ {p}
      /\ \A q \in Stored(places) : places[q] = d.places[q]
  BY <1>1 DEF Stored
<1>4. /\ gps \in [GpsId -> AliasRow \cup {NoRow}] /\ Stored(gps) \subseteq Stored(d.gps)
      /\ \A g \in Stored(gps) : gps[g] = d.gps[g] /\ gps[g].place # p
  BY <1>1 DEF Stored
<1>5. /\ f.nets = d.nets /\ f.aliases = d.aliases /\ f.places = places /\ f.gps = gps
      /\ f.stalls = d.stalls /\ f.periods = d.periods /\ f.sessions = d.sessions /\ Typed(f)
  BY <1>1, <1>3, <1>4 DEF Typed, Database
<1> HIDE DEF places, gps, f, e
<1>6. SessionsRefer(f) /\ KeysAreUnique(f)
  BY <1>1, <1>5 DEF Consistent, SessionsRefer, KeysAreUnique
<1>7. /\ Typed(e) /\ SessionsRefer(e) /\ KeysAreUnique(e) /\ OnlyThere(f, e)
      /\ e.aliases = f.aliases /\ e.places = f.places /\ e.gps = f.gps
      /\ Stored(e.stalls) = Stored(f.stalls) \ gone
      /\ \A s \in Stored(e.stalls) : e.stalls[s] = f.stalls[s]
  BY <1>5, <1>6, WithoutStallsRefers DEF e
<1>8. OnlyThere(d, e)
  BY <1>5, <1>7 DEF OnlyThere
<1>9. PlacesRefer(e) /\ NamesRefer(e) /\ PeriodsRefer(e) /\ PeriodsAreUnique(e)
  BY <1>1, <1>3, <1>5, <1>7 DEF Consistent, OnlyThere, PlacesRefer, NamesRefer, PeriodsRefer, PeriodsAreUnique
<1>10. SpotsRefer(e) /\ StallsRefer(e)
  BY <1>1, <1>3, <1>4, <1>5, <1>7 DEF Consistent, SpotsRefer, StallsRefer
<1> QED BY <1>2, <1>7, <1>8, <1>9, <1>10 DEF Sane, Consistent

LEMMA RememberedRefers ==
    ASSUME NEW d, Sane(d), NEW p \in Stored(d.places), NEW q \in Stored(d.places), Room(d.gps)
    PROVE  LET t == Remembered(d, p, q)
           IN  /\ t \in [GpsId -> AliasRow \cup {NoRow}]
               /\ \A g \in Stored(t) : t[g].place \in Stored(d.places)
<1> DEFINE row == [place |-> q, at |-> d.places[p].at]
           t == Remembered(d, p, q)
           n == NextId(d.gps)
<1>1. /\ d.gps \in [GpsId -> AliasRow \cup {NoRow}] /\ q \in PlaceId /\ d.places[p] \in PlaceRow
      /\ \A g \in Stored(d.gps) : d.gps[g].place \in Stored(d.places)
  BY Tables DEF Sane, Consistent, SpotsRefer
<1>2. CASE t = d.gps
  <2> HIDE DEF t
  <2> QED BY <1>1, <1>2 DEF t
<1>3. CASE t # d.gps
  <2>1. t = Put(d.gps, row) /\ d.places[p].at # Null
    BY <1>3 DEF Remembered
  <2>2. row \in AliasRow /\ row.place = q
    BY <1>1, <2>1 DEF PlaceRow, AliasRow, OrNull
  <2> HIDE DEF row, n, t
  <2>3. /\ Put(d.gps, row) \in [GpsId -> AliasRow \cup {NoRow}]
        /\ Stored(Put(d.gps, row)) = Stored(d.gps) \cup {n} /\ Put(d.gps, row)[n] = row
        /\ \A i \in Stored(d.gps) : Put(d.gps, row)[i] = d.gps[i]
    BY <1>1, <2>2, PutAdds, PrimaryKeys, RowsAreNotNull DEF n
  <2> QED BY <1>1, <2>1, <2>2, <2>3 DEF t
<1> QED BY <1>2, <1>3

LEMMA PlaceMergeSane ==
    ASSUME NEW d, Sane(d), NEW p \in Stored(d.places), NEW q \in Stored(d.places), p # q, Room(d.gps)
    PROVE  LET e == AfterPlaceMerge(d, p, q) IN Sane(e) /\ OnlyThere(d, e)
<1> DEFINE visited(s) == [s EXCEPT !.place = q]
           t == [i \in SessionId |-> IF d.sessions[i] = NoRow \/ d.sessions[i].place # p
                                     THEN d.sessions[i] ELSE visited(d.sessions[i])]
           stalls == [s \in StallId |-> IF d.stalls[s] = NoRow \/ d.stalls[s].place # p
                                        THEN d.stalls[s] ELSE visited(d.stalls[s])]
           gps == Remembered(d, p, q)
           f == [d EXCEPT !.sessions = t, !.stalls = stalls, !.gps = gps]
           e == WithoutPlace(f, p)
<1>1. AfterPlaceMerge(d, p, q) = e
  BY DEF AfterPlaceMerge
<1>2. /\ Typed(d) /\ Consistent(d) /\ d.sessions \in [SessionId -> SessionRow \cup {NoRow}]
      /\ \A i \in Stored(d.sessions) : d.sessions[i] \in SessionRow /\ i \in SessionId
      /\ d.stalls \in [StallId -> StallRow \cup {NoRow}]
      /\ \A s \in Stored(d.stalls) : d.stalls[s] \in StallRow /\ s \in StallId
      /\ p \in PlaceId /\ q \in PlaceId
  BY Tables DEF Sane
<1>3. /\ gps \in [GpsId -> AliasRow \cup {NoRow}]
      /\ \A g \in Stored(gps) : gps[g].place \in Stored(d.places)
  BY RememberedRefers
<1>4. ASSUME NEW s \in SessionRow
      PROVE  /\ visited(s) \in SessionRow /\ visited(s).network = s.network
             /\ visited(s).key = s.key /\ visited(s).stall = s.stall
  BY <1>2 DEF SessionRow, OrNull
<1>5. ASSUME NEW s \in StallRow
      PROVE  visited(s) \in StallRow /\ visited(s).place = q
  BY <1>2 DEF StallRow
<1> HIDE DEF visited, gps
<1>6. /\ t \in [SessionId -> SessionRow \cup {NoRow}] /\ Stored(t) = Stored(d.sessions)
      /\ \A i \in Stored(t) : /\ t[i].key = d.sessions[i].key /\ t[i].network = d.sessions[i].network
                              /\ t[i].stall = d.sessions[i].stall
  <2>1. ASSUME NEW i \in SessionId
        PROVE  /\ t[i] \in SessionRow \cup {NoRow} /\ (t[i] = NoRow <=> d.sessions[i] = NoRow)
               /\ t[i] # NoRow =>
                    /\ t[i].key = d.sessions[i].key /\ t[i].network = d.sessions[i].network
                    /\ t[i].stall = d.sessions[i].stall
    <3>1. CASE d.sessions[i] = NoRow \/ d.sessions[i].place # p
      BY <1>2, <3>1
    <3>2. CASE ~(d.sessions[i] = NoRow \/ d.sessions[i].place # p)
      BY <1>2, <1>4, <3>2, RowsAreNotNull
    <3> QED BY <3>1, <3>2
  <2>2. DOMAIN t = SessionId /\ t \in [SessionId -> SessionRow \cup {NoRow}]
    BY <2>1
  <2> HIDE DEF t
  <2> QED BY <1>2, <2>1, <2>2 DEF Stored
<1>7. /\ stalls \in [StallId -> StallRow \cup {NoRow}] /\ Stored(stalls) = Stored(d.stalls)
      /\ \A s \in Stored(stalls) : stalls[s].place \in {q, d.stalls[s].place}
  <2>1. ASSUME NEW s \in StallId
        PROVE  /\ stalls[s] \in StallRow \cup {NoRow} /\ (stalls[s] = NoRow <=> d.stalls[s] = NoRow)
               /\ stalls[s] # NoRow => stalls[s].place \in {q, d.stalls[s].place}
    <3>1. CASE d.stalls[s] = NoRow \/ d.stalls[s].place # p
      BY <1>2, <3>1
    <3>2. CASE ~(d.stalls[s] = NoRow \/ d.stalls[s].place # p)
      BY <1>2, <1>5, <3>2, RowsAreNotNull
    <3> QED BY <3>1, <3>2
  <2>2. DOMAIN stalls = StallId /\ stalls \in [StallId -> StallRow \cup {NoRow}]
    BY <2>1
  <2> HIDE DEF stalls
  <2> QED BY <1>2, <2>1, <2>2 DEF Stored
<1> HIDE DEF t, stalls
<1>8. /\ f.nets = d.nets /\ f.aliases = d.aliases /\ f.places = d.places /\ f.gps = gps
      /\ f.stalls = stalls /\ f.periods = d.periods /\ f.sessions = t /\ Typed(f)
  BY <1>2, <1>3, <1>6, <1>7 DEF Typed, Database
<1> HIDE DEF f
<1>9. SessionsRefer(f) /\ KeysAreUnique(f)
  BY <1>2, <1>6, <1>7, <1>8 DEF Consistent, SessionsRefer, KeysAreUnique, Refers
<1>10. PlacesRefer(f) /\ NamesRefer(f) /\ PeriodsRefer(f) /\ PeriodsAreUnique(f)
  BY <1>2, <1>8 DEF Consistent, PlacesRefer, NamesRefer, PeriodsRefer, PeriodsAreUnique
<1>11. SpotsRefer(f) /\ StallsRefer(f)
  BY <1>2, <1>3, <1>7, <1>8 DEF Consistent, SpotsRefer, StallsRefer
<1>12. Sane(f) /\ p \in Stored(f.places)
  BY <1>8, <1>9, <1>10, <1>11 DEF Sane, Consistent
<1>13. Sane(e) /\ OnlyThere(f, e)
  BY <1>12, WithoutPlaceSane
<1> HIDE DEF e
<1>14. OnlyThere(d, e)
  BY <1>6, <1>8, <1>13 DEF OnlyThere
<1> QED BY <1>1, <1>13, <1>14

LEMMA PrefillSane ==
    ASSUME NEW d, Sane(d), NEW p \in Stored(d.places)
    PROVE  LET e == AfterPrefill(d, p) IN Sane(e) /\ OnlyThere(d, e)
<1> DEFINE n == d.places[p].network
           labels == IF n = Null THEN <<>> ELSE Template[d.nets[n].name]
           nth(s) == s - NextId(d.stalls) + 1
           row(s) == [place |-> p, label |-> labels[nth(s)], default |-> FALSE]
           t == [s \in StallId |-> IF nth(s) \in DOMAIN labels THEN row(s) ELSE d.stalls[s]]
           e == [d EXCEPT !.stalls = t]
<1>1. AfterPrefill(d, p) = e
  BY DEF AfterPrefill
<1>2. /\ Typed(d) /\ Consistent(d) /\ d.stalls \in [StallId -> StallRow \cup {NoRow}] /\ p \in PlaceId
      /\ Refers(n, d.nets)
  BY Tables DEF Sane, Consistent, PlacesRefer
<1>3. labels \in Seq(Int)
  <2>1. CASE n = Null
    BY <2>1
  <2>2. CASE n # Null
    <3>1. d.nets[n] \in NetworkRow
      BY <1>2, <2>2, Tables DEF Refers
    <3>2. d.nets[n].name \in Name
      BY <3>1 DEF NetworkRow
    <3> QED BY <2>2, <3>2, PlacesAssumption
  <2> QED BY <2>1, <2>2
<1> HIDE DEF labels, nth
<1>4. ASSUME NEW s \in StallId, nth(s) \in DOMAIN labels
      PROVE  row(s) \in StallRow /\ row(s).place = p
  <2>1. labels[nth(s)] \in Int
    BY <1>3, <1>4
  <2> QED BY <1>2, <2>1 DEF StallRow
<1> HIDE DEF row
<1>5. /\ t \in [StallId -> StallRow \cup {NoRow}] /\ Stored(d.stalls) \subseteq Stored(t)
      /\ \A s \in Stored(t) : t[s].place = p \/ (s \in Stored(d.stalls) /\ t[s].place = d.stalls[s].place)
  <2>1. ASSUME NEW s \in StallId
        PROVE  /\ t[s] \in StallRow \cup {NoRow} /\ (d.stalls[s] # NoRow => t[s] # NoRow)
               /\ t[s] # NoRow => t[s].place = p \/ (d.stalls[s] # NoRow /\ t[s].place = d.stalls[s].place)
    BY <1>2, <1>4, RowsAreNotNull
  <2>2. DOMAIN t = StallId /\ t \in [StallId -> StallRow \cup {NoRow}]
    BY <2>1
  <2> HIDE DEF t
  <2> QED BY <1>2, <2>1, <2>2 DEF Stored
<1> HIDE DEF t
<1>6. /\ Typed(e) /\ e.nets = d.nets /\ e.aliases = d.aliases /\ e.places = d.places
      /\ e.gps = d.gps /\ e.stalls = t /\ e.periods = d.periods /\ e.sessions = d.sessions
  BY <1>2, <1>5, WithStalls
<1> HIDE DEF e
<1>7. Consistent(e)
  BY <1>2, <1>5, <1>6 DEF Consistent, SessionsRefer, KeysAreUnique, PeriodsAreUnique, PlacesRefer, NamesRefer,
     PeriodsRefer, SpotsRefer, StallsRefer, Refers
<1> QED BY <1>1, <1>6, <1>7 DEF Sane, OnlyThere

-----------------------------------------------------------------------------
(***************************************************************************)
(* The periods.                                                            *)
(***************************************************************************)
\* As many periods cannot have taken one number more.
LEMMA FreshIdIsNumber ==
    ASSUME NEW d, Sane(d)
    PROVE  FreshId(d) \in Nat /\ \A p \in d.periods : p.id # FreshId(d)
<1> DEFINE c == Cardinality(d.periods)
           ids == {p.id : p \in d.periods}
           left_over == (1 .. c + 1) \ ids
<1>1. IsFiniteSet(d.periods) /\ c \in Nat
  BY Tables, FS_CardinalityType DEF Sane
<1>2. [p \in d.periods |-> p.id] \in Surjection(d.periods, ids)
  BY DEF Surjection
<1>3. IsFiniteSet(ids) /\ Cardinality(ids) <= c
  <2> HIDE DEF ids
  <2> QED BY <1>1, <1>2, FS_Surjection
<1> HIDE DEF c, ids
<1>4. left_over # {}
  <2> SUFFICES ASSUME 1 .. c + 1 \subseteq ids PROVE FALSE
    OBVIOUS
  <2>1. Cardinality(1 .. c + 1) = c + 1
    BY <1>1, FS_Interval
  <2>2. Cardinality(1 .. c + 1) <= Cardinality(ids) /\ Cardinality(ids) \in Nat
    BY <1>3, FS_Subset, FS_CardinalityType
  <2> QED BY <1>1, <1>3, <2>1, <2>2
<1>5. left_over \subseteq Nat /\ IsFiniteSet(left_over)
  <2>1. IsFiniteSet(1 .. c + 1)
    BY <1>1, FS_Interval
  <2> QED BY <1>1, <2>1, FS_Subset
<1>6. FreshId(d) = Least(left_over) /\ \A p \in d.periods : p.id \notin left_over
  BY DEF FreshId, c, ids
<1> HIDE DEF left_over
<1>7. left_over \subseteq Int
  BY <1>5
<1> QED BY <1>4, <1>5, <1>6, <1>7, LeastIsOne

LEMMA AtMostOne ==
    ASSUME NEW S, IsFiniteSet(S)
    PROVE  Cardinality(S) <= 1 <=> \A x, y \in S : x = y
<1>1. ASSUME Cardinality(S) <= 1, NEW x \in S, NEW y \in S, x # y
      PROVE  FALSE
  <2>1. IsFiniteSet({x}) /\ Cardinality({x}) = 1
    BY FS_Singleton
  <2>2. Cardinality({x} \cup {y}) = 2
    BY <1>1, <2>1, FS_AddElement
  <2>3. Cardinality({x} \cup {y}) <= Cardinality(S) /\ Cardinality(S) \in Nat
    BY FS_Subset, FS_CardinalityType
  <2> QED BY <1>1, <2>2, <2>3
<1>2. ASSUME \A x, y \in S : x = y
      PROVE  Cardinality(S) <= 1
  <2>1. CASE S = {}
    BY <2>1, FS_EmptySet
  <2>2. CASE S # {}
    <3>1. PICK x \in S : TRUE
      BY <2>2
    <3>2. S = {x}
      BY <1>2, <3>1
    <3>3. Cardinality({x}) = 1
      BY FS_Singleton
    <3> QED BY <3>2, <3>3
  <2> QED BY <2>1, <2>2
<1> QED BY <1>1, <1>2

\* One rate: two periods that cover a day are the same.
LEMMA OneRateIsUnique ==
    ASSUME NEW d, Sane(d)
    PROVE  OneRate(d) <=> \A n \in Stored(d.nets) : \A day \in Day :
                              \A p, q \in Covering(d, n, day) : p = q
<1>1. ASSUME NEW n, NEW day
      PROVE  IsFiniteSet(Covering(d, n, day))
  BY Tables, FS_Subset DEF Sane, Covering
<1> QED BY <1>1, AtMostOne DEF OneRate

LEMMA PeriodsReplaced ==
    ASSUME NEW d, Sane(d), NEW periods, periods \subseteq PeriodRow, IsFiniteSet(periods),
           \A p \in periods : p.network \in Stored(d.nets),
           \A p, q \in periods : p.id = q.id => p = q
    PROVE  LET e == [d EXCEPT !.periods = periods]
           IN  Sane(e) /\ e.periods = periods /\ e.nets = d.nets /\ e.sessions = d.sessions
<1> DEFINE e == [d EXCEPT !.periods = periods]
<1>1. /\ Typed(e) /\ e.nets = d.nets /\ e.aliases = d.aliases /\ e.places = d.places
      /\ e.gps = d.gps /\ e.stalls = d.stalls /\ e.periods = periods /\ e.sessions = d.sessions
  BY WithPeriods DEF Sane
<1> HIDE DEF e
<1>2. Consistent(e)
  BY <1>1 DEF Sane, Consistent, SessionsRefer, KeysAreUnique, PeriodsAreUnique, PlacesRefer, NamesRefer, PeriodsRefer,
     SpotsRefer, StallsRefer
<1> QED BY <1>1, <1>2 DEF Sane, e

\* Fewer periods give a day no second rate.
LEMMA FewerKeepOneRate ==
    ASSUME NEW d, Sane(d), NEW e, Sane(e), FewerPeriods(d, e), OneRate(d)
    PROVE  OneRate(e)
BY OneRateIsUnique DEF FewerPeriods, Covering

\* Nor does one more of a span that overlaps none of its network's.
LEMMA OneMoreKeepsOneRate ==
    ASSUME NEW d, Sane(d), NEW e, Sane(e), e.nets = d.nets, OneRate(d),
           NEW keep, keep \subseteq d.periods, NEW span \in [from : Int, to : OrNull(Int)],
           NEW new \in PeriodRow, new.from = span.from, new.to = span.to,
           \A p \in keep : p.network = new.network => ~Overlaps(p, span),
           e.periods = keep \cup {new}
    PROVE  OneRate(e)
<1>1. ASSUME NEW p \in keep, p.network = new.network, NEW day \in Day, Covers(p, day), Covers(new, day)
      PROVE  FALSE
  <2>1. p \in PeriodRow /\ day \in Int /\ p.from \in Int /\ span.from \in Int
    BY Tables, PlacesAssumption DEF Sane, PeriodRow
  <2>2. p.to = Null \/ (p.to \in Int /\ day <= p.to)
    BY <1>1, <2>1 DEF Covers, Ends, PeriodRow, OrNull
  <2>3. span.to = Null \/ (span.to \in Int /\ day <= span.to)
    BY <1>1, <2>1 DEF Covers, Ends, PeriodRow, OrNull
  <2>4. p.from <= day /\ span.from <= day
    BY <1>1 DEF Covers, Starts
  <2>5. Overlaps(p, span)
    BY <2>1, <2>2, <2>3, <2>4 DEF Overlaps
  <2> QED BY <1>1, <2>5
<1>2. ASSUME NEW n \in Stored(e.nets), NEW day \in Day, NEW p \in Covering(e, n, day), NEW q \in Covering(e, n, day)
      PROVE  p = q
  <2>1. CASE p \in keep /\ q \in keep
    BY <2>1, OneRateIsUnique DEF Covering
  <2>2. CASE p = new \/ q = new
    BY <1>1, <1>2, <2>2 DEF Covering
  <2> QED BY <2>1, <2>2 DEF Covering
<1> QED BY <1>2, OneRateIsUnique

-----------------------------------------------------------------------------
(***************************************************************************)
(* The steps of Places.                                                    *)
(***************************************************************************)
\* What every step does, and every import.
SafeStep ==
    /\ Sane(db') /\ \A i \in Sessions : i \in Stored(db'.sessions) \/ DeletesSession(i)
    /\ \A i \in SessionId : Loses(i) =>
        \/ DeletesNetwork(db.sessions[i].network)
        \/ \E place \in Locations \cup {Null} : \E cost \in {Null, 7} : EditsInBulk(Sessions, Null, place, cost)
        \/ Clears(i)
    /\ db'.periods # db.periods /\ OneRate(db) /\ ~OneRate(db') => \E n, m \in Nets : MergesNetwork(n, m)

LEMMA KeepingIsSafe ==
    ASSUME Sane(db'), SessionsStay(db, db'), db'.periods = db.periods \/ (OneRate(db) => OneRate(db'))
    PROVE  SafeStep
BY DEF SafeStep, SessionsStay, Loses, Sessions

LEMMA AddingIsSafe ==
    ASSUME Sane(db'), Adds(db, db')
    PROVE  SafeStep
BY KeepingIsSafe DEF Adds, SessionsStay

LEMMA EditingNetworksIsSafe ==
    ASSUME Sane(db'), OnlyNets(db, db')
    PROVE  SafeStep
BY KeepingIsSafe DEF OnlyNets, SessionsStay

LEMMA EditingPlacesIsSafe ==
    ASSUME Sane(db'), OnlyThere(db, db')
    PROVE  SafeStep
BY KeepingIsSafe DEF OnlyThere, SessionsStay

LEMMA OnlyPlacesIsThere ==
    ASSUME NEW d, NEW e, OnlyPlaces(d, e)
    PROVE  OnlyThere(d, e)
BY DEF OnlyPlaces, OnlyThere

\* A charge is heard.
LEMMA ChargesStep ==
    ASSUME Sane(db), Charges
    PROVE  Sane(db') /\ Adds(db, db')
<1>1. PICK key \in DOMAIN Charge : HearsCharge(key)
  BY DEF Charges
<1>2. ~Recorded(db, key) /\ RoomIn(db) /\ db' = AfterCharge(db, key)
  BY <1>1 DEF HearsCharge, Roomy, Commits
<1> QED BY <1>2, ChargeAdds

\* The user enters and edits sessions.
LEMMA SessionsStep ==
    ASSUME Sane(db), EditsSessions
    PROVE  SafeStep
<1>1. PICK name \in OrNull(Name) : \E place \in Locations \cup {Null} :
        \/ EntersSession(name, place)
        \/ \E i \in Sessions : EditsSession(i, name, place)
        \/ \E cost \in {Null, 7} : EditsInBulk(Sessions, name, place, cost)
  BY DEF EditsSessions, OrNull
<1>2. PICK place \in Locations \cup {Null} :
        \/ EntersSession(name, place)
        \/ \E i \in Sessions : EditsSession(i, name, place)
        \/ \E cost \in {Null, 7} : EditsInBulk(Sessions, name, place, cost)
  BY <1>1
<1>3. place \in OrNull(PlaceId)
  BY Tables DEF Sane, Locations, OrNull
<1>4. CASE EntersSession(name, place)
  <2>1. PICK key \in Uuid : \E cost \in {Null, 0} :
            RoomIn(db) /\ ~Recorded(db, key) /\ db' = AfterEntry(db, key, name, place, 10, cost)
    BY <1>4 DEF EntersSession, Commits, Roomy
  <2>2. PICK cost \in {Null, 0} :
            RoomIn(db) /\ ~Recorded(db, key) /\ db' = AfterEntry(db, key, name, place, 10, cost)
    BY <2>1
  <2>3. key \in Key /\ cost \in OrNull(Amount) /\ 10 \in Amount
    BY PlacesAssumption, AmountsAreNumbers DEF OrNull
  <2>4. Sane(db') /\ Adds(db, db')
    BY <1>3, <2>2, <2>3, EntryAdds
  <2> QED BY <2>4, AddingIsSafe
<1>5. CASE \E i \in Sessions : EditsSession(i, name, place)
  <2>1. PICK i \in Sessions : RoomIn(db) /\ db' = AfterEdit(db, i, name, place)
    BY <1>5 DEF EditsSession, Commits, Roomy
  <2>2. Sane(db') /\ Adds(db, db')
    BY <1>3, <2>1, EditAdds DEF Sessions
  <2> QED BY <2>2, AddingIsSafe
<1>6. CASE \E cost \in {Null, 7} : EditsInBulk(Sessions, name, place, cost)
  <2>1. PICK cost \in {Null, 7} : EditsInBulk(Sessions, name, place, cost)
    BY <1>6
  <2>2. RoomIn(db) /\ db' = AfterBulk(db, Sessions, name, place, cost) /\ cost \in OrNull(Amount)
    BY <2>1, AmountsAreNumbers DEF EditsInBulk, Commits, Roomy, OrNull
  <2>3. /\ Sane(db') /\ db'.periods = db.periods /\ Stored(db'.sessions) = Stored(db.sessions)
        /\ name # Null => Adds(db, db')
    BY <1>3, <2>2, BulkSane DEF Sessions
  <2>4. CASE name # Null
    BY <2>3, <2>4, AddingIsSafe
  <2>5. CASE name = Null
    BY <2>1, <2>3, <2>5 DEF SafeStep, Sessions
  <2> QED BY <2>4, <2>5
<1> QED BY <1>2, <1>4, <1>5, <1>6

LEMMA DeletionStep ==
    ASSUME Sane(db), NEW i \in Sessions, DeletesSession(i)
    PROVE  SafeStep
<1>1. db' = [db EXCEPT !.sessions[i] = NoRow]
  BY DEF DeletesSession, Commits
<1>2. /\ Sane(db') /\ OnlySessions(db, db')
      /\ \A j \in Stored(db'.sessions) : db'.sessions[j] = db.sessions[j]
      /\ Stored(db'.sessions) = Stored(db.sessions) \ {i}
  BY <1>1, DeletionSane DEF Sessions
<1> QED BY <1>2 DEF SafeStep, OnlySessions, Sessions, Loses

\* A network is made, corrected or approved.
LEMMA NetworkEdits ==
    ASSUME Sane(db), NEW n \in Nets, NEW name \in Name, NEW rate \in OrNull(Amount),
           EditsNetwork(n, name, rate) \/ VerifiesNetwork(n) \/ UnverifiesNetwork(n)
    PROVE  SafeStep
<1> DEFINE old == db.nets[n]
           corrected == [old EXCEPT !.name = name, !.rate = rate]
           approved == [old EXCEPT !.verified = TRUE, !.src = "manual"]
           disapproved == [old EXCEPT !.verified = FALSE]
<1>1. /\ db \in Database /\ db.nets \in [NetId -> NetworkRow \cup {NoRow}]
      /\ n \in Stored(db.nets) /\ n \in NetId /\ old \in NetworkRow
  BY Tables DEF Sane, Typed, Nets
<1>2. corrected \in NetworkRow /\ approved \in NetworkRow /\ disapproved \in NetworkRow
  BY <1>1 DEF NetworkRow, OrNull, Source
<1>3. \E row \in NetworkRow : db' = [db EXCEPT !.nets[n] = row]
  <2>1. CASE EditsNetwork(n, name, rate)
    <3>1. db' = [db EXCEPT !.nets[n] = corrected]
      BY <1>1, <2>1 DEF EditsNetwork, Commits, Database
    <3> QED BY <1>2, <3>1
  <2>2. CASE VerifiesNetwork(n)
    <3>1. db' = [db EXCEPT !.nets[n] = approved]
      BY <1>1, <2>2 DEF VerifiesNetwork, Commits, Database
    <3> QED BY <1>2, <3>1
  <2>3. CASE UnverifiesNetwork(n)
    <3>1. db' = [db EXCEPT !.nets[n] = disapproved]
      BY <1>1, <2>3 DEF UnverifiesNetwork, Commits, Database
    <3> QED BY <1>2, <3>1
  <2> QED BY <2>1, <2>2, <2>3
<1>4. PICK row \in NetworkRow : db' = [db EXCEPT !.nets[n] = row]
  BY <1>3
<1>5. Sane(db') /\ OnlyNets(db, db')
  BY <1>1, <1>4, NetworkReplaced
<1> QED BY <1>5, EditingNetworksIsSafe

LEMMA NetworkCreation ==
    ASSUME Sane(db), NEW name \in Name, NEW rate \in OrNull(Amount), CreatesNetwork(name, rate)
    PROVE  SafeStep
<1> DEFINE row == Network(name, TRUE, Null, Either(rate, Predefined[name].rate), FALSE)
<1>1. row \in NetworkRow
  <2>1. Predefined[name].rate \in OrNull(Amount)
    BY PlacesAssumption
  <2>2. Either(rate, Predefined[name].rate) \in OrNull(Amount)
    BY <2>1 DEF Either
  <2> QED BY <2>2 DEF Network, NetworkRow, OrNull
<1>2. Room(db.nets) /\ db' = [db EXCEPT !.nets = Put(@, row)]
  BY DEF CreatesNetwork, Commits, Roomy, RoomIn
<1> HIDE DEF row
<1>3. Sane(db') /\ OnlyNets(db, db')
  BY <1>1, <1>2, PutNetwork
<1> QED BY <1>3, EditingNetworksIsSafe

\* A network goes, or becomes another, or a location.
LEMMA NetworkDeletion ==
    ASSUME Sane(db), NEW n \in Nets, DeletesNetwork(n)
    PROVE  SafeStep
<1>1. db' = WithoutNetwork(db, n) /\ n \in Stored(db.nets)
  BY DEF DeletesNetwork, Commits, Nets
<1>2. /\ Sane(db') /\ FewerPeriods(db, db') /\ Stored(db'.sessions) = Stored(db.sessions)
      /\ \A i \in Stored(db.sessions) : db'.sessions[i].network =
            IF db.sessions[i].network = n THEN Null ELSE db.sessions[i].network
  BY <1>1, WithoutNetworkSane
<1>3. OneRate(db) => OneRate(db')
  BY <1>2, FewerKeepOneRate
<1>4. ASSUME NEW i \in SessionId, Loses(i)
      PROVE  DeletesNetwork(db.sessions[i].network)
  <2>1. db.sessions[i].network = n
    BY <1>2, <1>4 DEF Loses
  <2> QED BY <2>1
<1> QED BY <1>2, <1>3, <1>4 DEF SafeStep, Sessions

LEMMA NetworkMerge ==
    ASSUME Sane(db), NEW n \in Nets, NEW m \in Nets, MergesNetwork(n, m)
    PROVE  SafeStep
<1>1. n # m /\ db' = AfterMerge(db, n, m)
  BY DEF MergesNetwork, Commits
<1>2. Sane(db') /\ SessionsStay(db, db')
  BY <1>1, MergeSane DEF Nets
<1> QED BY <1>2 DEF SafeStep, SessionsStay, Loses, Sessions

LEMMA ConversionStarts ==
    ASSUME Sane(db), NEW n \in Nets, NEW m \in Nets, NEW name \in Name, StartsConversion(n, m, name)
    PROVE  SafeStep /\ converting' \in Conversion /\ converting'.from # converting'.to
<1> DEFINE row == Place(name, Null, Null, m, db.nets[n].rate, TRUE, Null)
           p == NextId(db.places)
<1>1. row \in PlaceRow /\ Refers(row.network, db.nets) /\ n \in NetId /\ m \in NetId
  <2>1. db.nets[n] \in NetworkRow /\ n \in NetId /\ m \in NetId
    BY Tables DEF Sane, Nets
  <2>2. db.nets[n].rate \in OrNull(Amount)
    BY <2>1 DEF NetworkRow
  <2> QED BY <2>1, <2>2 DEF Place, PlaceRow, OrNull, Refers, Nets
<1>2. /\ Room(db.places) /\ n # m /\ db' = [db EXCEPT !.places = Put(@, row)]
      /\ converting' = [from |-> n, to |-> m, place |-> p, name |-> name]
  BY DEF StartsConversion, Roomy, RoomIn
<1> HIDE DEF row
<1>3. Sane(db') /\ OnlyPlaces(db, db') /\ p \in PlaceId
  BY <1>1, <1>2, PutPlace
<1> HIDE DEF p
<1>4. SafeStep
  BY <1>3, OnlyPlacesIsThere, EditingPlacesIsSafe
<1> QED BY <1>1, <1>2, <1>3, <1>4 DEF Conversion

LEMMA ConversionEnds ==
    ASSUME Sane(db), converting \in OrNull(Conversion), converting # Null => converting.from # converting.to,
           FinishesConversion
    PROVE  SafeStep
<1> DEFINE n == converting.from
           m == converting.to
           place == converting.place
           name == converting.name
<1>1. /\ converting \in Conversion /\ n # m /\ n \in NetId /\ m \in NetId /\ place \in PlaceId /\ name \in Name
  BY DEF FinishesConversion, OrNull, Conversion
<1>2. CASE db' = db
  BY <1>2, AddsNothing, AddingIsSafe
<1>3. CASE db' # db
  <2>1. /\ m \in Stored(db.nets) \/ \A i \in Stored(db.sessions) : db.sessions[i].network # n
        /\ db' = AfterConversion(db, n, m, place, name)
    BY <1>3 DEF FinishesConversion, Nets, Sessions
  <2> HIDE DEF n, m, place, name
  <2>2. n \in Stored(db.nets)
    BY <1>3 DEF FinishesConversion, Nets, n
  <2>3. Sane(db') /\ SessionsStay(db, db') /\ FewerPeriods(db, db')
    BY <1>1, <2>1, <2>2, ConversionSane
  <2> QED BY <2>3, FewerKeepOneRate, KeepingIsSafe
<1> QED BY <1>2, <1>3

LEMMA RecalculationStep ==
    ASSUME Sane(db), NEW n \in Nets, Recalculates(n)
    PROVE  SafeStep
<1>1. db' = Recalculated(db, n)
  BY DEF Recalculates, Commits
<1> QED BY <1>1, RecalculatedAdds, AddingIsSafe DEF Nets

\* The periods of a membership.
LEMMA PeriodsStep ==
    ASSUME Sane(db), NEW span \in Span,
           \/ \E n \in Nets : AddsPeriod(n, span, Least(Rate))
           \/ \E p \in db.periods : EditsPeriod(p, span)
    PROVE  SafeStep
<1>1. /\ span \in [from : Int, to : OrNull(Int)] /\ Least(Rate) \in Amount /\ Fee \in Amount
      /\ db.periods \subseteq PeriodRow /\ IsFiniteSet(db.periods)
      /\ PeriodsRefer(db) /\ PeriodsAreUnique(db)
  <2>1. Least(Rate) \in Amount
    BY PlacesAssumption, LeastIsOne
  <2> QED BY <2>1, PlacesAssumption, Tables DEF Sane, Consistent
<1>2. CASE \E n \in Nets : AddsPeriod(n, span, Least(Rate))
  <2>1. PICK n \in Nets : AddsPeriod(n, span, Least(Rate))
    BY <1>2
  <2> DEFINE new == Period(FreshId(db), n, span, Least(Rate), Fee)
             periods == db.periods \cup {new}
  <2>2. Free(db, n, span, {}) /\ db' = [db EXCEPT !.periods = periods]
    BY <2>1 DEF AddsPeriod, Commits
  <2>3. /\ new \in PeriodRow /\ new.network = n /\ new.from = span.from /\ new.to = span.to
        /\ n \in Stored(db.nets) /\ \A p \in db.periods : p.id # new.id
    <3>1. /\ FreshId(db) \in Nat /\ n \in NetId /\ n \in Stored(db.nets)
          /\ \A p \in db.periods : p.id # FreshId(db)
      BY FreshIdIsNumber, Tables DEF Sane, Nets
    <3> QED BY <1>1, <3>1 DEF Period, PeriodRow
  <2> HIDE DEF new
  <2>4. /\ periods \subseteq PeriodRow /\ IsFiniteSet(periods)
        /\ \A p \in periods : p.network \in Stored(db.nets)
        /\ \A p, q \in periods : p.id = q.id => p = q
    BY <1>1, <2>3, FS_AddElement DEF PeriodsRefer, PeriodsAreUnique
  <2>5. Sane(db') /\ db'.periods = periods /\ db'.nets = db.nets /\ db'.sessions = db.sessions
    BY <2>2, <2>4, PeriodsReplaced
  <2>6. \A p \in db.periods : p.network = new.network => ~Overlaps(p, span)
    BY <2>2, <2>3 DEF Free
  <2>7. OneRate(db) => OneRate(db')
    BY <1>1, <2>3, <2>5, <2>6, OneMoreKeepsOneRate
  <2> QED BY <2>5, <2>7, KeepingIsSafe DEF SessionsStay
<1>3. CASE \E p \in db.periods : EditsPeriod(p, span)
  <2>1. PICK p \in db.periods : EditsPeriod(p, span)
    BY <1>3
  <2> DEFINE new == Period(p.id, p.network, span, p.rate, p.fee)
             keep == db.periods \ {p}
             periods == keep \cup {new}
  <2>2. Free(db, p.network, span, {p}) /\ db' = [db EXCEPT !.periods = periods]
    BY <2>1 DEF EditsPeriod, Commits
  <2>3. /\ new \in PeriodRow /\ new.network = p.network /\ new.from = span.from /\ new.to = span.to
        /\ p.network \in Stored(db.nets) /\ new.id = p.id
    <3>1. p \in PeriodRow /\ p.network \in Stored(db.nets)
      BY <1>1 DEF PeriodsRefer
    <3> QED BY <1>1, <3>1 DEF Period, PeriodRow
  <2> HIDE DEF new
  <2>4. /\ periods \subseteq PeriodRow /\ IsFiniteSet(periods)
        /\ \A q \in periods : q.network \in Stored(db.nets)
        /\ \A q, r \in periods : q.id = r.id => q = r
    <3>1. IsFiniteSet(keep) /\ keep \subseteq db.periods
      BY <1>1, FS_Subset
    <3> QED BY <1>1, <2>3, <3>1, FS_AddElement DEF PeriodsRefer, PeriodsAreUnique
  <2>5. Sane(db') /\ db'.periods = periods /\ db'.nets = db.nets /\ db'.sessions = db.sessions
    BY <2>2, <2>4, PeriodsReplaced
  <2>6. \A q \in keep : q.network = new.network => ~Overlaps(q, span)
    BY <2>2, <2>3 DEF Free
  <2>7. keep \subseteq db.periods
    OBVIOUS
  <2> HIDE DEF keep
  <2>8. OneRate(db) => OneRate(db')
    BY <1>1, <2>3, <2>5, <2>6, <2>7, OneMoreKeepsOneRate
  <2> QED BY <2>5, <2>8, KeepingIsSafe DEF SessionsStay
<1> QED BY <1>2, <1>3

LEMMA PeriodGoes ==
    ASSUME Sane(db), NEW p \in db.periods, DeletesPeriod(p)
    PROVE  SafeStep
<1> DEFINE periods == db.periods \ {p}
<1>1. /\ db' = [db EXCEPT !.periods = periods] /\ db.periods \subseteq PeriodRow
      /\ IsFiniteSet(db.periods) /\ PeriodsRefer(db) /\ PeriodsAreUnique(db)
  BY Tables DEF DeletesPeriod, Commits, Sane, Consistent
<1>2. /\ periods \subseteq PeriodRow /\ IsFiniteSet(periods)
      /\ \A q \in periods : q.network \in Stored(db.nets)
      /\ \A q, r \in periods : q.id = r.id => q = r
  BY <1>1, FS_Subset DEF PeriodsRefer, PeriodsAreUnique
<1>3. Sane(db') /\ db'.periods = periods /\ db'.nets = db.nets /\ db'.sessions = db.sessions
  BY <1>1, <1>2, PeriodsReplaced
<1>4. FewerPeriods(db, db')
  BY <1>3 DEF FewerPeriods
<1>5. OneRate(db) => OneRate(db')
  BY <1>3, <1>4, FewerKeepOneRate
<1> QED BY <1>3, <1>5, KeepingIsSafe DEF SessionsStay

LEMMA NetworksStep ==
    ASSUME Sane(db), converting \in OrNull(Conversion), converting # Null => converting.from # converting.to,
           EditsNetworks
    PROVE  SafeStep
<1>1. Rate \subseteq Amount
  BY PlacesAssumption
<1>2. CASE \E name \in Name : \E rate \in Rate \cup {Null} :
              CreatesNetwork(name, rate) \/ \E n \in Nets : EditsNetwork(n, name, rate)
  <2>1. PICK name \in Name : \E rate \in Rate \cup {Null} :
            CreatesNetwork(name, rate) \/ \E n \in Nets : EditsNetwork(n, name, rate)
    BY <1>2
  <2>2. PICK rate \in OrNull(Amount) : CreatesNetwork(name, rate) \/ \E n \in Nets : EditsNetwork(n, name, rate)
    BY <1>1, <2>1 DEF OrNull
  <2> QED BY <2>2, NetworkCreation, NetworkEdits
<1>3. CASE \E n \in Nets : Recalculates(n) \/ VerifiesNetwork(n) \/ UnverifiesNetwork(n) \/ DeletesNetwork(n)
  <2>1. HomeName \in Name /\ Null \in OrNull(Amount)
    BY PlacesAssumption DEF OrNull
  <2> QED BY <1>3, <2>1, RecalculationStep, NetworkEdits, NetworkDeletion
<1>4. CASE \E n, m \in Nets : MergesNetwork(n, m) \/ \E name \in Name : StartsConversion(n, m, name)
  BY <1>4, NetworkMerge, ConversionStarts
<1>5. CASE FinishesConversion
  BY <1>5, ConversionEnds
<1>6. CASE \E span \in Span : \/ \E n \in Nets : AddsPeriod(n, span, Least(Rate))
                              \/ \E p \in db.periods : EditsPeriod(p, span)
  BY <1>6, PeriodsStep
<1>7. CASE \E p \in db.periods : DeletesPeriod(p)
  BY <1>7, PeriodGoes
<1> QED BY <1>2, <1>3, <1>4, <1>5, <1>6, <1>7 DEF EditsNetworks

\* A location is made, corrected or approved.
LEMMA PlaceCreation ==
    ASSUME Sane(db), NEW name \in Name, NEW n \in Nets, NEW at \in OrNull(Spot), CreatesPlace(name, n, at)
    PROVE  SafeStep
<1> DEFINE row == Place(name, at, Null, n, Null, TRUE, Null)
<1>1. row \in PlaceRow /\ Refers(row.network, db.nets)
  BY Tables DEF Sane, Nets, Place, PlaceRow, OrNull, Refers
<1>2. Room(db.places) /\ db' = [db EXCEPT !.places = Put(@, row)]
  BY DEF CreatesPlace, Commits, Roomy, RoomIn
<1> HIDE DEF row
<1>3. Sane(db') /\ OnlyPlaces(db, db')
  BY <1>1, <1>2, PutPlace
<1> QED BY <1>3, OnlyPlacesIsThere, EditingPlacesIsSafe

LEMMA PlaceEdits ==
    ASSUME Sane(db), NEW p \in Locations, NEW name \in Name, NEW n \in {Null, db.places[p].network},
           \/ EditsPlace(p, name, n, Least(Spot), Least(Rate))
           \/ VerifiesPlace(p) \/ UnverifiesPlace(p)
    PROVE  SafeStep
<1> DEFINE old == db.places[p]
           corrected == [old EXCEPT !.name = name, !.network = n, !.at = Least(Spot), !.rate = Least(Rate)]
           approved == [old EXCEPT !.verified = TRUE, !.src = "manual"]
           disapproved == [old EXCEPT !.verified = FALSE]
<1>1. /\ db \in Database /\ db.places \in [PlaceId -> PlaceRow \cup {NoRow}]
      /\ p \in Stored(db.places) /\ p \in PlaceId /\ old \in PlaceRow /\ Refers(old.network, db.nets)
  BY Tables DEF Sane, Typed, Locations, Consistent, PlacesRefer
<1>2. Least(Spot) \in Spot /\ Least(Rate) \in Amount
  BY PlacesAssumption, LeastIsOne
<1>3. n \in OrNull(NetId) /\ Refers(n, db.nets)
  BY <1>1 DEF PlaceRow, OrNull, Refers
<1>4. /\ corrected \in PlaceRow /\ approved \in PlaceRow /\ disapproved \in PlaceRow
      /\ corrected.network = n /\ approved.network = old.network /\ disapproved.network = old.network
  BY <1>1, <1>2, <1>3 DEF PlaceRow, OrNull, Source
<1>5. \E row \in {corrected, approved, disapproved} : db' = [db EXCEPT !.places[p] = row]
  <2>1. CASE EditsPlace(p, name, n, Least(Spot), Least(Rate))
    BY <1>1, <2>1 DEF EditsPlace, Commits, Database
  <2>2. CASE VerifiesPlace(p)
    <3>1. db' = [db EXCEPT !.places[p] = approved]
      BY <1>1, <2>2 DEF VerifiesPlace, Commits, Database
    <3> QED BY <3>1
  <2>3. CASE UnverifiesPlace(p)
    <3>1. db' = [db EXCEPT !.places[p] = disapproved]
      BY <1>1, <2>3 DEF UnverifiesPlace, Commits, Database
    <3> QED BY <3>1
  <2> QED BY <2>1, <2>2, <2>3
<1> HIDE DEF corrected, approved, disapproved
<1>6. PICK row \in {corrected, approved, disapproved} : db' = [db EXCEPT !.places[p] = row]
  BY <1>5
<1>7. row \in PlaceRow /\ Refers(row.network, db.nets)
  BY <1>1, <1>3, <1>4, <1>6
<1>8. Sane(db') /\ OnlyPlaces(db, db')
  BY <1>1, <1>6, <1>7, PlaceReplaced
<1> QED BY <1>8, OnlyPlacesIsThere, EditingPlacesIsSafe

\* A location gets a network, perhaps a new one.
LEMMA PlaceAssociates ==
    ASSUME Sane(db), NEW p \in Locations, NEW name \in Name, Associates(p, name)
    PROVE  SafeStep
<1> DEFINE own == Network(name, FALSE, "manual", Null, FALSE)
           n == IF Named(db, name) # {} THEN [db |-> db, id |-> Least(Named(db, name))]
                ELSE [db |-> [db EXCEPT !.nets = Put(@, own)], id |-> NextId(db.nets)]
           row == [n.db.places[p] EXCEPT !.network = n.id]
<1>1. Room(db.nets) /\ db' = [n.db EXCEPT !.places[p].network = n.id]
  BY DEF Associates, Commits, Roomy, RoomIn
<1>2. own \in NetworkRow
  BY DEF Network, NetworkRow, OrNull, Source
<1>3. Sane(n.db) /\ OnlyNets(db, n.db) /\ n.id \in Stored(n.db.nets)
  <2>1. CASE Named(db, name) # {}
    <3>1. n = [db |-> db, id |-> Least(Named(db, name))]
      BY <2>1
    <3>2. Named(db, name) \subseteq NetId /\ Named(db, name) \subseteq Stored(db.nets)
      BY Tables DEF Sane, Named
    <3>3. Least(Named(db, name)) \in Stored(db.nets)
      BY <2>1, <3>2, PrimaryKeys, LeastStored
    <3> HIDE DEF n
    <3> QED BY <3>1, <3>3 DEF OnlyNets
  <2>2. CASE Named(db, name) = {}
    <3> DEFINE e == [db EXCEPT !.nets = Put(@, own)]
               k == NextId(db.nets)
    <3>1. n = [db |-> e, id |-> k]
      BY <2>2
    <3> HIDE DEF own
    <3>2. Sane(e) /\ OnlyNets(db, e) /\ Stored(e.nets) = Stored(db.nets) \cup {k}
      BY <1>1, <1>2, PutNetwork
    <3> HIDE DEF n, e, k
    <3> QED BY <3>1, <3>2
  <2> QED BY <2>1, <2>2
<1> HIDE DEF n
<1>4. /\ p \in Stored(n.db.places) /\ n.db \in Database /\ p \in PlaceId
      /\ n.db.places[p] \in PlaceRow /\ n.id \in NetId
  BY <1>3, Tables DEF Sane, Typed, OnlyNets, Locations
<1>5. row \in PlaceRow /\ Refers(row.network, n.db.nets)
  BY <1>3, <1>4 DEF PlaceRow, OrNull, Refers
<1>6. db' = [n.db EXCEPT !.places[p] = row]
  BY <1>1, <1>4 DEF Database
<1> HIDE DEF row
<1>7. Sane(db') /\ OnlyPlaces(n.db, db')
  BY <1>3, <1>4, <1>5, <1>6, PlaceReplaced
<1>8. SessionsStay(db, db') /\ db'.periods = db.periods
  BY <1>3, <1>7 DEF OnlyNets, OnlyPlaces, SessionsStay
<1> QED BY <1>7, <1>8, KeepingIsSafe

LEMMA PlacePromotes ==
    ASSUME Sane(db), NEW p \in Locations, Promotes(p)
    PROVE  SafeStep
<1> DEFINE own == Network(db.places[p].name, TRUE, "manual", Null, FALSE)
           n == NextId(db.nets)
           e == [db EXCEPT !.nets = Put(@, own)]
           row == [db.places[p] EXCEPT !.network = n, !.verified = TRUE, !.src = "manual"]
<1>1. /\ Room(db.nets) /\ db \in Database
      /\ p \in Stored(db.places) /\ p \in PlaceId /\ db.places[p] \in PlaceRow
  BY Tables DEF Promotes, Roomy, RoomIn, Sane, Typed, Locations
<1>2. own \in NetworkRow
  BY <1>1 DEF Network, NetworkRow, OrNull, Source, PlaceRow
<1>3. db' = [e EXCEPT !.places[p] = row]
  <2>1. db' = [db EXCEPT !.nets = Put(db.nets, own), !.places[p] = row]
    BY DEF Promotes, Commits
  <2> HIDE DEF own, row
  <2> QED BY <1>1, <2>1 DEF Database
<1> HIDE DEF own
<1>4. Sane(e) /\ OnlyNets(db, e) /\ n \in NetId /\ Stored(e.nets) = Stored(db.nets) \cup {n}
  BY <1>1, <1>2, PutNetwork
<1> HIDE DEF e, n
<1>5. row \in PlaceRow /\ row.network = n /\ p \in Stored(e.places)
  BY <1>1, <1>4 DEF PlaceRow, OrNull, Source, OnlyNets
<1>6. Refers(row.network, e.nets)
  BY <1>4, <1>5 DEF Refers
<1> HIDE DEF row
<1>7. Sane(db') /\ OnlyPlaces(e, db')
  BY <1>3, <1>4, <1>5, <1>6, PlaceReplaced
<1>8. SessionsStay(db, db') /\ db'.periods = db.periods
  BY <1>4, <1>7 DEF OnlyNets, OnlyPlaces, SessionsStay
<1> QED BY <1>7, <1>8, KeepingIsSafe

\* What takes a location or a stall away, or adds stalls.
LEMMA PlacesGo ==
    ASSUME Sane(db), NEW p \in Locations,
           DeletesPlace(p) \/ Prefills(p) \/ \E q \in Locations : MergesPlace(p, q)
    PROVE  SafeStep
<1>1. CASE DeletesPlace(p)
  BY <1>1, WithoutPlaceSane, EditingPlacesIsSafe DEF DeletesPlace, Commits, Locations
<1>2. CASE Prefills(p)
  BY <1>2, PrefillSane, EditingPlacesIsSafe DEF Prefills, Commits, Locations
<1>3. CASE \E q \in Locations : MergesPlace(p, q)
  <2>1. PICK q \in Locations : p # q /\ Room(db.gps) /\ db' = AfterPlaceMerge(db, p, q)
    BY <1>3 DEF MergesPlace, Commits
  <2>2. Sane(db') /\ OnlyThere(db, db')
    BY <2>1, PlaceMergeSane DEF Locations
  <2> QED BY <2>2, EditingPlacesIsSafe
<1> QED BY <1>1, <1>2, <1>3

LEMMA StallsStep ==
    ASSUME Sane(db),
           \/ EditsStalls
           \/ \E p \in Locations : \E label \in {1, 2} : \E default \in BOOLEAN : AddsStall(p, label, default)
    PROVE  SafeStep
<1>1. CASE EditsStalls
  <2>1. PICK s \in Stored(db.stalls) : DeletesStall(s) \/ \E default \in BOOLEAN : EditsStall(s, default)
    BY <1>1 DEF EditsStalls
  <2>2. CASE DeletesStall(s)
    <3>1. db' = WithoutStalls(db, {s})
      BY <2>2 DEF DeletesStall, Commits
    <3> QED BY <3>1, StallGoes, EditingPlacesIsSafe
  <2>3. CASE \E default \in BOOLEAN : EditsStall(s, default)
    <3>1. PICK default \in BOOLEAN : db' = [db EXCEPT !.stalls[s].default = default]
      BY <2>3 DEF EditsStall, Commits
    <3>2. Sane(db') /\ OnlyThere(db, db')
      BY <3>1, StallReplaced
    <3> QED BY <3>2, EditingPlacesIsSafe
  <2> QED BY <2>1, <2>2, <2>3
<1>2. CASE \E p \in Locations : \E label \in {1, 2} : \E default \in BOOLEAN : AddsStall(p, label, default)
  <2>1. PICK p \in Locations : \E label \in {1, 2} : \E default \in BOOLEAN : AddsStall(p, label, default)
    BY <1>2
  <2>2. PICK label \in {1, 2} : \E default \in BOOLEAN : AddsStall(p, label, default)
    BY <2>1
  <2>3. PICK default \in BOOLEAN : AddsStall(p, label, default)
    BY <2>2
  <2> DEFINE row == [place |-> p, label |-> label, default |-> default]
             e == [db EXCEPT !.stalls = Put(@, row)]
  <2>4. Room(db.stalls) /\ db' = e
    BY <2>3 DEF AddsStall, Commits, Roomy, RoomIn
  <2>5. row \in StallRow /\ row.place \in Stored(db.places)
    BY Tables DEF Sane, Locations, StallRow
  <2>6. e.nets = db.nets /\ e.periods = db.periods /\ e.sessions = db.sessions
    BY DEF Sane, Typed, Database
  <2> HIDE DEF row
  <2>7. Sane(e)
    BY <2>4, <2>5, PutStall
  <2> HIDE DEF e
  <2> QED BY <2>4, <2>6, <2>7, EditingPlacesIsSafe DEF OnlyThere
<1> QED BY <1>1, <1>2

LEMMA PlacesStep ==
    ASSUME Sane(db), EditsPlaces
    PROVE  SafeStep
<1>1. PICK p \in Locations :
        \/ VerifiesPlace(p) \/ UnverifiesPlace(p) \/ Promotes(p) \/ DeletesPlace(p) \/ Prefills(p)
        \/ \E q \in Locations : MergesPlace(p, q)
        \/ \E name \in Name : \/ Associates(p, name)
            \/ \E network \in {Null, db.places[p].network} : EditsPlace(p, name, network, Least(Spot), Least(Rate))
        \/ \E label \in {1, 2} : \E default \in BOOLEAN : AddsStall(p, label, default)
  BY DEF EditsPlaces
<1>2. CASE VerifiesPlace(p) \/ UnverifiesPlace(p)
  <2>1. HomeName \in Name /\ Null \in {Null, db.places[p].network}
    BY PlacesAssumption
  <2> QED BY <1>2, <2>1, PlaceEdits
<1>3. CASE Promotes(p)
  BY <1>3, PlacePromotes
<1>4. CASE DeletesPlace(p) \/ Prefills(p) \/ \E q \in Locations : MergesPlace(p, q)
  BY <1>4, PlacesGo
<1>5. CASE \E name \in Name : Associates(p, name)
  BY <1>5, PlaceAssociates
<1>6. CASE \E name \in Name : \E network \in {Null, db.places[p].network} :
              EditsPlace(p, name, network, Least(Spot), Least(Rate))
  <2>1. PICK name \in Name : \E network \in {Null, db.places[p].network} :
              EditsPlace(p, name, network, Least(Spot), Least(Rate))
    BY <1>6
  <2>2. PICK network \in {Null, db.places[p].network} : EditsPlace(p, name, network, Least(Spot), Least(Rate))
    BY <2>1
  <2> QED BY <2>2, PlaceEdits
<1>7. CASE \E label \in {1, 2} : \E default \in BOOLEAN : AddsStall(p, label, default)
  BY <1>7, StallsStep
<1> QED BY <1>1, <1>2, <1>3, <1>4, <1>5, <1>6, <1>7

LEMMA NextIsSafe ==
    ASSUME Sane(db), converting \in OrNull(Conversion), converting # Null => converting.from # converting.to, Next
    PROVE  SafeStep
<1>1. CASE Charges
  BY <1>1, ChargesStep, AddingIsSafe
<1>2. CASE EditsSessions
  BY <1>2, SessionsStep
<1>3. CASE EditsNetworks
  BY <1>3, NetworksStep
<1>4. CASE EditsPlaces
  BY <1>4, PlacesStep
<1>5. CASE EditsStalls
  BY <1>5, StallsStep
<1>6. CASE \E name \in Name : \E n \in Nets : \E at \in Spot \cup {Null} : CreatesPlace(name, n, at)
  BY <1>6, PlaceCreation DEF OrNull
<1>7. CASE \E i \in Sessions : DeletesSession(i)
  BY <1>7, DeletionStep
<1> QED BY <1>1, <1>2, <1>3, <1>4, <1>5, <1>6, <1>7 DEF Next, EditsReference

\* The rest of the state: a handler spends a step, and only a conversion is begun or ended.
Spends == left > 0 /\ left' = left - 1 /\ UNCHANGED converting

LEMMA NextSpends ==
    ASSUME Next
    PROVE  \/ Spends \/ FinishesConversion
           \/ \E n, m \in Nets : \E name \in Name : StartsConversion(n, m, name)
<1>1. Charges => Spends
  BY DEF Charges, HearsCharge, Commits, Spends
<1>2. EditsSessions => Spends
  BY DEF EditsSessions, EntersSession, EditsSession, EditsInBulk, Commits, Spends
<1>3. EditsNetworks => \/ Spends \/ FinishesConversion
                       \/ \E n, m \in Nets : \E name \in Name : StartsConversion(n, m, name)
  BY DEF EditsNetworks, CreatesNetwork, EditsNetwork, Recalculates, VerifiesNetwork, UnverifiesNetwork,
     DeletesNetwork, MergesNetwork, AddsPeriod, EditsPeriod, DeletesPeriod, Commits, Spends
<1>4. EditsPlaces => Spends
  <2>1. ASSUME NEW p, NEW name, Associates(p, name)
        PROVE  Spends
    BY <2>1 DEF Associates, Commits, Spends
  <2>2. ASSUME NEW p, NEW q, \/ VerifiesPlace(p) \/ UnverifiesPlace(p) \/ Promotes(p)
                            \/ DeletesPlace(p) \/ Prefills(p) \/ MergesPlace(p, q)
        PROVE  Spends
    BY <2>2 DEF VerifiesPlace, UnverifiesPlace, Promotes, DeletesPlace, Prefills, MergesPlace, Commits, Spends
  <2>3. ASSUME NEW p, NEW name, NEW n, NEW at, NEW rate, EditsPlace(p, name, n, at, rate)
        PROVE  Spends
    BY <2>3 DEF EditsPlace, Commits, Spends
  <2>4. ASSUME NEW p, NEW label, NEW default, AddsStall(p, label, default)
        PROVE  Spends
    BY <2>4 DEF AddsStall, Commits, Spends
  <2> QED BY <2>1, <2>2, <2>3, <2>4 DEF EditsPlaces
<1>5. EditsStalls => Spends
  BY DEF EditsStalls, EditsStall, DeletesStall, Commits, Spends
<1>6. (\E name \in Name : \E n \in Nets : \E at \in Spot \cup {Null} : CreatesPlace(name, n, at)) => Spends
  BY DEF CreatesPlace, Commits, Spends
<1>7. (\E i \in Sessions : DeletesSession(i)) => Spends
  BY DEF DeletesSession, Commits, Spends
<1> QED BY <1>1, <1>2, <1>3, <1>4, <1>5, <1>6, <1>7 DEF Next, EditsReference

\* The state without the page.
StateOK ==
    /\ Sane(db) /\ left \in 0 .. MaxSteps
    /\ converting \in OrNull(Conversion)
    /\ converting # Null => converting.from # converting.to

LEMMA NextKeepsState ==
    ASSUME StateOK, Next
    PROVE  StateOK' /\ SafeStep
<1>1. /\ Sane(db) /\ left \in 0 .. MaxSteps /\ MaxSteps \in Nat /\ converting \in OrNull(Conversion)
      /\ converting # Null => converting.from # converting.to
  BY PlacesAssumption DEF StateOK
<1>2. SafeStep /\ Sane(db')
  BY <1>1, NextIsSafe DEF SafeStep
<1>3. CASE Spends
  BY <1>1, <1>2, <1>3 DEF StateOK, Spends
<1>4. CASE FinishesConversion
  <2>1. converting' = Null /\ left' = left
    BY <1>4 DEF FinishesConversion
  <2> QED BY <1>1, <1>2, <2>1 DEF StateOK, OrNull
<1>5. CASE \E n, m \in Nets : \E name \in Name : StartsConversion(n, m, name)
  <2>1. PICK n \in Nets, m \in Nets, name \in Name : StartsConversion(n, m, name)
    BY <1>5
  <2>2. converting' \in Conversion /\ converting'.from # converting'.to
    BY <1>1, <2>1, ConversionStarts
  <2>3. left > 0 /\ left' = left - 1
    BY <2>1 DEF StartsConversion
  <2> QED BY <1>1, <1>2, <2>2, <2>3 DEF StateOK, OrNull
<1> QED BY <1>3, <1>4, <1>5, NextSpends

-----------------------------------------------------------------------------
(***************************************************************************)
(* What a merge does to the counts of its preview.                         *)
(***************************************************************************)
LEMMA CountsAdd ==
    ASSUME NEW A, NEW B, IsFiniteSet(A), IsFiniteSet(B), A \cap B = {}
    PROVE  Cardinality(A \cup B) = Cardinality(A) + Cardinality(B)
<1>1. Cardinality(A \cup B) = Cardinality(A) + Cardinality(B) - Cardinality(A \cap B)
  BY FS_Union
<1>2. Cardinality(A \cap B) = 0 /\ Cardinality(A) \in Nat /\ Cardinality(B) \in Nat
  BY FS_EmptySet, FS_CardinalityType
<1> QED BY <1>1, <1>2

TakesNetwork(Row, m) ==
    \A r \in Row : [r EXCEPT !.network = m] \in Row /\ [r EXCEPT !.network = m].network = m

TakesPlace(Row, q) ==
    \A r \in Row : [r EXCEPT !.place = q] \in Row /\ [r EXCEPT !.place = q].place = q

\* The rows of a network that has taken another's.
LEMMA NetworksRowsMeet ==
    ASSUME NEW S, IsFiniteSet(S), NEW Row, NoRow \notin Row, NEW table \in [S -> Row \cup {NoRow}],
           NEW n, NEW m, n # m, TakesNetwork(Row, m)
    PROVE  LET after == Repointed(Repointed(table, n, m), n, Null)
           IN  Cardinality(OfNetwork(after, m)) =
                   Cardinality(OfNetwork(table, n)) + Cardinality(OfNetwork(table, m))
<1> DEFINE t == Repointed(table, n, m)
           after == Repointed(t, n, Null)
           A == OfNetwork(table, n)
           B == OfNetwork(table, m)
<1>1. DOMAIN t = S /\ DOMAIN table = S
  BY RepointedRefers
<1>2. ASSUME NEW i \in S
      PROVE  /\ t[i] = NoRow <=> table[i] = NoRow
             /\ t[i] # NoRow => (t[i].network = m <=> table[i].network \in {n, m}) /\ t[i].network # n
  <2>1. CASE table[i] = NoRow \/ table[i].network # n
    <3>1. t[i] = table[i]
      BY <2>1, RepointedRefers
    <3> HIDE DEF t
    <3> QED BY <2>1, <3>1
  <2>2. CASE ~(table[i] = NoRow \/ table[i].network # n)
    <3> DEFINE r == table[i]
    <3>1. t[i] = [r EXCEPT !.network = m] /\ r \in Row /\ r.network = n
      BY <2>2, RepointedRefers
    <3> HIDE DEF r, t
    <3>2. t[i] \in Row /\ t[i].network = m
      BY <3>1 DEF TakesNetwork
    <3> QED BY <2>2, <3>1, <3>2 DEF r
  <2> QED BY <2>1, <2>2
<1> HIDE DEF t
<1>3. after = [i \in S |-> t[i]]
  BY <1>1, <1>2 DEF Repointed
<1> HIDE DEF after
<1>4. OfNetwork(after, m) = A \cup B
  BY <1>1, <1>2, <1>3 DEF OfNetwork, Stored
<1>5. IsFiniteSet(A) /\ IsFiniteSet(B) /\ A \cap B = {}
  <2>1. A \subseteq S /\ B \subseteq S /\ A \cap B = {}
    BY <1>1 DEF OfNetwork, Stored
  <2> HIDE DEF A, B
  <2> QED BY <2>1, FS_Subset
<1> HIDE DEF A, B
<1>6. Cardinality(OfNetwork(after, m)) = Cardinality(A) + Cardinality(B)
  BY <1>4, <1>5, CountsAdd
<1> QED BY <1>6 DEF A, B, after, t

PeriodsAt(periods, n) == {p \in periods : p.network = n}
PeriodsMoved(periods, n, m) == {IF p.network = n THEN [p EXCEPT !.network = m] ELSE p : p \in periods}
PeriodsWithout(periods, n) == {p \in periods : p.network # n}

LEMMA PeriodsMeet ==
    ASSUME NEW d, Sane(d), NEW n, NEW m \in NetId, n # m,
           NEW kept, kept = PeriodsWithout(PeriodsMoved(d.periods, n, m), n)
    PROVE  Cardinality(PeriodsAt(kept, m)) =
               Cardinality(PeriodsAt(d.periods, n)) + Cardinality(PeriodsAt(d.periods, m))
<1> DEFINE f(p) == IF p.network = n THEN [p EXCEPT !.network = m] ELSE p
           A == {p \in d.periods : p.network = n}
           B == {p \in d.periods : p.network = m}
           C == {p \in kept : p.network = m}
           g == [p \in A \cup B |-> f(p)]
<1>1. d.periods \subseteq PeriodRow /\ IsFiniteSet(d.periods) /\ \A p, q \in d.periods : p.id = q.id => p = q
  BY Tables DEF Sane, Consistent, PeriodsAreUnique
<1>2. ASSUME NEW p \in d.periods
      PROVE  f(p).id = p.id /\ (f(p).network = m <=> p \in A \cup B) /\ f(p).network # n
  <2>1. p \in PeriodRow
    BY <1>1
  <2> QED BY <2>1 DEF PeriodRow
<1>0. PeriodsMoved(d.periods, n, m) = {f(p) : p \in d.periods}
  BY DEF PeriodsMoved
<1> HIDE DEF f
<1>3. C = {f(p) : p \in A \cup B}
  BY <1>0, <1>2 DEF PeriodsWithout
<1>4. g \in Bijection(A \cup B, C)
  <2>1. g \in Surjection(A \cup B, C)
    BY <1>3 DEF Surjection
  <2>2. \A p, q \in A \cup B : g[p] = g[q] => p = q
    BY <1>1, <1>2
  <2> HIDE DEF A, B, C, g
  <2> QED BY <2>1, <2>2 DEF Bijection, Injection, Surjection, IsInjective
<1>5. IsFiniteSet(A) /\ IsFiniteSet(B) /\ A \cap B = {}
  BY <1>1, FS_Subset
<1> HIDE DEF A, B, C, g
<1>6. Cardinality(C) = Cardinality(A \cup B)
  <2>1. IsFiniteSet(A \cup B) /\ ExistsBijection(A \cup B, C)
    BY <1>4, <1>5, FS_Union DEF ExistsBijection
  <2> QED BY <2>1, FS_Bijection
<1>7. Cardinality(A \cup B) = Cardinality(A) + Cardinality(B)
  BY <1>5, CountsAdd
<1> QED BY <1>6, <1>7 DEF A, B, C, PeriodsAt

\* merge_network does as its preview says.
LEMMA NetworkMergeCounts ==
    ASSUME NEW d, Sane(d), NEW n \in Stored(d.nets), NEW m \in Stored(d.nets), n # m
    PROVE  NetworkPreview(AfterMerge(d, n, m), m) = Both(NetworkPreview(d, n), NetworkPreview(d, m))
<1> DEFINE e == AfterMerge(d, n, m)
<1>1. m \in NetId /\ m \in OrNull(NetId) /\ d \in Database
  BY Tables DEF Sane, Typed, OrNull
<1>2. /\ e.sessions = Repointed(Repointed(d.sessions, n, m), n, Null)
      /\ e.places = Repointed(Repointed(d.places, n, m), n, Null)
      /\ e.periods = PeriodsWithout(PeriodsMoved(d.periods, n, m), n)
  BY <1>1 DEF AfterMerge, WithoutNetwork, Moved, Database, PeriodsWithout, PeriodsMoved
<1> HIDE DEF e
<1>3. Cardinality(OfNetwork(e.sessions, m)) =
        Cardinality(OfNetwork(d.sessions, n)) + Cardinality(OfNetwork(d.sessions, m))
  <2>1. d.sessions \in [SessionId -> SessionRow \cup {NoRow}] /\ IsFiniteSet(SessionId)
    BY Tables, PrimaryKeys DEF Sane, Ids
  <2>2. TakesNetwork(SessionRow, m)
    BY <1>1 DEF TakesNetwork, SessionRow
  <2> QED BY <1>2, <2>1, <2>2, RowsAreNotNull, NetworksRowsMeet
<1>4. Cardinality(OfNetwork(e.places, m)) =
        Cardinality(OfNetwork(d.places, n)) + Cardinality(OfNetwork(d.places, m))
  <2>1. d.places \in [PlaceId -> PlaceRow \cup {NoRow}] /\ IsFiniteSet(PlaceId)
    BY Tables, PrimaryKeys DEF Sane, Ids
  <2>2. TakesNetwork(PlaceRow, m)
    BY <1>1 DEF TakesNetwork, PlaceRow
  <2> QED BY <1>2, <2>1, <2>2, RowsAreNotNull, NetworksRowsMeet
<1>5. Cardinality(PeriodsAt(e.periods, m)) =
        Cardinality(PeriodsAt(d.periods, n)) + Cardinality(PeriodsAt(d.periods, m))
  BY <1>1, <1>2, PeriodsMeet
<1>6. ASSUME NEW a, NEW b, NEW c, NEW x, NEW y, NEW z
      PROVE  Both([sessions |-> a, subscriptions |-> b, locations |-> c],
                  [sessions |-> x, subscriptions |-> y, locations |-> z])
                = [sessions |-> a + x, subscriptions |-> b + y, locations |-> c + z]
  BY DEF Both
<1> QED BY <1>3, <1>4, <1>5, <1>6 DEF NetworkPreview, PeriodsAt, e

Visited(S, table, p, q) ==
    [i \in S |-> IF table[i] = NoRow \/ table[i].place # p THEN table[i] ELSE [table[i] EXCEPT !.place = q]]

\* The rows of a location that has taken another's.
LEMMA PlacesRowsMeet ==
    ASSUME NEW S, IsFiniteSet(S), NEW Row, NoRow \notin Row, NEW table \in [S -> Row \cup {NoRow}],
           NEW p, NEW q, p # q, TakesPlace(Row, q),
           NEW after, after = Visited(S, table, p, q)
    PROVE  /\ after \in [S -> Row \cup {NoRow}] /\ OfPlace(after, p) = {}
           /\ Cardinality(OfPlace(after, q)) = Cardinality(OfPlace(table, p)) + Cardinality(OfPlace(table, q))
<1> DEFINE A == OfPlace(table, p)
           B == OfPlace(table, q)
<1>1. DOMAIN table = S /\ DOMAIN after = S /\ after = [i \in S |-> after[i]]
  BY DEF Visited
<1>2. ASSUME NEW i \in S
      PROVE  /\ after[i] \in Row \cup {NoRow} /\ (after[i] = NoRow <=> table[i] = NoRow)
             /\ after[i] # NoRow => (after[i].place = q <=> table[i].place \in {p, q}) /\ after[i].place # p
  <2>1. CASE table[i] = NoRow \/ table[i].place # p
    <3>1. after[i] = table[i]
      BY <2>1 DEF Visited
    <3> QED BY <2>1, <3>1
  <2>2. CASE ~(table[i] = NoRow \/ table[i].place # p)
    <3> DEFINE r == table[i]
    <3>1. after[i] = [r EXCEPT !.place = q] /\ r \in Row /\ r.place = p
      BY <2>2 DEF Visited
    <3> HIDE DEF r
    <3>2. after[i] \in Row /\ after[i].place = q
      BY <3>1 DEF TakesPlace
    <3> QED BY <2>2, <3>1, <3>2 DEF r
  <2> QED BY <2>1, <2>2
<1>3. after \in [S -> Row \cup {NoRow}]
  BY <1>1, <1>2
<1>4. OfPlace(after, p) = {} /\ OfPlace(after, q) = A \cup B
  BY <1>1, <1>2 DEF OfPlace, Stored
<1>5. IsFiniteSet(A) /\ IsFiniteSet(B) /\ A \cap B = {}
  <2>1. A \subseteq S /\ B \subseteq S /\ A \cap B = {}
    BY <1>1 DEF OfPlace, Stored
  <2> HIDE DEF A, B
  <2> QED BY <2>1, FS_Subset
<1> HIDE DEF A, B
<1>6. Cardinality(OfPlace(after, q)) = Cardinality(A) + Cardinality(B)
  BY <1>4, <1>5, CountsAdd
<1> QED BY <1>3, <1>4, <1>6 DEF A, B

\* merge_location does as its preview says.
LEMMA PlaceMergeCounts ==
    ASSUME NEW d, Sane(d), NEW p \in Stored(d.places), NEW q \in Stored(d.places), p # q
    PROVE  PlacePreview(AfterPlaceMerge(d, p, q), q) = Both(PlacePreview(d, p), PlacePreview(d, q))
<1> DEFINE e == AfterPlaceMerge(d, p, q)
           sessions == [i \in SessionId |-> IF d.sessions[i] = NoRow \/ d.sessions[i].place # p
                                            THEN d.sessions[i] ELSE [d.sessions[i] EXCEPT !.place = q]]
           stalls == [s \in StallId |-> IF d.stalls[s] = NoRow \/ d.stalls[s].place # p
                                        THEN d.stalls[s] ELSE [d.stalls[s] EXCEPT !.place = q]]
           gone == {s \in Stored(stalls) : stalls[s].place = p}
<1>1. /\ d \in Database /\ q \in PlaceId /\ q \in OrNull(PlaceId)
      /\ d.sessions \in [SessionId -> SessionRow \cup {NoRow}] /\ IsFiniteSet(SessionId)
      /\ d.stalls \in [StallId -> StallRow \cup {NoRow}] /\ IsFiniteSet(StallId)
  BY Tables, PrimaryKeys DEF Sane, Typed, Ids, OrNull
<1>2. /\ OfPlace(sessions, p) = {} /\ sessions \in [SessionId -> SessionRow \cup {NoRow}]
      /\ Cardinality(OfPlace(sessions, q)) =
             Cardinality(OfPlace(d.sessions, p)) + Cardinality(OfPlace(d.sessions, q))
  <2>1. TakesPlace(SessionRow, q)
    BY <1>1 DEF TakesPlace, SessionRow
  <2>2. sessions = Visited(SessionId, d.sessions, p, q)
    BY DEF Visited
  <2> HIDE DEF sessions
  <2> QED BY <1>1, <2>1, <2>2, RowsAreNotNull, PlacesRowsMeet
<1>3. /\ OfPlace(stalls, p) = {} /\ stalls \in [StallId -> StallRow \cup {NoRow}]
      /\ Cardinality(OfPlace(stalls, q)) =
             Cardinality(OfPlace(d.stalls, p)) + Cardinality(OfPlace(d.stalls, q))
  <2>1. TakesPlace(StallRow, q)
    BY <1>1 DEF TakesPlace, StallRow
  <2>2. stalls = Visited(StallId, d.stalls, p, q)
    BY DEF Visited
  <2> HIDE DEF stalls
  <2> QED BY <1>1, <2>1, <2>2, RowsAreNotNull, PlacesRowsMeet
<1>4. gone = {}
  BY <1>3 DEF OfPlace
<1>5. /\ e.stalls = [s \in StallId |-> IF s \in gone THEN NoRow ELSE stalls[s]]
      /\ e.sessions = [i \in SessionId |-> IF sessions[i] = NoRow \/ sessions[i].stall \notin gone
                                           THEN sessions[i] ELSE [sessions[i] EXCEPT !.stall = Null]]
  <2> DEFINE gps == Remembered(d, p, q)
             f == [d EXCEPT !.sessions = sessions, !.stalls = stalls, !.gps = gps]
  <2>1. e = WithoutPlace(f, p)
    BY DEF AfterPlaceMerge
  <2> HIDE DEF sessions, stalls, gps, e
  <2>2. f.sessions = sessions /\ f.stalls = stalls
    BY <1>1 DEF Database
  <2>3. /\ WithoutPlace(f, p).stalls = [s \in StallId |-> IF s \in gone THEN NoRow ELSE f.stalls[s]]
        /\ WithoutPlace(f, p).sessions = [i \in SessionId |->
              IF f.sessions[i] = NoRow \/ f.sessions[i].stall \notin gone THEN f.sessions[i]
              ELSE [f.sessions[i] EXCEPT !.stall = Null]]
    BY <1>1, <2>2 DEF WithoutPlace, WithoutStalls, Database
  <2> HIDE DEF f
  <2> QED BY <2>1, <2>2, <2>3
<1> HIDE DEF sessions, stalls, gone, e
<1>6. e.stalls = stalls /\ e.sessions = sessions
  BY <1>2, <1>3, <1>4, <1>5
<1> QED BY <1>2, <1>3, <1>6 DEF PlacePreview, Both, e

-----------------------------------------------------------------------------
(***************************************************************************)
(* The import.                                                             *)
(***************************************************************************)
\* The rows are imported one after the other.
LEMMA PartialSteps ==
    ASSUME NEW d, NEW rows, NEW choices
    PROVE  LET p == Partial(d, rows, choices)
           IN  /\ p[0] = [db |-> d, failed |-> FALSE]
               /\ \A n \in 1 .. Len(File) : p[n] = Step(p[n - 1], rows[n], choices[n])
<1> DEFINE L == Len(File)
           start == [db |-> d, failed |-> FALSE]
           Chain(g, k) == g = [n \in 0 .. k |-> IF n = 0 THEN start ELSE Step(g[n - 1], rows[n], choices[n])]
           stuck == {k \in 0 .. L : ~\E g : Chain(g, k)}
<1>1. L \in Nat
  BY ImportAssumption
<1> HIDE DEF L, start, Chain
<1>2. ASSUME stuck # {}
      PROVE  FALSE
  <2>1. IsFiniteSet(stuck) /\ stuck \subseteq Int
    <3>1. stuck \subseteq 0 .. L
      OBVIOUS
    <3>2. IsFiniteSet(0 .. L)
      BY <1>1, FS_Interval
    <3> HIDE DEF stuck
    <3>3. IsFiniteSet(stuck)
      BY <3>1, <3>2, FS_Subset
    <3> QED BY <1>1, <3>1, <3>3
  <2>2. PICK k \in stuck : \A j \in stuck : k <= j
    <3> HIDE DEF stuck
    <3> QED BY <1>2, <2>1, LeastIsOne
  <2>3. k \in 0 .. L /\ ~\E g : Chain(g, k)
    BY <2>2
  <2>4. CASE k = 0
    <3> DEFINE g == [n \in 0 .. 0 |-> start]
    <3>1. Chain(g, 0)
      BY DEF Chain
    <3> QED BY <2>3, <2>4, <3>1
  <2>5. CASE k # 0
    <3>1. k - 1 \in 0 .. L /\ k - 1 \notin stuck
      BY <1>1, <2>2, <2>3, <2>5
    <3>2. PICK g : Chain(g, k - 1)
      BY <3>1
    <3> DEFINE h == [n \in 0 .. k |-> IF n = k THEN Step(g[k - 1], rows[k], choices[k]) ELSE g[n]]
    <3>3. \A n \in 0 .. k - 1 : g[n] = IF n = 0 THEN start ELSE Step(g[n - 1], rows[n], choices[n])
      BY <3>2 DEF Chain
    <3>4. ASSUME NEW n \in 0 .. k
          PROVE  h[n] = IF n = 0 THEN start ELSE Step(h[n - 1], rows[n], choices[n])
      <4>1. CASE n = k
        BY <1>1, <2>3, <2>5, <4>1
      <4>2. CASE n # k
        BY <1>1, <2>3, <2>5, <3>3, <4>2
      <4> QED BY <4>1, <4>2
    <3>5. DOMAIN h = 0 .. k /\ h = [n \in 0 .. k |-> h[n]]
      OBVIOUS
    <3> HIDE DEF h
    <3>6. Chain(h, k)
      BY <3>4, <3>5 DEF Chain
    <3> QED BY <2>3, <3>6
  <2> QED BY <2>4, <2>5
<1>3. L \in 0 .. L /\ L \notin stuck
  BY <1>1, <1>2
<1>4. \E g : g = [n \in 0 .. L |-> IF n = 0 THEN start ELSE Step(g[n - 1], rows[n], choices[n])]
  BY <1>3 DEF Chain
<1> DEFINE p == CHOOSE g : g = [n \in 0 .. L |-> IF n = 0 THEN start ELSE Step(g[n - 1], rows[n], choices[n])]
<1>5. p = [n \in 0 .. L |-> IF n = 0 THEN start ELSE Step(p[n - 1], rows[n], choices[n])]
  BY <1>4
<1>6. Partial(d, rows, choices) = p
  BY DEF Partial, L, start
<1> HIDE DEF p
<1>7. p[0] = start /\ \A n \in 1 .. L : p[n] = Step(p[n - 1], rows[n], choices[n])
  BY <1>1, <1>5
<1> QED BY <1>6, <1>7 DEF L, start

LEMMA InsertedAdds ==
    ASSUME NEW d, Sane(d), Room(d.places), Room(d.sessions), NEW row \in ParsedLine, NEW n \in OrNull(NetId)
    PROVE  LET e == Inserted(d, row, n)
           IN  /\ Sane(e) /\ Adds(d, e) /\ e.nets = d.nets /\ KeysStay(d, e, {})
               /\ IF NetworkExists(d, n) THEN Recorded(e, row.key) ELSE e = d
<1> DEFINE obs == [at |-> row.at, address |-> row.address, name |-> row.name,
                   network |-> n, home |-> FALSE, src |-> "csv_import"]
           p == ResolvePlace(d, obs)
           net == Inherited(p.db, n, p.id)
           new == [key |-> row.key, name |-> row.name, network |-> net, place |-> p.id,
                   stall |-> Null, at |-> row.at, address |-> row.address, day |-> row.start,
                   energy |-> row.energy, cost |-> row.cost, by |-> Null, free |-> FALSE,
                   estimate |-> Null]
           e == [p.db EXCEPT !.sessions = Put(@, new)]
           stores == NetworkExists(d, n) /\ KeyIsFree(d, row.key, {})
<1>1. /\ row.key \in Key /\ row.name \in OrNull(Name) /\ row.at \in OrNull(Spot) /\ row.start \in OrNull(Day)
      /\ row.address \in OrNull(Address) /\ row.energy \in OrNull(Amount) /\ row.cost \in OrNull(Amount)
  BY DEF ParsedLine
<1>2. CASE ~stores
  <2>1. Inserted(d, row, n) = d
    BY <1>2 DEF Inserted
  <2>2. NetworkExists(d, n) => Recorded(d, row.key)
    BY <1>2 DEF KeyIsFree, Recorded
  <2> QED BY <2>1, <2>2, AddsNothing DEF KeysStay
<1>3. CASE stores
  <2>1. Inserted(d, row, n) = e /\ NetworkExists(d, n)
    BY <1>3 DEF Inserted
  <2>2. obs \in Observation /\ Refers(obs.network, d.nets) /\ Room(d.places)
    BY <1>1, <1>3 DEF Observation, NetworkExists, Refers, Source
  <2>3. obs.network = n
    OBVIOUS
  <2> HIDE DEF obs
  <2>4. Sane(p.db) /\ OnlyPlaces(d, p.db) /\ Adds(d, p.db) /\ p.id \in OrNull(PlaceId)
    BY <2>2, ResolvePlaceSane
  <2> HIDE DEF p
  <2>5. Refers(n, p.db.nets)
    BY <2>2, <2>3, <2>4 DEF OnlyPlaces
  <2>6. net \in OrNull(NetId) /\ Refers(net, p.db.nets)
    BY <2>4, <2>5, InheritedRefers
  <2> HIDE DEF net
  <2>7. /\ new \in SessionRow /\ Refers(new.network, p.db.nets) /\ Refers(new.stall, p.db.stalls)
        /\ new.key = row.key
    BY <1>1, <2>4, <2>6 DEF SessionRow, OrNull, Refers
  <2> HIDE DEF new
  <2>8. Room(p.db.sessions) /\ ~Recorded(p.db, new.key)
    BY <1>3, <2>4, <2>7 DEF OnlyPlaces, KeyIsFree, Recorded
  <2>9. /\ Sane(e) /\ Adds(p.db, e) /\ OnlySessions(p.db, e) /\ KeysStay(p.db, e, {})
        /\ Recorded(e, row.key)
    BY <2>4, <2>7, <2>8, SessionIsAdded
  <2> HIDE DEF e
  <2>10. e.nets = d.nets /\ KeysStay(d, e, {})
    BY <2>4, <2>9 DEF OnlyPlaces, OnlySessions, KeysStay
  <2> QED BY <2>1, <2>4, <2>9, <2>10, AddsTwice
<1> QED BY <1>2, <1>3

LEMMA UpdatedGrows ==
    ASSUME NEW d, Sane(d), NEW row \in ParsedLine, NEW n \in OrNull(NetId), NEW i
    PROVE  LET e == Updated(d, row, n, i)
           IN  /\ Sane(e) /\ Grows(d, e) /\ e.nets = d.nets /\ KeysStay(d, e, {i})
               /\ NetworksOfSessionsStay(d, e, {i}) /\ (n # Null => NetworksOfSessionsStay(d, e, {}))
               /\ NetworkExists(d, n) /\ i \in Stored(d.sessions) => Recorded(e, row.key)
               /\ (NetworkExists(d, n) /\ i \in Stored(d.sessions)) \/ e = d
<1> DEFINE stores == /\ i \in Stored(d.sessions) /\ NetworkExists(d, n) /\ KeyIsFree(d, row.key, {i})
           old == d.sessions[i]
           new == [old EXCEPT !.key = row.key, !.name = row.name, !.day = row.start, !.energy = row.energy,
                              !.at = row.at, !.address = row.address, !.cost = row.cost,
                              !.network = n,
                              !.free = FALSE]
           e == [d EXCEPT !.sessions[i] = new]
<1>1. CASE ~stores
  <2>1. Updated(d, row, n, i) = d
    BY <1>1 DEF Updated
  <2>2. NetworkExists(d, n) /\ i \in Stored(d.sessions) => Recorded(d, row.key)
    BY <1>1 DEF KeyIsFree, Recorded
  <2> QED BY <2>1, <2>2, AddsNothing, AddingGrows DEF KeysStay, NetworksOfSessionsStay
<1>2. CASE stores
  <2>1. Updated(d, row, n, i) = e /\ NetworkExists(d, n)
    BY <1>2 DEF Updated
  <2>2. /\ old \in SessionRow /\ Refers(old.network, d.nets) /\ Refers(old.stall, d.stalls)
        /\ i \in Stored(d.sessions) /\ i \in SessionId
    BY <1>2, Tables DEF Sane, Consistent, SessionsRefer
  <2>3. /\ row.key \in Key /\ row.name \in OrNull(Name) /\ row.at \in OrNull(Spot)
        /\ row.start \in OrNull(Day) /\ row.address \in OrNull(Address) /\ row.energy \in OrNull(Amount)
        /\ row.cost \in OrNull(Amount)
    BY DEF ParsedLine
  <2>4. Refers(n, d.nets)
    BY <1>2 DEF NetworkExists, Refers
  <2> HIDE DEF old
  <2>5. /\ new \in SessionRow /\ new.network = n /\ new.stall = old.stall
        /\ new.key = row.key
    BY <2>2, <2>3, <2>4 DEF SessionRow
  <2> HIDE DEF new
  <2>6. \A j \in Stored(d.sessions) \ {i} : d.sessions[j].key # new.key
    BY <1>2, <2>5 DEF KeyIsFree
  <2>7. Refers(new.network, d.nets) /\ Refers(new.stall, d.stalls)
    BY <2>2, <2>4, <2>5
  <2>8. /\ Sane(e) /\ OnlySessions(d, e) /\ Stored(e.sessions) = Stored(d.sessions)
        /\ e.sessions[i] = new
        /\ \A j \in Stored(d.sessions) \ {i} : e.sessions[j] = d.sessions[j]
    BY <2>2, <2>5, <2>6, <2>7, SessionReplaced
  <2> HIDE DEF e
  <2>9. Grows(d, e)
    BY <2>8 DEF Grows, NetworksStay, PlacesStay, OnlySessions, OnlyFills, Known, Named
  <2>10. e.nets = d.nets /\ KeysStay(d, e, {i}) /\ Recorded(e, row.key)
    BY <2>2, <2>5, <2>8 DEF OnlySessions, KeysStay, Recorded
  <2>11. NetworksOfSessionsStay(d, e, {i}) /\ (n # Null => NetworksOfSessionsStay(d, e, {}))
    BY <2>5, <2>8 DEF NetworksOfSessionsStay
  <2> QED BY <2>1, <2>2, <2>8, <2>9, <2>10, <2>11
<1> QED BY <1>1, <1>2

KeptRow == [row : ParsedLine, status : Status, matched : OrNull(SessionId)]

Accumulates(acc) == acc = [db |-> acc.db, failed |-> acc.failed]

\* One row only adds, whether it is stored or not.
LEMMA StepGrows ==
    ASSUME NEW acc, Accumulates(acc), Sane(acc.db), RoomIn(acc.db), NEW kept \in KeptRow, NEW choice
    PROVE  LET next == Step(acc, kept, choice)
           IN  Accumulates(next) /\ Sane(next.db) /\ Grows(acc.db, next.db)
               /\ next.db \in {acc.db, ImportedRow(acc.db, kept, choice)}
<1> DEFINE d == acc.db
           row == kept.row
           n == RowNetwork(d, row)
           e == ImportedRow(d, kept, choice)
           next == Step(acc, kept, choice)
<1>1. row \in ParsedLine /\ row.network \in NetId \cup OrNull(Name)
  BY DEF KeptRow, ParsedLine
<1> HIDE DEF row
<1>2. Sane(n.db) /\ OnlyNets(d, n.db) /\ Adds(d, n.db) /\ n.id \in OrNull(NetId)
  <2>1. CASE row.network \in NetId
    <3>1. n = [db |-> d, id |-> row.network]
      BY <2>1 DEF RowNetwork
    <3> HIDE DEF n
    <3> QED BY <2>1, <3>1, AddsNothing DEF OnlyNets, OrNull
  <2>2. CASE row.network \notin NetId
    <3>1. n = ResolveNetwork(d, row.network, Null)
      BY <2>2 DEF RowNetwork
    <3>2. row.network \in OrNull(Name) /\ Null \in OrNull(Source) /\ Room(d.nets)
      BY <1>1, <2>2 DEF OrNull, RoomIn
    <3> HIDE DEF n
    <3> QED BY <3>1, <3>2, ResolveNetworkSane
  <2> QED BY <2>1, <2>2
<1>3. e \in {d, Inserted(n.db, row, n.id), Updated(n.db, row, n.id, kept.matched)}
  BY DEF ImportedRow, row
<1> HIDE DEF n, e
<1>4. Room(n.db.places) /\ Room(n.db.sessions)
  BY <1>2 DEF OnlyNets, RoomIn
<1>5. Sane(e) /\ Grows(d, e)
  <2>1. CASE e = d
    BY <2>1, AddsNothing, AddingGrows
  <2>2. CASE e = Inserted(n.db, row, n.id)
    BY <1>1, <1>2, <1>4, <2>2, InsertedAdds, AddingGrows, GrowsTwice
  <2>3. CASE e = Updated(n.db, row, n.id, kept.matched)
    BY <1>1, <1>2, <2>3, UpdatedGrows, AddingGrows, GrowsTwice
  <2> QED BY <1>3, <2>1, <2>2, <2>3
<1>6. next \in {[acc EXCEPT !.failed = TRUE], [acc EXCEPT !.db = e]}
  BY DEF Step, e
<1>7. next.db \in {d, e} /\ Accumulates(next)
  BY <1>6 DEF Accumulates
<1> HIDE DEF next
<1> QED BY <1>5, <1>7, AddsNothing, AddingGrows DEF next, e

Sent == {"skip", "insert", "update", Null}

\* The session a row overwrites.
Overwrites(kept, choice) == IF Action(kept, choice) = "update" THEN {kept.matched} \ {Null} ELSE {}

\* The network of a row is found or made, unless the row gives the key of none.
LEMMA RowNetworkIsFound ==
    ASSUME NEW d, Sane(d), Room(d.nets), NEW row \in ParsedLine
    PROVE  LET n == RowNetwork(d, row)
           IN  /\ Sane(n.db) /\ OnlyNets(d, n.db) /\ Adds(d, n.db) /\ n.id \in OrNull(NetId)
               /\ NamesStayClear(d, n.db) /\ (row.network # Null => n.id # Null)
               /\ NetworkExists(n.db, n.id) <=> (row.network \in NetId => row.network \in Stored(d.nets))
<1> DEFINE n == RowNetwork(d, row)
<1>1. row.network \in NetId \cup OrNull(Name)
  BY DEF ParsedLine
<1>2. CASE row.network \in NetId
  <2>1. n = [db |-> d, id |-> row.network] /\ row.network # Null
    BY <1>2, ValuesAreNotNull DEF RowNetwork
  <2> HIDE DEF n
  <2>2. /\ Sane(n.db) /\ OnlyNets(d, n.db) /\ Adds(d, n.db) /\ n.id \in OrNull(NetId)
        /\ NamesStayClear(d, n.db) /\ n.id # Null
    BY <1>2, <2>1, AddsNothing DEF OnlyNets, OrNull, NamesStayClear
  <2>3. NetworkExists(n.db, n.id) <=> row.network \in Stored(d.nets)
    BY <2>1 DEF NetworkExists
  <2> QED BY <1>2, <2>2, <2>3 DEF n
<1>3. CASE row.network \notin NetId
  <2>1. n = ResolveNetwork(d, row.network, Null)
    BY <1>3 DEF RowNetwork
  <2>2. row.network \in OrNull(Name) /\ Null \in OrNull(Source)
    BY <1>1, <1>3 DEF OrNull
  <2> HIDE DEF n
  <2>3. /\ Sane(n.db) /\ OnlyNets(d, n.db) /\ Adds(d, n.db) /\ n.id \in OrNull(NetId)
        /\ Refers(n.id, n.db.nets) /\ NamesStayClear(d, n.db) /\ (row.network # Null => n.id # Null)
    BY <2>1, <2>2, ResolveNetworkSane, ResolvedIsClear
  <2> QED BY <1>3, <2>3 DEF n, Refers, NetworkExists
<1> QED BY <1>2, <1>3

\* A row leaves the other sessions their keys and networks, and makes no name ambiguous.
LEMMA RowKeepsOthers ==
    ASSUME NEW d, Sane(d), RoomIn(d), NEW kept \in KeptRow, NEW choice \in Sent
    PROVE  LET e == ImportedRow(d, kept, choice)
           IN  /\ KeysStay(d, e, Overwrites(kept, choice)) /\ NamesStayClear(d, e)
               /\ NetworksOfSessionsStay(d, e, Overwrites(kept, choice))
               /\ kept.row.network # Null => NetworksOfSessionsStay(d, e, {})
<1> DEFINE row == kept.row
           n == RowNetwork(d, row)
           e == ImportedRow(d, kept, choice)
<1>1. row \in ParsedLine /\ Room(d.nets) /\ Room(d.places) /\ Room(d.sessions)
  BY DEF KeptRow, RoomIn
<1> HIDE DEF row
<1>2. Sane(n.db) /\ OnlyNets(d, n.db) /\ n.id \in OrNull(NetId) /\ NamesStayClear(d, n.db)
      /\ (row.network # Null => n.id # Null)
  BY <1>1, RowNetworkIsFound
<1>3. \/ e = d
      \/ e = Inserted(n.db, row, n.id)
      \/ Action(kept, choice) = "update" /\ e = Updated(n.db, row, n.id, kept.matched)
  <2>1. Action(kept, choice) \in {"skip", "insert", "update"}
    BY DEF Action, Sent
  <2> QED BY <2>1 DEF ImportedRow, row
<1> HIDE DEF n, e
<1>4. Room(n.db.places) /\ Room(n.db.sessions)
  BY <1>1, <1>2 DEF OnlyNets
<1>5. CASE e = d
  BY <1>5 DEF KeysStay, NamesStayClear, NetworksOfSessionsStay, e
<1>6. CASE e = Inserted(n.db, row, n.id)
  <2>1. e.nets = n.db.nets /\ KeysStay(n.db, e, {}) /\ NetworksOfSessionsStay(n.db, e, {})
    BY <1>1, <1>2, <1>4, <1>6, InsertedAdds, AddingGrows
  <2>2. KeysStay(d, e, Overwrites(kept, choice)) /\ NamesStayClear(d, e)
    BY <1>2, <2>1 DEF KeysStay, NamesStayClear, Ambiguous, Named, OnlyNets
  <2>3. \A but : NetworksOfSessionsStay(d, e, but)
    BY <1>2, <2>1 DEF NetworksOfSessionsStay, OnlyNets
  <2> QED BY <2>2, <2>3 DEF e
<1>7. CASE Action(kept, choice) = "update" /\ e = Updated(n.db, row, n.id, kept.matched)
  <2>1. /\ e.nets = n.db.nets /\ KeysStay(n.db, e, {kept.matched})
        /\ NetworksOfSessionsStay(n.db, e, {kept.matched})
        /\ (n.id # Null => NetworksOfSessionsStay(n.db, e, {}))
    BY <1>1, <1>2, <1>7, UpdatedGrows
  <2>2. Overwrites(kept, choice) = {kept.matched} \ {Null}
    BY <1>7 DEF Overwrites
  <2>3. Null \notin Stored(d.sessions)
    BY Tables, ValuesAreNotNull DEF Sane
  <2>4. KeysStay(d, e, Overwrites(kept, choice)) /\ NamesStayClear(d, e)
    BY <1>2, <2>1, <2>2, <2>3 DEF KeysStay, NamesStayClear, Ambiguous, Named, OnlyNets
  <2>5. /\ NetworksOfSessionsStay(d, e, Overwrites(kept, choice))
        /\ row.network # Null => NetworksOfSessionsStay(d, e, {})
    BY <1>2, <2>1, <2>2, <2>3 DEF NetworksOfSessionsStay, OnlyNets
  <2> QED BY <2>4, <2>5 DEF e, row
<1> QED BY <1>3, <1>5, <1>6, <1>7

\* Only a session that a row without a network overwrites has lost its network by now.
OnlyCleared(d, e, rows, choices, n) ==
    \A j \in Stored(d.sessions) : d.sessions[j].network # Null /\ e.sessions[j].network = Null =>
        \E k \in 1 .. n : j \in Overwrites(rows[k], choices[k]) /\ rows[k].row.network = Null

\* All rows only add, one after the other, and clear no more than they say.
LEMMA ImportedGrows ==
    ASSUME NEW d, Sane(d), NEW rows \in [Rows -> KeptRow], NEW choices \in [Rows -> Sent],
           \A n \in 0 .. Len(File) - 1 : RoomIn(Partial(d, rows, choices)[n].db)
    PROVE  LET e == Imported(d, rows, choices)
           IN  Sane(e) /\ Grows(d, e) /\ OnlyCleared(d, e, rows, choices, Len(File))
<1> DEFINE L == Len(File)
           p == Partial(d, rows, choices)
           Good(n) == /\ Accumulates(p[n]) /\ Sane(p[n].db) /\ Grows(d, p[n].db)
                      /\ OnlyCleared(d, p[n].db, rows, choices, n)
           bad == {n \in 0 .. L : ~Good(n)}
<1>1. L \in Nat /\ Rows = 1 .. L
  BY ImportAssumption DEF Rows
<1>2. p[0] = [db |-> d, failed |-> FALSE] /\ \A n \in 1 .. L : p[n] = Step(p[n - 1], rows[n], choices[n])
  BY PartialSteps
<1>3. \A n \in 0 .. L - 1 : RoomIn(p[n].db)
  OBVIOUS
<1> HIDE DEF L, p
<1>4. Good(0)
  BY <1>2, AddsNothing, AddingGrows DEF Accumulates, OnlyCleared
<1>5. ASSUME NEW n \in 1 .. L, Good(n - 1)
      PROVE  Good(n)
  <2> DEFINE a == p[n - 1]
             b == p[n]
             kept == rows[n]
             choice == choices[n]
  <2>1. RoomIn(a.db) /\ kept \in KeptRow /\ choice \in Sent /\ b = Step(a, kept, choice)
    BY <1>1, <1>2, <1>3
  <2>2. /\ Accumulates(a) /\ Sane(a.db) /\ Grows(d, a.db)
        /\ OnlyCleared(d, a.db, rows, choices, n - 1)
    BY <1>5
  <2> HIDE DEF a, b, kept, choice
  <2>3. /\ Accumulates(b) /\ Sane(b.db) /\ Grows(a.db, b.db)
        /\ b.db \in {a.db, ImportedRow(a.db, kept, choice)}
    BY <2>1, <2>2, StepGrows
  <2>4. Grows(d, b.db)
    BY <2>2, <2>3, GrowsTwice
  <2>5. ASSUME NEW j \in Stored(a.db.sessions),
               a.db.sessions[j].network # Null, b.db.sessions[j].network = Null
        PROVE  j \in Overwrites(kept, choice) /\ kept.row.network = Null
    <3>1. LET e == ImportedRow(a.db, kept, choice)
          IN  /\ NetworksOfSessionsStay(a.db, e, Overwrites(kept, choice))
              /\ kept.row.network # Null => NetworksOfSessionsStay(a.db, e, {})
      BY <2>1, <2>2, RowKeepsOthers
    <3> QED BY <2>3, <2>5, <3>1 DEF NetworksOfSessionsStay
  <2>6. OnlyCleared(d, b.db, rows, choices, n)
    <3> SUFFICES ASSUME NEW j \in Stored(d.sessions),
                        d.sessions[j].network # Null, b.db.sessions[j].network = Null
                 PROVE  \E k \in 1 .. n : j \in Overwrites(rows[k], choices[k]) /\ rows[k].row.network = Null
      BY DEF OnlyCleared
    <3>1. CASE a.db.sessions[j].network = Null
      <4>1. PICK k \in 1 .. n - 1 : j \in Overwrites(rows[k], choices[k]) /\ rows[k].row.network = Null
        BY <2>2, <3>1 DEF OnlyCleared
      <4> QED BY <4>1
    <3>2. CASE a.db.sessions[j].network # Null
      <4>1. j \in Stored(a.db.sessions)
        BY <2>2 DEF Grows
      <4>2. j \in Overwrites(kept, choice) /\ kept.row.network = Null
        BY <2>5, <3>2, <4>1
      <4> QED BY <1>1, <4>2 DEF kept, choice
    <3> QED BY <3>1, <3>2
  <2> QED BY <2>3, <2>4, <2>6 DEF b
<1> HIDE DEF Good
<1>6. bad = {}
  <2> SUFFICES ASSUME bad # {} PROVE FALSE
    OBVIOUS
  <2>1. bad \subseteq 0 .. L /\ IsFiniteSet(0 .. L) /\ bad \subseteq Int
    BY <1>1, FS_Interval
  <2> HIDE DEF bad
  <2>2. IsFiniteSet(bad)
    BY <2>1, FS_Subset
  <2>3. PICK n \in bad : \A k \in bad : n <= k
    BY <2>1, <2>2, LeastIsOne
  <2>4. n \in 0 .. L /\ ~Good(n)
    BY <2>3 DEF bad
  <2>5. n # 0
    BY <1>4, <2>4
  <2>6. n - 1 \in 0 .. L /\ n - 1 \notin bad /\ n \in 1 .. L
    BY <1>1, <2>3, <2>4, <2>5
  <2>7. Good(n - 1)
    BY <2>6 DEF bad
  <2> QED BY <1>5, <2>4, <2>6, <2>7
<1>7. Good(L)
  BY <1>1, <1>6
<1>8. Imported(d, rows, choices) = IF p[L].failed THEN d ELSE p[L].db
  BY DEF Imported, p, L
<1>9. Sane(p[L].db) /\ Grows(d, p[L].db) /\ OnlyCleared(d, p[L].db, rows, choices, L)
  BY <1>7 DEF Good
<1>10. Sane(d) /\ Grows(d, d) /\ OnlyCleared(d, d, rows, choices, L)
  BY AddsNothing, AddingGrows DEF OnlyCleared
<1> QED BY <1>8, <1>9, <1>10 DEF L

\* A row that is stored in one database is stored in one to which others have added.
LEMMA RowIsStored ==
    ASSUME NEW d, Sane(d), RoomIn(d), NEW later, Sane(later), RoomIn(later), Grows(d, later),
           NEW kept \in KeptRow, NEW choice \in Sent,
           ~Recorded(d, kept.row.key), Recorded(ImportedRow(d, kept, choice), kept.row.key)
    PROVE  Recorded(ImportedRow(later, kept, choice), kept.row.key)
<1> DEFINE row == kept.row
           m == RowNetwork(d, row)
           n == RowNetwork(later, row)
           before == ImportedRow(d, kept, choice)
           after == ImportedRow(later, kept, choice)
<1>1. /\ row \in ParsedLine /\ Room(d.nets) /\ Room(d.places) /\ Room(d.sessions)
      /\ Room(later.nets) /\ Room(later.places) /\ Room(later.sessions)
      /\ Action(kept, choice) \in {"skip", "insert", "update"}
  BY DEF KeptRow, RoomIn, Action, Sent
<1>2. ~Recorded(d, row.key) /\ Recorded(before, row.key)
  OBVIOUS
<1> HIDE DEF row
<1>3. /\ Sane(m.db) /\ OnlyNets(d, m.db) /\ m.id \in OrNull(NetId)
      /\ NetworkExists(m.db, m.id) <=> (row.network \in NetId => row.network \in Stored(d.nets))
  BY <1>1, RowNetworkIsFound
<1>4. /\ Sane(n.db) /\ OnlyNets(later, n.db) /\ n.id \in OrNull(NetId)
      /\ NetworkExists(n.db, n.id) <=> (row.network \in NetId => row.network \in Stored(later.nets))
  BY <1>1, RowNetworkIsFound
<1>5. /\ Action(kept, choice) = "skip" => before = d
      /\ Action(kept, choice) = "insert" => before = Inserted(m.db, row, m.id)
                                           /\ after = Inserted(n.db, row, n.id)
      /\ Action(kept, choice) = "update" => before = Updated(m.db, row, m.id, kept.matched)
                                           /\ after = Updated(n.db, row, n.id, kept.matched)
  BY DEF ImportedRow, row
<1> HIDE DEF m, n, before, after
<1>6. ~Recorded(m.db, row.key) /\ Stored(d.nets) \subseteq Stored(later.nets)
  BY <1>2, <1>3 DEF OnlyNets, Recorded, Grows, NetworksStay
<1>7. NetworkExists(m.db, m.id) => NetworkExists(n.db, n.id)
  BY <1>3, <1>4, <1>6
<1>8. /\ Room(m.db.places) /\ Room(m.db.sessions) /\ Room(n.db.places) /\ Room(n.db.sessions)
  BY <1>1, <1>3, <1>4 DEF OnlyNets
<1>9. CASE Action(kept, choice) = "skip"
  BY <1>2, <1>5, <1>9
<1>10. CASE Action(kept, choice) = "insert"
  <2>1. NetworkExists(m.db, m.id)
    BY <1>1, <1>2, <1>3, <1>5, <1>6, <1>8, <1>10, InsertedAdds
  <2>2. NetworkExists(n.db, n.id)
    BY <1>7, <2>1
  <2>3. Recorded(after, row.key)
    BY <1>1, <1>4, <1>5, <1>8, <1>10, <2>2, InsertedAdds
  <2> QED BY <2>3 DEF after, row
<1>11. CASE Action(kept, choice) = "update"
  <2> DEFINE i == kept.matched
  <2>1. NetworkExists(m.db, m.id) /\ i \in Stored(m.db.sessions)
    <3> DEFINE old == m.db
               id == m.id
    <3>1. Sane(old) /\ id \in OrNull(NetId)
      BY <1>3
    <3> HIDE DEF old, id, i
    <3>2. (NetworkExists(old, id) /\ i \in Stored(old.sessions)) \/ Updated(old, row, id, i) = old
      BY <1>1, <3>1, UpdatedGrows
    <3>3. (NetworkExists(m.db, m.id) /\ i \in Stored(m.db.sessions)) \/ Updated(m.db, row, m.id, i) = m.db
      BY <3>2 DEF old, id
    <3> QED BY <1>2, <1>5, <1>6, <1>11, <3>3 DEF i
  <2>2. NetworkExists(n.db, n.id)
    BY <1>7, <2>1
  <2>3. kept.matched \in Stored(n.db.sessions)
    BY <1>3, <1>4, <2>1 DEF OnlyNets, Grows
  <2>4. Recorded(after, row.key)
    <3>1. NetworkExists(n.db, n.id) /\ i \in Stored(n.db.sessions) =>
            Recorded(Updated(n.db, row, n.id, i), row.key)
      BY <1>1, <1>4, UpdatedGrows
    <3> QED BY <1>5, <1>11, <2>2, <2>3, <3>1
  <2> QED BY <2>4 DEF after, row
<1> QED BY <1>1, <1>9, <1>10, <1>11

\* Only what a row overwrites has another key by now.
OnlyOverwritten(d, e, rows, choices, n) ==
    \A j \in Stored(d.sessions) : e.sessions[j].key # d.sessions[j].key =>
        \E k \in 1 .. n : j \in Overwrites(rows[k], choices[k])

\* No two rows overwrite one session, and none a session that is not there.
NoneOverwritten(d, rows, choices) ==
    \A k \in Rows : /\ Overwrites(rows[k], choices[k]) \subseteq Stored(d.sessions)
                    /\ \A m \in Rows \ {k} :
                        Overwrites(rows[k], choices[k]) \cap Overwrites(rows[m], choices[m]) = {}

LEMMA NextRowKeepsIt ==
    ASSUME NEW d, NEW old, NEW new, NEW rows, NEW choices, NEW n \in Rows, NEW key,
           NoneOverwritten(d, rows, choices), ~Recorded(d, key),
           OnlyOverwritten(d, old, rows, choices, n - 1),
           KeysStay(old, new, Overwrites(rows[n], choices[n])), Recorded(old, key)
    PROVE  Recorded(new, key)
<1>1. PICK j \in Stored(old.sessions) : old.sessions[j].key = key
  BY DEF Recorded
<1>2. j \notin Overwrites(rows[n], choices[n])
  <2> SUFFICES ASSUME j \in Overwrites(rows[n], choices[n]) PROVE FALSE
    OBVIOUS
  <2>1. j \in Stored(d.sessions) /\ d.sessions[j].key # key
    BY DEF NoneOverwritten, Recorded
  <2>2. PICK k \in 1 .. n - 1 : j \in Overwrites(rows[k], choices[k])
    BY <1>1, <2>1 DEF OnlyOverwritten
  <2>3. k \in Rows \ {n}
    BY <2>2, ImportAssumption DEF Rows
  <2> QED BY <2>2, <2>3 DEF NoneOverwritten
<1>3. j \in Stored(new.sessions) /\ new.sessions[j].key = key
  BY <1>1, <1>2 DEF KeysStay
<1> QED BY <1>3 DEF Recorded

\* What one row alone would store is stored when all are sent.
LEMMA AllRowsAreStored ==
    ASSUME NEW d, Sane(d), NEW rows \in [Rows -> KeptRow], NEW choices \in [Rows -> Sent],
           \A n \in 0 .. Len(File) - 1 : RoomIn(Partial(d, rows, choices)[n].db),
           \A k \in Rows : ~Aborts(d, rows[k], choices[k]),
           NoneOverwritten(d, rows, choices), NEW i \in Rows,
           ~Recorded(d, rows[i].row.key),
           Recorded(ImportedRow(d, rows[i], choices[i]), rows[i].row.key)
    PROVE  Recorded(Imported(d, rows, choices), rows[i].row.key)
<1> DEFINE L == Len(File)
           key == rows[i].row.key
           p == Partial(d, rows, choices)
           Fine(n) == /\ Accumulates(p[n]) /\ ~p[n].failed
                      /\ Sane(p[n].db) /\ Grows(d, p[n].db) /\ NamesStayClear(d, p[n].db)
           Others(n) == OnlyOverwritten(d, p[n].db, rows, choices, n)
           Has(n) == n >= i => Recorded(p[n].db, key)
           Good(n) == Fine(n) /\ Others(n) /\ Has(n)
           bad == {n \in 0 .. L : ~Good(n)}
<1>1. L \in Nat /\ Rows = 1 .. L /\ i \in 1 .. L
  BY ImportAssumption DEF Rows
<1>2. p[0] = [db |-> d, failed |-> FALSE] /\ \A n \in 1 .. L : p[n] = Step(p[n - 1], rows[n], choices[n])
  BY PartialSteps
<1>3. \A n \in 0 .. L - 1 : RoomIn(p[n].db)
  OBVIOUS
<1>4. ~Recorded(d, key) /\ Recorded(ImportedRow(d, rows[i], choices[i]), key)
  OBVIOUS
<1>5. Imported(d, rows, choices) = IF p[L].failed THEN d ELSE p[L].db
  BY DEF Imported
<1> HIDE DEF L, p
<1>6. Good(0)
  BY <1>1, <1>2, AddsNothing, AddingGrows DEF Accumulates, NamesStayClear, OnlyOverwritten
<1>7. ASSUME NEW n \in 1 .. L, Good(n - 1)
      PROVE  Good(n)
  <2> DEFINE a == p[n - 1]
             b == p[n]
             kept == rows[n]
             choice == choices[n]
  <2>1. RoomIn(a.db) /\ kept \in KeptRow /\ choice \in Sent /\ b = Step(a, kept, choice) /\ n \in Rows
    BY <1>1, <1>2, <1>3
  <2>2. /\ Accumulates(a) /\ ~a.failed /\ Sane(a.db) /\ Grows(d, a.db) /\ NamesStayClear(d, a.db)
        /\ OnlyOverwritten(d, a.db, rows, choices, n - 1)
        /\ n - 1 >= i => Recorded(a.db, key)
    BY <1>7
  <2>3. ~Aborts(d, kept, choice)
    BY <2>1
  <2> HIDE DEF a, b, kept, choice
  <2>4. ~Aborts(a.db, kept, choice)
    BY <2>2, <2>3 DEF Aborts, NamesStayClear
  <2>5. b.db = ImportedRow(a.db, kept, choice) /\ ~b.failed
    BY <2>1, <2>2, <2>4 DEF Step, Accumulates
  <2>6. Accumulates(b) /\ Sane(b.db) /\ Grows(a.db, b.db)
    BY <2>1, <2>2, StepGrows
  <2>7. KeysStay(a.db, b.db, Overwrites(kept, choice)) /\ NamesStayClear(a.db, b.db)
    BY <2>1, <2>2, <2>5, RowKeepsOthers
  <2>8. Grows(d, b.db) /\ NamesStayClear(d, b.db)
    BY <2>2, <2>6, <2>7, GrowsTwice DEF NamesStayClear
  <2>9. Fine(n)
    BY <2>5, <2>6, <2>8 DEF b
  <2>10. \A j \in Stored(d.sessions) : j \in Stored(a.db.sessions)
    BY <2>2 DEF Grows
  <2>11. OnlyOverwritten(d, b.db, rows, choices, n)
    <3> SUFFICES ASSUME NEW j \in Stored(d.sessions), b.db.sessions[j].key # d.sessions[j].key
                 PROVE  \E k \in 1 .. n : j \in Overwrites(rows[k], choices[k])
      BY DEF OnlyOverwritten
    <3>1. CASE a.db.sessions[j].key # d.sessions[j].key
      <4>1. PICK k \in 1 .. n - 1 : j \in Overwrites(rows[k], choices[k])
        BY <2>2, <3>1 DEF OnlyOverwritten
      <4> QED BY <4>1
    <3>2. CASE a.db.sessions[j].key = d.sessions[j].key
      <4>1. j \in Overwrites(kept, choice)
        BY <2>7, <2>10, <3>2 DEF KeysStay
      <4> QED BY <1>1, <2>1, <4>1 DEF kept, choice
    <3> QED BY <3>1, <3>2
  <2>12. Has(n)
    <3>1. CASE n < i
      BY <1>1, <3>1
    <3>2. CASE n = i
      <4>1. kept = rows[i] /\ choice = choices[i] /\ key = kept.row.key
        BY <3>2 DEF kept, choice
      <4>2. RoomIn(d)
        BY <1>1, <1>2, <1>3
      <4> HIDE DEF key
      <4>3. Recorded(ImportedRow(a.db, kept, choice), key)
        BY <1>4, <2>1, <2>2, <4>1, <4>2, RowIsStored
      <4> QED BY <2>5, <4>3 DEF b
    <3>3. CASE n > i
      <4>1. Recorded(a.db, key)
        BY <1>1, <2>2, <3>3
      <4>2. KeysStay(a.db, b.db, Overwrites(rows[n], choices[n]))
        BY <2>7 DEF kept, choice
      <4> HIDE DEF key
      <4>3. Recorded(b.db, key)
        BY <1>4, <2>1, <2>2, <2>10, <4>1, <4>2, NextRowKeepsIt
      <4> QED BY <4>3 DEF b
    <3> QED BY <1>1, <3>1, <3>2, <3>3
  <2> HIDE DEF Fine, Has
  <2> QED BY <2>9, <2>11, <2>12 DEF b
<1> HIDE DEF Good
<1>8. bad = {}
  <2> SUFFICES ASSUME bad # {} PROVE FALSE
    OBVIOUS
  <2>1. bad \subseteq 0 .. L /\ IsFiniteSet(0 .. L) /\ bad \subseteq Int
    BY <1>1, FS_Interval
  <2> HIDE DEF bad
  <2>2. IsFiniteSet(bad)
    BY <2>1, FS_Subset
  <2>3. PICK n \in bad : \A k \in bad : n <= k
    BY <2>1, <2>2, LeastIsOne
  <2>4. n \in 0 .. L /\ ~Good(n)
    BY <2>3 DEF bad
  <2>5. n # 0
    BY <1>6, <2>4
  <2>6. n - 1 \in 0 .. L /\ n - 1 \notin bad /\ n \in 1 .. L
    BY <1>1, <2>3, <2>4, <2>5
  <2>7. Good(n - 1)
    BY <2>6 DEF bad
  <2> QED BY <1>7, <2>4, <2>6, <2>7
<1>9. Good(L)
  BY <1>1, <1>8
<1>10. ~p[L].failed /\ Recorded(p[L].db, key)
  BY <1>1, <1>9 DEF Good
<1> QED BY <1>5, <1>10

\* A row that is sent alone is imported into the database as it is.
LEMMA AloneIsOneRow ==
    ASSUME NEW d, NEW rows, NEW choices, NEW i \in Rows, ~Aborts(d, rows[i], choices[i])
    PROVE  Imported(d, rows, Alone(i, choices)) = ImportedRow(d, rows[i], choices[i])
<1> DEFINE L == Len(File)
           only == Alone(i, choices)
           q == Partial(d, rows, only)
           one == ImportedRow(d, rows[i], choices[i])
           Good(n) == /\ n < i => q[n] = [db |-> d, failed |-> FALSE]
                      /\ n >= i => q[n] = [db |-> one, failed |-> FALSE]
           bad == {n \in 0 .. L : ~Good(n)}
<1>1. L \in Nat /\ Rows = 1 .. L /\ i \in 1 .. L
  BY ImportAssumption DEF Rows
<1>2. q[0] = [db |-> d, failed |-> FALSE] /\ \A n \in 1 .. L : q[n] = Step(q[n - 1], rows[n], only[n])
  BY PartialSteps
<1>3. \A n \in 1 .. L : only[n] = IF n = i THEN choices[i] ELSE "skip"
  BY <1>1 DEF Alone
<1>4. Imported(d, rows, only) = IF q[L].failed THEN d ELSE q[L].db
  BY DEF Imported
<1> HIDE DEF L, q, only, one
<1>5. Good(0)
  BY <1>1, <1>2
<1>6. ASSUME NEW n \in 1 .. L, Good(n - 1)
      PROVE  Good(n)
  <2> DEFINE a == q[n - 1]
  <2>1. CASE n = i
    <3>1. a = [db |-> d, failed |-> FALSE] /\ q[n] = Step(a, rows[i], choices[i])
      BY <1>1, <1>2, <1>3, <1>6, <2>1
    <3> HIDE DEF a
    <3>2. q[n] = [db |-> one, failed |-> FALSE]
      BY <3>1 DEF Step, one
    <3> QED BY <1>1, <2>1, <3>2
  <2>2. CASE n # i
    <3>1. q[n] = Step(a, rows[n], "skip") /\ (n - 1 < i <=> n < i)
      BY <1>1, <1>2, <1>3, <2>2
    <3>2. /\ n < i => a = [db |-> d, failed |-> FALSE]
          /\ n >= i => a = [db |-> one, failed |-> FALSE]
      BY <1>1, <1>6, <2>2, <3>1
    <3> HIDE DEF a
    <3>3. Action(rows[n], "skip") = "skip"
      BY ImportAssumption DEF Action
    <3>4. ~Aborts(a.db, rows[n], "skip") /\ ImportedRow(a.db, rows[n], "skip") = a.db
      BY <3>3 DEF Aborts, ImportedRow
    <3>5. a = [db |-> a.db, failed |-> FALSE]
      BY <1>1, <3>2
    <3>6. q[n] = a
      BY <3>1, <3>4, <3>5 DEF Step
    <3> QED BY <3>2, <3>6
  <2> QED BY <2>1, <2>2
<1> HIDE DEF Good
<1>7. bad = {}
  <2> SUFFICES ASSUME bad # {} PROVE FALSE
    OBVIOUS
  <2>1. bad \subseteq 0 .. L /\ IsFiniteSet(0 .. L) /\ bad \subseteq Int
    BY <1>1, FS_Interval
  <2> HIDE DEF bad
  <2>2. IsFiniteSet(bad)
    BY <2>1, FS_Subset
  <2>3. PICK n \in bad : \A k \in bad : n <= k
    BY <2>1, <2>2, LeastIsOne
  <2>4. n \in 0 .. L /\ ~Good(n)
    BY <2>3 DEF bad
  <2>5. n # 0
    BY <1>5, <2>4
  <2>6. n - 1 \in 0 .. L /\ n - 1 \notin bad /\ n \in 1 .. L
    BY <1>1, <2>3, <2>4, <2>5
  <2>7. Good(n - 1)
    BY <2>6 DEF bad
  <2> QED BY <1>6, <2>4, <2>6, <2>7
<1>8. Good(L)
  BY <1>1, <1>7
<1>9. q[L] = [db |-> one, failed |-> FALSE]
  BY <1>1, <1>8 DEF Good
<1> QED BY <1>4, <1>9 DEF one, only

-----------------------------------------------------------------------------
(***************************************************************************)
(* The page.                                                               *)
(***************************************************************************)
LEMMA DetectedShows ==
    ASSUME NEW d, Sane(d), NEW row
    PROVE  Detected(d, row).status \in Status /\ Detected(d, row).matched \in OrNull(SessionId)
<1> DEFINE like == {i \in Stored(d.sessions) : Resembles(row, d.sessions[i])}
<1>1. like \subseteq SessionId
  BY Tables DEF Sane
<1> HIDE DEF like
<1>2. Detected(d, row) \in {[status |-> "error", matched |-> Null], [status |-> "duplicate", matched |-> Null],
                            [status |-> "new", matched |-> Null]}
      \/ (like # {} /\ Detected(d, row) = [status |-> "fuzzy", matched |-> Least(like)])
  BY DEF Detected, like
<1>3. like # {} => Least(like) \in SessionId
  BY <1>1, PrimaryKeys, LeastStored
<1> QED BY <1>2, <1>3 DEF Status, OrNull

LEMMA KeptIsRow ==
    ASSUME NEW d, Sane(d), NEW i \in Rows
    PROVE  Kept(d, File[i]) \in KeptRow
<1> DEFINE parsed == Parsed(File[i])
           found == Detected(d, parsed)
<1>1. File[i] \in Line /\ KeyOf(File[i]) \in Key
  BY ImportAssumption DEF Rows
<1>2. parsed \in ParsedLine
  BY <1>1 DEF Parsed, Line, ParsedLine
<1> HIDE DEF parsed
<1>3. found.status \in Status /\ found.matched \in OrNull(SessionId)
  BY DetectedShows
<1> HIDE DEF found
<1>4. Kept(d, File[i]) = [row |-> parsed, status |-> found.status, matched |-> found.matched]
  BY DEF Kept, found, parsed
<1> QED BY <1>2, <1>3, <1>4 DEF KeptRow

LEMMA PreviewIsPage ==
    ASSUME NEW d, Sane(d)
    PROVE  Preview(d) \in Page
<1> DEFINE kept == [i \in Rows |-> Kept(d, File[i])]
<1>1. kept \in [Rows -> KeptRow]
  BY KeptIsRow
<1> HIDE DEF kept
<1>2. Preview(d) = [kept |-> kept, shown |-> [i \in DOMAIN kept |-> kept[i].status]]
  BY DEF Preview, kept
<1>3. [i \in DOMAIN kept |-> kept[i].status] \in [Rows -> Status]
  BY <1>1 DEF KeptRow
<1> QED BY <1>1, <1>2, <1>3 DEF Page, KeptRow

LEMMA PageStep ==
    ASSUME PlacesTypeOK,
           \/ Uploads \/ Executions \/ Leaves
           \/ \E i \in Rows : \E edition \in Editions : EditsInline(i, edition)
           \/ \E chosen \in SUBSET Rows : \E network \in Nets \cup Name : \E name \in Name :
                  EditsImportInBulk(chosen, network, name)
    PROVE  page' \in OrNull(Page)
<1>1. Sane(db) /\ page \in OrNull(Page)
  BY DEF PlacesTypeOK, Sane
<1>2. CASE Uploads
  BY <1>1, <1>2, PreviewIsPage DEF Uploads, OrNull
<1>3. CASE Executions \/ Leaves
  BY <1>1, <1>3 DEF Executions, Executes, Leaves, OrNull
<1>4. CASE \E i \in Rows : \E edition \in Editions : EditsInline(i, edition)
  <2>1. PICK i \in Rows : \E edition \in Editions : EditsInline(i, edition)
    BY <1>4
  <2>2. PICK edition \in Editions : EditsInline(i, edition)
    BY <2>1
  <2> DEFINE status == Kept(db, edition).status
  <2>3. status \in Status
    <3>1. Detected(db, Parsed(edition)).status \in Status
      BY <1>1, DetectedShows
    <3> QED BY <3>1 DEF Kept
  <2>4. page \in Page /\ page' = [page EXCEPT !.shown[i] = status]
    BY <1>1, <2>2 DEF EditsInline, OrNull
  <2> HIDE DEF status
  <2> QED BY <2>3, <2>4 DEF Page, OrNull
<1>5. CASE \E chosen \in SUBSET Rows : \E network \in Nets \cup Name : \E name \in Name :
              EditsImportInBulk(chosen, network, name)
  <2>1. PICK chosen \in SUBSET Rows : \E network \in Nets \cup Name : \E name \in Name :
              EditsImportInBulk(chosen, network, name)
    BY <1>5
  <2>2. PICK network \in Nets \cup Name : \E name \in Name : EditsImportInBulk(chosen, network, name)
    BY <2>1
  <2>3. PICK name \in Name : EditsImportInBulk(chosen, network, name)
    BY <2>2
  <2> DEFINE edited(k) == [k EXCEPT !.row.network = network, !.row.name = name]
             kept == [i \in DOMAIN page.kept |-> IF i \in chosen THEN edited(page.kept[i]) ELSE page.kept[i]]
  <2>4. page \in Page /\ page' = [page EXCEPT !.kept = kept]
    BY <1>1, <2>3 DEF EditsImportInBulk, OrNull
  <2>5. network \in NetId \cup OrNull(Name)
    BY <1>1, Tables DEF Sane, Nets, OrNull
  <2>6. ASSUME NEW k \in KeptRow
        PROVE  edited(k) \in KeptRow
    BY <2>5 DEF KeptRow, ParsedLine, OrNull
  <2> HIDE DEF edited
  <2>7. page.kept \in [Rows -> KeptRow] /\ page.shown \in [Rows -> Status]
    BY <2>4 DEF Page, KeptRow
  <2>8. kept \in [Rows -> KeptRow]
    BY <2>6, <2>7
  <2> HIDE DEF kept
  <2> QED BY <2>4, <2>7, <2>8 DEF Page, KeptRow, OrNull
<1> QED BY <1>2, <1>3, <1>4, <1>5

\* An import, if it begins, only adds, and clears a session only by a row without a network.
LEMMA ExecutionStep ==
    ASSUME PlacesTypeOK, Executions
    PROVE  SafeStep /\ Grows(db, db') /\ Spends
<1>1. PICK choices \in Replies : Executes(choices)
  BY DEF Executions
<1>2. /\ db' = Imported(db, page.kept, choices) /\ page \in Page /\ Sane(db) /\ Spends
      /\ \A n \in 0 .. Len(File) - 1 : RoomIn(Partial(db, page.kept, choices)[n].db)
  BY <1>1 DEF Executes, Commits, Spends, PlacesTypeOK, Sane, OrNull
<1>3. page.kept \in [Rows -> KeptRow]
  BY <1>2 DEF Page, KeptRow
<1>4. choices \in [Rows -> Sent]
  BY DEF Replies, Sent
<1>5. Sane(db') /\ Grows(db, db') /\ OnlyCleared(db, db', page.kept, choices, Len(File))
  BY <1>2, <1>3, <1>4, ImportedGrows
<1>6. ASSUME NEW i \in SessionId, Loses(i)
      PROVE  Clears(i)
  <2>1. PICK k \in Rows : i \in Overwrites(page.kept[k], choices[k]) /\ page.kept[k].row.network = Null
    BY <1>5, <1>6 DEF OnlyCleared, Loses, Rows
  <2>2. Target(k, choices) = i
    BY <2>1 DEF Overwrites, Target
  <2> QED BY <1>1, <2>1, <2>2 DEF Clears
<1>7. SafeStep
  BY <1>5, <1>6 DEF SafeStep, Grows, Sessions
<1> QED BY <1>2, <1>5, <1>7

LEMMA ImportStep ==
    ASSUME PlacesTypeOK, [ImportNext]_importVars
    PROVE  PlacesTypeOK' /\ (UNCHANGED db \/ SafeStep)
<1>1. StateOK /\ page \in OrNull(Page) /\ MaxSteps \in Nat
  BY PlacesAssumption DEF PlacesTypeOK, StateOK, Sane
<1>2. StateOK' /\ (page' \in OrNull(Page)) => PlacesTypeOK'
  BY DEF PlacesTypeOK, StateOK, Sane
<1>3. CASE Next /\ UNCHANGED page
  BY <1>1, <1>2, <1>3, NextKeepsState
<1>4. CASE Executions
  <2>1. SafeStep /\ Spends
    BY <1>4, ExecutionStep
  <2>2. StateOK'
    BY <1>1, <2>1 DEF StateOK, Spends, SafeStep
  <2> QED BY <1>2, <1>4, <2>1, <2>2, PageStep
<1>5. CASE Pages /\ ~Executions
  <2>1. Acts
    BY <1>5 DEF Pages, Uploads, Leaves, EditsInline, EditsImportInBulk
  <2>2. StateOK'
    BY <1>1, <2>1 DEF StateOK, Acts, Sane
  <2>3. page' \in OrNull(Page)
    BY <1>5, PageStep DEF Pages
  <2> QED BY <1>2, <2>1, <2>2, <2>3 DEF Acts
<1>6. CASE UNCHANGED importVars
  BY <1>1, <1>2, <1>6 DEF importVars, vars, StateOK
<1> QED BY <1>3, <1>4, <1>5, <1>6 DEF ImportNext

-----------------------------------------------------------------------------
(***************************************************************************)
(* The theorems.                                                           *)
(***************************************************************************)
LEMMA ImportStarts == ImportInit => PlacesTypeOK
<1> SUFFICES ASSUME ImportInit PROVE PlacesTypeOK
  OBVIOUS
<1>1. Sane(db) /\ MaxSteps \in Nat
  BY PlacesAssumption DEF ImportInit, Init, Sane
<1>2. Preview(db) \in Page
  BY <1>1, PreviewIsPage
<1> QED BY <1>1, <1>2 DEF PlacesTypeOK, Sane, ImportInit, Init, OrNull

\* The database stays consistent, for every file, every set of networks, locations,
\* stalls and sessions and every table of reports: whatever is merged, converted,
\* deleted, edited or imported in whatever order, a declared reference has its row and
\* no two sessions have one key (db/models/reference.py, csv_parser.py:import_rows).
THEOREM PlacesTypeCorrect == ImportSpec => []PlacesTypeOK
<1>1. PlacesTypeOK /\ [ImportNext]_importVars => PlacesTypeOK'
  BY ImportStep
<1> QED BY ImportStarts, <1>1, PTL DEF ImportSpec

\* No merge, no conversion, no charge heard and no edit of one session takes a network
\* away from any.  The user does, by deleting that network or clearing the sessions'; and
\* an import does to the very sessions the user has chosen to update with a row that has
\* no network, to no other, whatever rows fail and whatever keys are reused
\* (merge_network, convert_network_to_location, session_bulk_edit, import_rows).
THEOREM NetworksAreKept == ImportSpec => SessionsKeepNetwork
<1> DEFINE Keep == \A i \in SessionId : Loses(i) =>
        \/ DeletesNetwork(db.sessions[i].network)
        \/ \E place \in Locations \cup {Null} : \E cost \in {Null, 7} : EditsInBulk(Sessions, Null, place, cost)
        \/ Clears(i)
<1>1. ASSUME PlacesTypeOK, [ImportNext]_importVars
      PROVE  Keep
  <2>1. CASE UNCHANGED db
    BY <2>1 DEF Loses
  <2>2. CASE SafeStep
    BY <2>2 DEF SafeStep
  <2> QED BY <1>1, <2>1, <2>2, ImportStep
<1>2. PlacesTypeOK /\ [ImportNext]_importVars => [Keep]_importVars
  BY <1>1
<1> QED BY <1>2, PlacesTypeCorrect, PTL DEF ImportSpec, SessionsKeepNetwork

\* No edit of the periods gives a day two rates; a merge of two networks may
\* (validate_no_overlap, _activate_subscription, merge_network).
THEOREM RatesAreUnique == ImportSpec => OneRatePerDay
<1> DEFINE Unique == db'.periods # db.periods /\ OneRate(db) /\ ~OneRate(db') =>
                        \E n, m \in Nets : MergesNetwork(n, m)
<1>1. ASSUME PlacesTypeOK, [ImportNext]_importVars
      PROVE  Unique
  <2>1. CASE UNCHANGED db
    BY <2>1
  <2>2. CASE SafeStep
    BY <2>2 DEF SafeStep
  <2> QED BY <1>1, <2>1, <2>2, ImportStep
<1>2. PlacesTypeOK /\ [ImportNext]_importVars => [Unique]_importVars
  BY <1>1
<1> QED BY <1>2, PlacesTypeCorrect, PTL DEF ImportSpec, OneRatePerDay

\* What ingestion or an import of any file does to networks and locations: approved rows
\* stay, the others only gain what they lack, names lead where they led, and nothing is
\* approved that the user has not (resolve_location, resolve_network, import_rows).
THEOREM IngestionAdds == ImportSpec => IngestionOnlyAdds
<1> DEFINE Kind ==
        /\ \A p \in Stored(db.places) : OnlyFills(db.places[p], db'.places[p])
        /\ Approved(db'.places) = Approved(db.places) /\ Approved(db'.nets) = Approved(db.nets)
        /\ \A name \in Name : Known(db, name) # Null =>
            Known(db', name) = Known(db, name) /\ Named(db', name) = Named(db, name)
<1> DEFINE Gentle == (db'.places # db.places \/ db'.nets # db.nets) /\ Ingests => Kind
<1>1. ASSUME PlacesTypeOK, Ingests
      PROVE  Kind
  <2>1. Grows(db, db')
    <3>1. Sane(db)
      BY <1>1 DEF PlacesTypeOK, Sane
    <3> QED BY <1>1, <3>1, ChargesStep, AddingGrows, ExecutionStep DEF Ingests
  <2> QED BY <2>1 DEF Grows, NetworksStay, PlacesStay
<1>2. PlacesTypeOK => [Gentle]_importVars
  BY <1>1
<1> QED BY <1>2, PlacesTypeCorrect, PTL DEF ImportSpec, IngestionOnlyAdds

\* The Review Queue shows every network and every location, and counts them, but for the
\* locations approved while their network waits (_networks_context, _locations_context,
\* _approved_tree_context, review_queue).
LEMMA ShownIsAll ==
    ASSUME PlacesTypeOK
    PROVE  ReviewShowsAll
<1> DEFINE seen == {p \in Approved(db.places) : db.places[p].network \in Approved(db.nets) \cup {Null}}
<1>1. /\ db.nets \in [NetId -> NetworkRow \cup {NoRow}] /\ db.places \in [PlaceId -> PlaceRow \cup {NoRow}]
      /\ PlacesRefer(db) /\ IsFiniteSet(NetId) /\ IsFiniteSet(PlaceId)
  BY Tables, PrimaryKeys DEF PlacesTypeOK, Sane, Ids, Consistent
<1>2. DOMAIN NetworkTab(db) = Pending(db.nets) /\ DOMAIN LocationTab(db) = Pending(db.places)
  BY DEF NetworkTab, LocationTab
<1>3. /\ Tree(db).under = [n \in Approved(db.nets) |-> Approved(db.places) \cap OfNetwork(db.places, n)]
      /\ Tree(db).standalone = Approved(db.places) \cap OfNetwork(db.places, Null)
  BY DEF Tree
<1>4. DOMAIN Tree(db).under = Approved(db.nets)
  BY <1>3
<1>5. InTree(db) = seen
  <2>1. \A n \in Approved(db.nets) : Tree(db).under[n] = Approved(db.places) \cap OfNetwork(db.places, n)
    BY <1>3
  <2>2. Approved(db.places) \subseteq Stored(db.places)
    BY DEF Approved
  <2> QED BY <1>3, <1>4, <2>1, <2>2 DEF InTree, OfNetwork
<1>6. Pending(db.nets) \cup Approved(db.nets) = Nets /\ Pending(db.places) \cup Approved(db.places) = Locations
  BY DEF Pending, Approved, Nets, Locations
<1>7. Pending(db.places) \cap Approved(db.places) = {} /\ Unseen(db) \subseteq Approved(db.places)
  BY DEF Pending, Approved, Unseen
<1>8. seen \cup Unseen(db) = Approved(db.places) /\ seen \cap Unseen(db) = {}
  <2>1. \A p \in Approved(db.places) : db.places[p].network \in Pending(db.nets) \cup Approved(db.nets) \cup {Null}
    BY <1>1, <1>6 DEF PlacesRefer, Refers, Approved, Nets
  <2>2. Pending(db.nets) \cap Approved(db.nets) = {} /\ Null \notin Pending(db.nets)
    <3>1. Pending(db.nets) \subseteq NetId
      BY <1>1 DEF Pending, Stored
    <3> QED BY <3>1, ValuesAreNotNull DEF Pending, Approved
  <2> QED BY <2>1, <2>2 DEF Unseen
<1>9. IsFiniteSet(seen) /\ IsFiniteSet(Unseen(db))
  <2>1. seen \subseteq PlaceId /\ Unseen(db) \subseteq PlaceId
    BY <1>1 DEF Approved, Stored, Unseen
  <2> HIDE DEF seen
  <2> QED BY <1>1, <2>1, FS_Subset
<1> HIDE DEF seen
<1>10. Cardinality(Approved(db.places)) = Cardinality(seen) + Cardinality(Unseen(db))
  BY <1>8, <1>9, CountsAdd
<1>11. /\ Cardinality(Approved(db.nets)) \in Nat /\ Cardinality(seen) \in Nat
       /\ Cardinality(Unseen(db)) \in Nat
  <2>1. IsFiniteSet(Approved(db.nets))
    <3>1. Approved(db.nets) \subseteq NetId
      BY <1>1 DEF Approved, Stored
    <3> QED BY <1>1, <3>1, FS_Subset
  <2> QED BY <1>9, <2>1, FS_CardinalityType
<1>12. /\ Badges(db).pending = Cardinality(Pending(db.nets)) + Cardinality(Pending(db.places))
       /\ Badges(db).approved = Cardinality(Approved(db.nets)) + Cardinality(Approved(db.places))
  BY DEF Badges
<1>13. Pending(db.places) \cup seen = Locations \ Unseen(db)
  BY <1>6, <1>7, <1>8
<1> QED BY <1>2, <1>4, <1>5, <1>6, <1>10, <1>11, <1>12, <1>13 DEF ReviewShowsAll

\* Nothing is left out of the Review Queue in any state, for any tables.
THEOREM EverythingIsShown == ImportSpec => []ReviewShowsAll
<1>1. PlacesTypeOK => ReviewShowsAll
  BY ShownIsAll
<1> QED BY <1>1, PlacesTypeCorrect, PTL

\* A merge adds to its target, in every table, exactly what its preview has counted, for
\* any number of rows; and only the user takes a session away (network_merge_preview,
\* location_merge_preview, merge_network, merge_location).
THEOREM PreviewsAreRight == ImportSpec => MergesAsPreviewed
<1> DEFINE Counted ==
        /\ \A n, m \in Nets : MergesNetwork(n, m) =>
             NetworkPreview(db', m) = Both(NetworkPreview(db, n), NetworkPreview(db, m))
        /\ \A p, q \in Locations : MergesPlace(p, q) =>
             PlacePreview(db', q) = Both(PlacePreview(db, p), PlacePreview(db, q))
        /\ \A i \in Sessions : i \in Stored(db'.sessions) \/ DeletesSession(i)
<1>1. ASSUME PlacesTypeOK, [ImportNext]_importVars
      PROVE  Counted
  <2>1. Sane(db)
    BY <1>1 DEF PlacesTypeOK, Sane
  <2>2. ASSUME NEW n \in Nets, NEW m \in Nets, MergesNetwork(n, m)
        PROVE  NetworkPreview(db', m) = Both(NetworkPreview(db, n), NetworkPreview(db, m))
    BY <2>1, <2>2, NetworkMergeCounts DEF MergesNetwork, Commits, Nets
  <2>3. ASSUME NEW p \in Locations, NEW q \in Locations, MergesPlace(p, q)
        PROVE  PlacePreview(db', q) = Both(PlacePreview(db, p), PlacePreview(db, q))
    BY <2>1, <2>3, PlaceMergeCounts DEF MergesPlace, Commits, Locations
  <2>4. \A i \in Sessions : i \in Stored(db'.sessions) \/ DeletesSession(i)
    <3>1. CASE UNCHANGED db
      BY <3>1 DEF Sessions
    <3>2. CASE SafeStep
      BY <3>2 DEF SafeStep
    <3> QED BY <1>1, <3>1, <3>2, ImportStep
  <2> QED BY <2>2, <2>3, <2>4
<1>2. PlacesTypeOK /\ [ImportNext]_importVars => [Counted]_vars
  BY <1>1
<1> QED BY <1>2, PlacesTypeCorrect, PTL DEF ImportSpec, MergesAsPreviewed

\* One row that cannot be stored keeps no other out: for every file and every choice,
\* what a row would store if it were sent alone is stored when all are sent, whatever the
\* others make of networks and locations, and whichever of them fail (import_rows).
THEOREM RowsDoNotInterfere == ImportSpec => RowsAreIndependent
<1> DEFINE Sends(choices) ==
        /\ Executes(choices) /\ NoneInTheWay(choices)
        /\ \A i \in Rows : ~Aborts(db, page.kept[i], choices[i])
    Stores(i, choices) ==
        LET key == page.kept[i].row.key
            alone == Imported(db, page.kept, Alone(i, choices))
        IN  ~Recorded(db, key) /\ Recorded(alone, key) => Recorded(db', key)
    Independent == page # Null /\ page' = page /\ left' # left => \A choices \in Replies :
        Sends(choices) => \A i \in Rows : Stores(i, choices)
<1>1. ASSUME PlacesTypeOK, page # Null, NEW choices \in Replies, Sends(choices), NEW i \in Rows
      PROVE  Stores(i, choices)
  <2> DEFINE rows == page.kept
             key == rows[i].row.key
             alone == Imported(db, rows, Alone(i, choices))
  <2>1. /\ page \in Page /\ Sane(db) /\ choices \in [Rows -> Sent]
        /\ db' = Imported(db, rows, choices)
        /\ \A n \in 0 .. Len(File) - 1 : RoomIn(Partial(db, rows, choices)[n].db)
    BY <1>1 DEF Executes, Commits, PlacesTypeOK, Sane, OrNull, Replies, Sent
  <2>2. rows \in [Rows -> KeptRow]
    BY <2>1 DEF Page, KeptRow
  <2>3. \A k \in Rows : Overwrites(rows[k], choices[k]) = {Target(k, choices)} \ {Null}
    BY DEF Overwrites, Target
  <2>4. NoneOverwritten(db, rows, choices)
    <3> SUFFICES ASSUME NEW k \in Rows
                 PROVE  /\ Overwrites(rows[k], choices[k]) \subseteq Stored(db.sessions)
                        /\ \A m \in Rows \ {k} :
                            Overwrites(rows[k], choices[k]) \cap Overwrites(rows[m], choices[m]) = {}
      BY DEF NoneOverwritten
    <3> HIDE DEF rows
    <3>1. Target(k, choices) # Null =>
            /\ Target(k, choices) \in Stored(db.sessions)
            /\ \A m \in Rows \ {k} : Target(m, choices) # Target(k, choices)
      BY <1>1 DEF NoneInTheWay, Sessions
    <3> QED BY <2>3, <3>1
  <2>5. \A k \in Rows : ~Aborts(db, rows[k], choices[k])
    BY <1>1
  <2> HIDE DEF rows
  <2>6. alone = ImportedRow(db, rows[i], choices[i])
    BY <2>5, AloneIsOneRow
  <2> HIDE DEF alone
  <2>7. ~Recorded(db, key) /\ Recorded(alone, key) => Recorded(db', key)
    BY <1>1, <2>1, <2>2, <2>4, <2>5, <2>6, AllRowsAreStored
  <2> QED BY <2>7 DEF alone, rows
<1> HIDE DEF Sends, Stores
<1>2. PlacesTypeOK => [Independent]_importVars
  BY <1>1
<1>3. RowsAreIndependent <=> [][Independent]_importVars
  BY DEF RowsAreIndependent, Sends, Stores
<1> HIDE DEF Independent
<1> QED BY <1>2, <1>3, PlacesTypeCorrect, PTL DEF ImportSpec

-----------------------------------------------------------------------------
(***************************************************************************)
(* What charging cost.  Every cost is an amount, every page's total the    *)
(* sum of a function of the sessions, and the pages differ in the sessions *)
(* they take and the headings they put them under; the lemmas on sums do   *)
(* the rest.                                                               *)
(***************************************************************************)
LEMMA FiniteSessions ==
    ASSUME NEW d, Sane(d)
    PROVE  /\ IsFiniteSet(Stored(d.sessions))
           /\ \A i \in Stored(d.sessions) : d.sessions[i] \in SessionRow
           /\ \A i \in Stored(d.sessions) : Refers(d.sessions[i].network, d.nets)
<1>1. IsFiniteSet(SessionId)
  BY PrimaryKeys, KeysAreNumbers
<1>2. Stored(d.sessions) \subseteq SessionId
  BY Tables DEF Sane
<1> QED BY <1>1, <1>2, FS_Subset, Tables DEF Sane, Consistent, SessionsRefer

\* Of the periods that cover a day, one is the first, and one the last.
LEMMA PeriodsAreOrdered ==
    ASSUME NEW d, Sane(d), NEW s
    PROVE  /\ FirstActive(d, s) = Null \/ FirstActive(d, s) \in PeriodsOf(d, s)
           /\ LastActive(d, s) = Null \/ LastActive(d, s) \in PeriodsOf(d, s)
           /\ PeriodsOf(d, s) \subseteq d.periods /\ IsFiniteSet(PeriodsOf(d, s))
           /\ d.periods \subseteq PeriodRow
<1> DEFINE S == PeriodsOf(d, s)
           f == [p \in S |-> p.from]
<1>1. S \subseteq d.periods /\ IsFiniteSet(d.periods) /\ d.periods \subseteq PeriodRow
  BY Tables DEF Sane, PeriodsOf, Covering
<1>2. IsFiniteSet(S)
  BY <1>1, FS_Subset
<1>3. \A p \in S : f[p] \in Int /\ f[p] = p.from
  BY <1>1 DEF PeriodRow
<1>4. CASE S # {}
  <2>1. (\E p \in S : \A q \in S : f[p] <= f[q]) /\ (\E p \in S : \A q \in S : f[q] <= f[p])
    <3> HIDE DEF S, f
    <3> QED BY <1>2, <1>3, <1>4, FiniteHasLeast, FiniteHasGreatest
  <2>2. (\E p \in S : \A q \in S : p.from <= q.from) /\ (\E p \in S : \A q \in S : q.from <= p.from)
    BY <2>1, <1>3
  <2>3. Oldest(S) \in S /\ Newest(S) \in S
    BY <2>2, Zenon DEF Oldest, Newest
  <2> QED BY <1>1, <1>2, <2>3 DEF FirstActive, LastActive
<1>5. CASE S = {}
  BY <1>1, <1>2, <1>5 DEF FirstActive, LastActive
<1> QED BY <1>4, <1>5

LEMMA RatesAreAmounts ==
    ASSUME NEW d, Sane(d), NEW s \in SessionRow, Refers(s.network, d.nets)
    PROVE  /\ PlaceRate(d, s) \in Amount /\ NetworkRate(d, s) \in Amount /\ Number(s.energy) \in Amount
           /\ \A period \in PeriodRow \cup {Null} : MemberRate(d, s, period) \in Amount
           /\ s.cost # Null => s.cost \in Amount
<1>1. \A x \in OrNull(Amount) : Number(x) \in Amount
  BY AmountsAreNumbers DEF Number, OrNull
<1>2. PlaceRate(d, s) \in Amount
  <2>1. CASE s.place \in Stored(d.places)
    <3>1. d.places[s.place].rate \in OrNull(Amount)
      BY <2>1, Tables DEF Sane, PlaceRow
    <3> QED BY <1>1, <2>1, <3>1 DEF PlaceRate
  <2>2. CASE s.place \notin Stored(d.places)
    BY <2>2, AmountsAreNumbers DEF PlaceRate
  <2> QED BY <2>1, <2>2
<1>3. NetworkRate(d, s) \in Amount
  <2>1. CASE s.network # Null
    <3>1. d.nets[s.network].rate \in OrNull(Amount)
      BY <2>1, Tables DEF Sane, NetworkRow, Refers
    <3> QED BY <1>1, <2>1, <3>1 DEF NetworkRate
  <2>2. CASE s.network = Null
    BY <2>2, AmountsAreNumbers DEF NetworkRate
  <2> QED BY <2>1, <2>2
<1>4. \A period \in PeriodRow \cup {Null} : MemberRate(d, s, period) \in Amount
  BY <1>3 DEF MemberRate, PeriodRow
<1>5. s.energy \in OrNull(Amount) /\ (s.cost # Null => s.cost \in Amount)
  BY DEF SessionRow, OrNull
<1> QED BY <1>1, <1>2, <1>3, <1>4, <1>5

LEMMA DisplayIsAmount ==
    ASSUME NEW d, Sane(d), NEW s \in SessionRow, Refers(s.network, d.nets),
           NEW period \in PeriodRow \cup {Null}
    PROVE  DisplayCost(d, s, period) \in OrNull(Amount)
<1> DEFINE byPlace == Number(s.energy) * PlaceRate(d, s)
           byNetwork == Number(s.energy) * MemberRate(d, s, period)
<1>1. byPlace \in Amount /\ byNetwork \in Amount /\ 0 \in Amount /\ (s.cost # Null => s.cost \in Amount)
  BY RatesAreAmounts, AmountsAreNumbers
<1>2. DisplayCost(d, s, period) = IF s.free THEN 0
         ELSE IF s.cost # Null THEN s.cost
         ELSE IF NetworkIsFree(d, s) THEN 0
         ELSE IF PlaceRate(d, s) # 0 THEN byPlace
         ELSE IF NetworkRate(d, s) # 0 THEN byNetwork
         ELSE Null
  BY DEF DisplayCost
<1> HIDE DEF byPlace, byNetwork
<1> QED BY <1>1, <1>2 DEF OrNull

\* The network a name leads a legacy caller to.
LEMMA NamedNetworkIsThere ==
    ASSUME NEW d, Sane(d), NEW name
    PROVE  NamedNetwork(d, name) \in OrNull(NetId) /\ Refers(NamedNetwork(d, name), d.nets)
<1>1. CASE name = Null \/ Named(d, name) = {}
  BY <1>1 DEF NamedNetwork, OrNull, Refers
<1>2. CASE ~(name = Null \/ Named(d, name) = {})
  <2> DEFINE S == Named(d, name)
             f == [n \in S |-> n]
  <2>1. S \subseteq Stored(d.nets) /\ Stored(d.nets) \subseteq NetId
    BY Tables DEF Named, Sane
  <2>2. S \subseteq Int /\ IsFiniteSet(S) /\ S # {}
    BY <1>2, <2>1, PrimaryKeys, KeysAreNumbers, FS_Subset
  <2>3. \E x \in S : \A y \in S : y <= x
    <3> HIDE DEF S
    <3> QED BY <2>2, FiniteInts
  <2>4. Greatest(S) \in S
    BY <2>3, Zenon DEF Greatest
  <2> QED BY <1>2, <2>1, <2>4 DEF NamedNetwork, OrNull, Refers
<1> QED BY <1>1, <1>2

LEMMA CostsAreAmounts ==
    ASSUME NEW d, Sane(d), NEW i \in Stored(d.sessions)
    PROVE  /\ SummaryCost(d, i) \in OrNull(Amount) /\ PageCost(d, i) \in OrNull(Amount)
           /\ ListCost(d, i) \in OrNull(Amount) /\ NamedCost(d, i) \in OrNull(Amount)
<1> DEFINE s == d.sessions[i]
           named == [s EXCEPT !.network = NamedNetwork(d, s.name), !.place = Null]
<1>1. s \in SessionRow /\ Refers(s.network, d.nets)
  BY FiniteSessions
<1>2. FirstActive(d, s) \in PeriodRow \cup {Null} /\ LastActive(d, s) \in PeriodRow \cup {Null}
  BY PeriodsAreOrdered
<1>3. named \in SessionRow /\ Refers(named.network, d.nets)
  BY <1>1, NamedNetworkIsThere DEF SessionRow, OrNull
<1>4. NamedCost(d, i) = DisplayCost(d, named, Null)
  BY DEF NamedCost
<1> HIDE DEF named
<1>5. NamedCost(d, i) \in OrNull(Amount)
  BY <1>3, <1>4, DisplayIsAmount
<1> QED BY <1>1, <1>2, <1>5, DisplayIsAmount DEF SummaryCost, PageCost, ListCost

-----------------------------------------------------------------------------
(***************************************************************************)
(* The totals, as sums over the sessions.                                  *)
(***************************************************************************)
CostOf(d) == [i \in Stored(d.sessions) |-> SummaryCost(d, i)]
NamedOf(d) == [i \in Stored(d.sessions) |-> NamedCost(d, i)]
EnergyOf(d) == [i \in Stored(d.sessions) |-> Number(d.sessions[i].energy)]
SavedOf(d) == [i \in Stored(d.sessions) |-> Saved(d, i)]
WithoutOf(d) == [i \in Stored(d.sessions) |-> Without(d, i)]

LEMMA TotalIsSum ==
    ASSUME NEW d, Sane(d), NEW ids \in SUBSET Configured(d)
    PROVE  /\ TotalCost(d, ids) = SumOf(CostOf(d), ids) /\ TotalCost(d, ids) \in Int
           /\ IsFiniteSet(ids) /\ ids \subseteq Stored(d.sessions)
           /\ \A i \in ids : CostOf(d)[i] \in Amount /\ CostOf(d)[i] \in Int
                             /\ CostOf(d)[i] = SummaryCost(d, i)
<1> DEFINE f == [i \in ids |-> SummaryCost(d, i)]
<1>1. ids \subseteq Stored(d.sessions) /\ IsFiniteSet(ids)
  BY FiniteSessions, FS_Subset DEF Configured
<1>2. \A i \in ids : SummaryCost(d, i) \in Amount /\ SummaryCost(d, i) \in Int
  BY <1>1, CostsAreAmounts, AmountsAreNumbers DEF Configured, OrNull
<1>3. \A i \in ids : CostOf(d)[i] = SummaryCost(d, i)
  BY <1>1 DEF CostOf
<1>4. DOMAIN f = ids /\ \A i \in ids : f[i] \in Int /\ f[i] = CostOf(d)[i]
  BY <1>2, <1>3
<1>5. TotalCost(d, ids) = SumFunction(f)
  BY DEF TotalCost
<1> HIDE DEF f
<1>6. SumFunction(f) = SumOf(CostOf(d), ids)
  BY <1>1, <1>4, SumFrom
<1>7. SumOf(CostOf(d), ids) \in Int
  BY <1>1, <1>2, <1>3, SumTakes
<1> QED BY <1>1, <1>2, <1>3, <1>5, <1>6, <1>7

LEMMA NamedTotalIsSum ==
    ASSUME NEW d, Sane(d), NEW ids \in SUBSET Priceable(d)
    PROVE  /\ TotalNamed(d, ids) = SumOf(NamedOf(d), ids) /\ TotalNamed(d, ids) \in Int
           /\ IsFiniteSet(ids) /\ ids \subseteq Stored(d.sessions)
           /\ \A i \in ids : NamedOf(d)[i] \in Amount /\ NamedOf(d)[i] \in Int
                             /\ NamedOf(d)[i] = NamedCost(d, i)
<1> DEFINE f == [i \in ids |-> NamedCost(d, i)]
<1>1. ids \subseteq Stored(d.sessions) /\ IsFiniteSet(ids)
  BY FiniteSessions, FS_Subset DEF Priceable
<1>2. \A i \in ids : NamedCost(d, i) \in Amount /\ NamedCost(d, i) \in Int
  BY <1>1, CostsAreAmounts, AmountsAreNumbers DEF Priceable, OrNull
<1>3. \A i \in ids : NamedOf(d)[i] = NamedCost(d, i)
  BY <1>1 DEF NamedOf
<1>4. DOMAIN f = ids /\ \A i \in ids : f[i] \in Int /\ f[i] = NamedOf(d)[i]
  BY <1>2, <1>3
<1>5. TotalNamed(d, ids) = SumFunction(f)
  BY DEF TotalNamed
<1> HIDE DEF f
<1>6. SumFunction(f) = SumOf(NamedOf(d), ids)
  BY <1>1, <1>4, SumFrom
<1>7. SumOf(NamedOf(d), ids) \in Int
  BY <1>1, <1>2, <1>3, SumTakes
<1> QED BY <1>1, <1>2, <1>3, <1>5, <1>6, <1>7

LEMMA EnergiesAreAmounts ==
    ASSUME NEW d, Sane(d), NEW i \in Stored(d.sessions)
    PROVE  /\ EnergyOf(d)[i] = Number(d.sessions[i].energy)
           /\ EnergyOf(d)[i] \in Amount /\ EnergyOf(d)[i] \in Int
           /\ d.sessions[i].energy # Null => EnergyOf(d)[i] = d.sessions[i].energy
           /\ EnergyOf(d)[i] > 0 => d.sessions[i].energy # Null
<1>1. d.sessions[i].energy \in OrNull(Amount)
  BY FiniteSessions DEF SessionRow
<1>2. EnergyOf(d)[i] = Number(d.sessions[i].energy)
  BY DEF EnergyOf
<1> DEFINE x == d.sessions[i].energy
<1> HIDE DEF x
<1>3. CASE x = Null
  <2>1. EnergyOf(d)[i] = 0
    BY <1>2, <1>3 DEF Number, x
  <2>2. 0 \in Amount /\ 0 \in Int /\ ~(0 > 0)
    BY AmountsAreNumbers
  <2>3. EnergyOf(d)[i] \in Amount /\ EnergyOf(d)[i] \in Int /\ ~(EnergyOf(d)[i] > 0)
    BY <2>1, <2>2
  <2>4. x = d.sessions[i].energy
    BY DEF x
  <2> QED BY <1>2, <1>3, <2>3, <2>4
<1>4. CASE x # Null
  <2>1. EnergyOf(d)[i] = x /\ x \in Amount
    BY <1>1, <1>2, <1>4 DEF Number, OrNull, x
  <2> QED BY <1>2, <1>4, <2>1, AmountsAreNumbers DEF x
<1> QED BY <1>3, <1>4

LEMMA EnergyIsSum ==
    ASSUME NEW d, Sane(d), NEW ids \in SUBSET Stored(d.sessions),
           \A i \in ids : d.sessions[i].energy # Null
    PROVE  /\ TotalEnergy(d, ids) = SumOf(EnergyOf(d), ids) /\ TotalEnergy(d, ids) \in Int
           /\ IsFiniteSet(ids)
<1> DEFINE f == [i \in ids |-> d.sessions[i].energy]
<1>1. IsFiniteSet(ids)
  BY FiniteSessions, FS_Subset
<1>2. DOMAIN f = ids /\ \A i \in ids : f[i] \in Int /\ f[i] = EnergyOf(d)[i]
  BY EnergiesAreAmounts
<1>3. TotalEnergy(d, ids) = SumFunction(f)
  BY DEF TotalEnergy
<1> HIDE DEF f
<1>4. SumFunction(f) = SumOf(EnergyOf(d), ids)
  BY <1>1, <1>2, SumFrom
<1>5. SumOf(EnergyOf(d), ids) \in Int
  BY <1>1, EnergiesAreAmounts, SumTakes
<1> QED BY <1>1, <1>3, <1>4, <1>5

\* What a membership saved on a session, and what it would have cost without.
LEMMA SavedWithoutIt ==
    ASSUME NEW d, Sane(d), NEW i \in Configured(d)
    PROVE  /\ SavedOf(d)[i] = Saved(d, i) /\ WithoutOf(d)[i] = Without(d, i)
           /\ Saved(d, i) \in Int /\ Without(d, i) \in Int /\ SummaryCost(d, i) \in Int
           /\ Without(d, i) = Saved(d, i) + SummaryCost(d, i)
           /\ i \notin Explored(d) => Saved(d, i) = 0
<1> DEFINE s == d.sessions[i]
           member == AsMember(d, s, FirstActive(d, s))
<1>1. i \in Stored(d.sessions) /\ s \in SessionRow /\ Refers(s.network, d.nets)
  BY FiniteSessions DEF Configured
<1>2. SummaryCost(d, i) \in Int
  BY TotalIsSum, <1>1, CostsAreAmounts, AmountsAreNumbers DEF Configured, OrNull
<1>3. CASE member
  <2>1. Number(s.energy) > 0
    BY <1>3 DEF AsMember
  <2>2. s.energy \in Amount
    BY <1>1, <2>1 DEF SessionRow, OrNull, Number
  <2>3. NonMemberCost(d, s) \in Int
    <3>1. NetworkRate(d, s) \in Amount
      BY <1>1, RatesAreAmounts
    <3> QED BY <2>2, <3>1, AmountsAreNumbers DEF NonMemberCost
  <2>4. i \in Explored(d)
    BY <2>1 DEF Explored
  <2>5. Saved(d, i) = NonMemberCost(d, s) - SummaryCost(d, i) /\ Without(d, i) = NonMemberCost(d, s)
    BY <1>3 DEF Saved, Without
  <2> QED BY <1>1, <1>2, <2>3, <2>4, <2>5 DEF SavedOf, WithoutOf
<1>4. CASE ~member
  <2>1. Saved(d, i) = 0 /\ Without(d, i) = SummaryCost(d, i)
    BY <1>4 DEF Saved, Without
  <2> QED BY <1>1, <1>2, <2>1 DEF SavedOf, WithoutOf
<1> QED BY <1>3, <1>4

-----------------------------------------------------------------------------
(***************************************************************************)
(* The fees of the periods that touch the days of some sessions.           *)
(***************************************************************************)
LEMMA MonthsPass ==
    ASSUME NEW a \in Int, NEW b \in Int
    PROVE  /\ Month(a) \in Int /\ 30 * Month(a) <= a /\ a <= 30 * Month(a) + 29
           /\ a <= b => Month(a) <= Month(b)
BY DEF Month

LEMMA MonthBegins ==
    ASSUME NEW a \in Int, NEW m \in Int, 30 * m <= a, a <= 30 * m + 29
    PROVE  Month(a) = m
<1> DEFINE k == Month(a)
<1>1. k \in Int /\ 30 * k <= a /\ a <= 30 * k + 29
  BY MonthsPass
<1> HIDE DEF k
<1>2. ~(k < m) /\ ~(m < k)
  BY <1>1
<1>3. k = m
  BY <1>1, <1>2
<1> QED BY <1>3 DEF k

LEMMA DaysEnd ==
    ASSUME NEW days, IsFiniteSet(days), days \subseteq Int, days # {}
    PROVE  /\ Least(days) \in days /\ Greatest(days) \in days
           /\ \A day \in days : Least(days) <= day /\ day <= Greatest(days)
<1>1. Least(days) \in days /\ \A day \in days : Least(days) <= day
  BY LeastIsOne
<1>2. \E x \in days : \A y \in days : y <= x
  BY FiniteInts
<1>3. Greatest(days) \in days /\ \A day \in days : day <= Greatest(days)
  BY <1>2, Zenon DEF Greatest
<1> QED BY <1>1, <1>3

LEMMA MonthsAreCounted ==
    ASSUME NEW days, IsFiniteSet(days), days \subseteq Int, days # {}, NEW p \in PeriodRow
    PROVE  Months(days, p) \in Nat
<1> DEFINE from == Later(p.from, Least(days))
           to == Earlier(End(days, p), Greatest(days))
<1>1. Least(days) \in Int /\ Greatest(days) \in Int
  BY DaysEnd
<1>2. p.from \in Int /\ End(days, p) \in Int
  BY <1>1 DEF PeriodRow, OrNull, End
<1>3. from \in Int /\ to \in Int
  BY <1>1, <1>2 DEF Later, Earlier
<1>4. Months(days, p) = IF from > to THEN 0 ELSE Month(to) - Month(from) + 1
  BY DEF Months
<1> HIDE DEF from, to
<1>5. Month(to) \in Int /\ Month(from) \in Int /\ (from <= to => Month(from) <= Month(to))
  BY <1>3, MonthsPass
<1> QED BY <1>3, <1>4, <1>5

FeeOver(d, days) == [p \in d.periods |-> Months(days, p) * p.fee]

LEMMA DaysAreDays ==
    ASSUME NEW d, Sane(d), NEW ids \in SUBSET Stored(d.sessions)
    PROVE  DaysOf(d, ids) \subseteq Day /\ IsFiniteSet(DaysOf(d, ids)) /\ DaysOf(d, ids) \subseteq Int
<1>1. \A i \in ids : d.sessions[i].day \in OrNull(Day)
  BY FiniteSessions DEF SessionRow
<1>2. DaysOf(d, ids) \subseteq Day
  BY <1>1 DEF DaysOf, OrNull
<1>3. IsFiniteSet(Day) /\ Day \subseteq Int
  BY PlacesAssumption
<1> QED BY <1>2, <1>3, FS_Subset

LEMMA FeesAreSums ==
    ASSUME NEW d, Sane(d), NEW days, IsFiniteSet(days), days \subseteq Int,
           NEW periods \in SUBSET Touched(d, days)
    PROVE  /\ FeesOf(days, periods) = SumOf(FeeOver(d, days), periods) /\ FeesOf(days, periods) \in Int
           /\ IsFiniteSet(periods) /\ periods \subseteq d.periods
           /\ \A p \in periods : /\ FeeOver(d, days)[p] = Months(days, p) * p.fee
                                 /\ FeeOver(d, days)[p] \in Int /\ Months(days, p) \in Nat
<1> DEFINE f == [p \in periods |-> Months(days, p) * p.fee]
           e == FeeOver(d, days)
<1>1. d.periods \subseteq PeriodRow /\ IsFiniteSet(d.periods)
  BY Tables DEF Sane
<1>2. periods \subseteq d.periods /\ IsFiniteSet(periods)
  BY <1>1, FS_Subset DEF Touched
<1>3. ASSUME NEW p \in periods
      PROVE  f[p] = e[p] /\ e[p] = Months(days, p) * p.fee /\ e[p] \in Int /\ Months(days, p) \in Nat
  <2>1. days # {} /\ p \in PeriodRow
    BY <1>1, <1>2 DEF Touched
  <2>2. Months(days, p) \in Nat /\ p.fee \in Int
    BY <2>1, MonthsAreCounted, AmountsAreNumbers DEF PeriodRow
  <2>3. Months(days, p) * p.fee \in Int
    BY <2>2
  <2> QED BY <1>2, <2>2, <2>3 DEF FeeOver
<1>4. FeesOf(days, periods) = SumFunction(f)
  BY DEF FeesOf
<1>5. DOMAIN f = periods /\ \A p \in periods : f[p] \in Int /\ f[p] = e[p]
  BY <1>3
<1>6. \A p \in periods : e[p] \in Int
  BY <1>3
<1>7. SumFunction(f) = SumOf(e, periods)
  <2> HIDE DEF f, e
  <2> QED BY <1>2, <1>5, SumFrom
<1>8. SumOf(e, periods) \in Int
  <2> HIDE DEF e
  <2> QED BY <1>2, <1>6, SumTakes
<1> QED BY <1>2, <1>3, <1>4, <1>7, <1>8

LEMMA ExploredDays ==
    ASSUME NEW d, Sane(d)
    PROVE  /\ Explored(d) \subseteq Configured(d) /\ Configured(d) \subseteq Stored(d.sessions)
           /\ IsFiniteSet(Configured(d)) /\ IsFiniteSet(Explored(d))
           /\ IsFiniteSet(Days(d)) /\ Days(d) \subseteq Int /\ Fees(d) \in Int
           /\ \A i \in Explored(d) : /\ d.sessions[i].energy \in Amount /\ d.sessions[i].energy \in Int
                                     /\ EnergyOf(d)[i] = d.sessions[i].energy
<1>1. Explored(d) \subseteq Configured(d) /\ Configured(d) \subseteq Stored(d.sessions)
  BY DEF Explored, Configured
<1>2. IsFiniteSet(Configured(d)) /\ IsFiniteSet(Explored(d))
  BY <1>1, FiniteSessions, FS_Subset
<1>3. IsFiniteSet(Days(d)) /\ Days(d) \subseteq Int
  BY <1>1, DaysAreDays DEF Days
<1>4. Fees(d) \in Int
  <2>1. FeesOf(Days(d), Touched(d, Days(d))) \in Int
    BY <1>3, FeesAreSums
  <2> QED BY <2>1 DEF Fees, FeesOver
<1>5. ASSUME NEW i \in Explored(d)
      PROVE  /\ d.sessions[i].energy \in Amount /\ d.sessions[i].energy \in Int
             /\ EnergyOf(d)[i] = d.sessions[i].energy
  <2>1. i \in Stored(d.sessions) /\ Number(d.sessions[i].energy) > 0
    BY <1>1 DEF Explored
  <2> QED BY <2>1, EnergiesAreAmounts
<1> QED BY <1>1, <1>2, <1>3, <1>4, <1>5

\* The summary and the explorer differ by the sessions without energy.
LEMMA SummaryIsExplorers ==
    ASSUME NEW d, Sane(d)
    PROVE  SummaryMatchesExplorer(d)
<1> DEFINE all == Configured(d)
           some == Explored(d)
           rest == all \ some
           saved == SavedOf(d)
           without == WithoutOf(d)
           fSaved == [i \in all |-> Saved(d, i)]
           fWithout == [i \in some |-> Without(d, i)]
<1>1. /\ all = some \cup rest /\ some \cap rest = {}
      /\ IsFiniteSet(all) /\ IsFiniteSet(some) /\ IsFiniteSet(rest) /\ Fees(d) \in Int
  <2>1. some \subseteq all /\ IsFiniteSet(all)
    BY ExploredDays
  <2> QED BY <2>1, ExploredDays, FS_Subset
<1>2. /\ TotalCost(d, all) \in Int /\ TotalCost(d, some) \in Int /\ TotalCost(d, rest) \in Int
      /\ TotalCost(d, all) = TotalCost(d, some) + TotalCost(d, rest)
  <2>1. /\ TotalCost(d, all) = SumOf(CostOf(d), all) /\ TotalCost(d, some) = SumOf(CostOf(d), some)
        /\ TotalCost(d, rest) = SumOf(CostOf(d), rest)
        /\ TotalCost(d, all) \in Int /\ TotalCost(d, some) \in Int /\ TotalCost(d, rest) \in Int
        /\ \A i \in all : CostOf(d)[i] \in Int
    BY <1>1, TotalIsSum
  <2> HIDE DEF all, some, rest
  <2>2. SumOf(CostOf(d), some \cup rest) = SumOf(CostOf(d), some) + SumOf(CostOf(d), rest)
    BY <1>1, <2>1, SumUnion
  <2> QED BY <1>1, <2>1, <2>2
<1>3. \A i \in all : /\ fSaved[i] = saved[i] /\ saved[i] \in Int /\ (i \notin some => saved[i] = 0)
                     /\ CostOf(d)[i] \in Int
  BY SavedWithoutIt, TotalIsSum
<1>4. \A i \in some : /\ fWithout[i] = without[i] /\ without[i] \in Int
                      /\ without[i] = saved[i] + CostOf(d)[i]
  <2>1. ASSUME NEW i \in some
        PROVE  without[i] = Without(d, i) /\ without[i] \in Int /\ without[i] = saved[i] + CostOf(d)[i]
    <3>1. i \in all
      BY <1>1
    <3> QED BY <3>1, SavedWithoutIt, TotalIsSum
  <2> QED BY <2>1
<1>5. SumFunction(fSaved) = SumOf(saved, all) /\ SumFunction(fWithout) = SumOf(without, some)
  <2>1. DOMAIN fSaved = all /\ \A i \in all : fSaved[i] \in Int /\ fSaved[i] = saved[i]
    BY <1>3
  <2>2. DOMAIN fWithout = some /\ \A i \in some : fWithout[i] \in Int /\ fWithout[i] = without[i]
    BY <1>4
  <2> HIDE DEF fSaved, fWithout, all, some, saved, without
  <2> QED BY <1>1, <2>1, <2>2, SumFrom
<1>6. Summary(d).total = TotalCost(d, all) /\ Summary(d).saved = SumFunction(fSaved)
  BY DEF Summary
<1>7. \A reference : LET x == Explorer(d, reference)
                     IN  /\ x.energy = TotalCost(d, some) /\ x.without = SumFunction(fWithout)
                         /\ x.saved = SumFunction(fWithout) - (TotalCost(d, some) + Fees(d))
  BY DEF Explorer
<1>8. SumOf(saved, all) = SumOf(saved, some) /\ SumOf(saved, some) \in Int
  <2> HIDE DEF all, some, rest, saved, without, fSaved, fWithout
  <2>1. SumOf(saved, some \cup rest) = SumOf(saved, some) + SumOf(saved, rest)
    BY <1>1, <1>3, SumUnion
  <2>2. SumOf(saved, rest) = SumOf(saved, rest) * 0
    <3>1. \A i \in rest : saved[i] \in Int /\ saved[i] = saved[i] * 0
      BY <1>3 DEF rest
    <3> QED BY <1>1, <3>1, SumTimes
  <2>3. SumOf(saved, some) \in Int /\ SumOf(saved, rest) \in Int
    BY <1>1, <1>3, SumTakes
  <2> QED BY <1>1, <2>1, <2>2, <2>3
<1>9. SumOf(without, some) = SumOf(saved, some) + TotalCost(d, some)
  <2>1. TotalCost(d, some) = SumOf(CostOf(d), some)
    BY <1>1, TotalIsSum
  <2>2. \A i \in some : saved[i] \in Int /\ CostOf(d)[i] \in Int /\ without[i] = saved[i] + CostOf(d)[i]
    BY <1>1, <1>3, <1>4
  <2> HIDE DEF all, some, saved, without
  <2>3. SumOf(without, some) = SumOf(saved, some) + SumOf(CostOf(d), some)
    BY <1>1, <2>2, SumPlus
  <2> QED BY <2>1, <2>3
<1>10. SummaryMatchesExplorer(d) <=>
         LET x == Explorer(d, Least(Rate))
         IN  /\ Summary(d).total = x.energy + TotalCost(d, rest)
             /\ Summary(d).saved = x.without - x.energy
             /\ x.saved = Summary(d).saved - Fees(d)
  BY Zenon DEF SummaryMatchesExplorer
<1> HIDE DEF all, some, rest, saved, without, fSaved, fWithout
<1> DEFINE x == Explorer(d, Least(Rate))
<1>11. /\ x.energy = TotalCost(d, some) /\ x.without = SumOf(without, some)
       /\ x.saved = SumOf(without, some) - (TotalCost(d, some) + Fees(d))
  BY <1>5, <1>7
<1> HIDE DEF x
<1>12. /\ Summary(d).total = x.energy + TotalCost(d, rest)
       /\ Summary(d).saved = x.without - x.energy
       /\ x.saved = Summary(d).saved - Fees(d)
  BY <1>1, <1>2, <1>5, <1>6, <1>8, <1>9, <1>11
<1> QED BY <1>10, <1>12 DEF x

-----------------------------------------------------------------------------
(***************************************************************************)
(* The parts of a page add up to its total.                                *)
(***************************************************************************)
LEMMA NetworksAddUp ==
    ASSUME NEW d, Sane(d)
    PROVE  Summary(d).total = SumFunction(Summary(d).byNetwork)
<1> DEFINE S == Configured(d)
           key == [i \in S |-> Heading(d, i)]
           K == {Heading(d, i) : i \in S}
           g == [h \in K |-> TotalCost(d, {i \in S : Heading(d, i) = h})]
           f == CostOf(d)
<1>1. /\ IsFiniteSet(S) /\ \A i \in S : f[i] \in Int
      /\ TotalCost(d, S) = SumOf(f, S)
  BY TotalIsSum
<1>2. IsFiniteSet(K) /\ \A i \in S : key[i] \in K
  <2>1. K = {key[i] : i \in S}
    OBVIOUS
  <2> HIDE DEF K, key, S
  <2> QED BY <1>1, <2>1, KeysAreFinite
<1>3. \A h \in K : g[h] = SumOf(f, {i \in S : key[i] = h})
  <2>1. ASSUME NEW h \in K
        PROVE  g[h] = SumOf(f, {i \in S : key[i] = h})
    <3> DEFINE own == {i \in S : Heading(d, i) = h}
    <3>1. own = {i \in S : key[i] = h} /\ own \in SUBSET S
      OBVIOUS
    <3>2. TotalCost(d, own) = SumOf(f, own)
      BY <3>1, TotalIsSum
    <3>3. g[h] = TotalCost(d, own)
      OBVIOUS
    <3> QED BY <3>1, <3>2, <3>3
  <2> QED BY <2>1
<1>4. Summary(d).total = TotalCost(d, S) /\ Summary(d).byNetwork = g /\ DOMAIN g = K
  BY DEF Summary
<1> HIDE DEF S, key, K, g, f
<1>5. SumFunction(g) = SumOf(f, S)
  BY <1>1, <1>2, <1>3, <1>4, GroupsAddUp
<1> QED BY <1>1, <1>4, <1>5

LEMMA LedgerAddsUp ==
    ASSUME NEW d, Sane(d)
    PROVE  LET x == Explorer(d, Least(Rate))
           IN  /\ x.energy = SumFunction([n \in DOMAIN x.ledger |-> x.ledger[n].paid])
               /\ x.atReference = SumFunction([n \in DOMAIN x.ledger |-> x.ledger[n].atReference])
<1> DEFINE x == Explorer(d, Least(Rate))
           S == Explored(d)
           key == [i \in S |-> d.sessions[i].network]
           K == {d.sessions[i].network : i \in S}
           paid == [n \in DOMAIN x.ledger |-> x.ledger[n].paid]
           dear == [n \in DOMAIN x.ledger |-> x.ledger[n].atReference]
           f == CostOf(d)
           e == [i \in S |-> d.sessions[i].energy * Least(Rate)]
           Own(n) == {i \in S : d.sessions[i].network = n}
<1>1. /\ IsFiniteSet(S) /\ \A i \in S : f[i] \in Int
      /\ TotalCost(d, S) = SumOf(f, S)
  <2>1. S \in SUBSET Configured(d)
    BY ExploredDays
  <2> QED BY <2>1, TotalIsSum
<1>2. IsFiniteSet(K) /\ \A i \in S : key[i] \in K
  <2>1. K = {key[i] : i \in S}
    OBVIOUS
  <2> HIDE DEF K, key, S
  <2> QED BY <1>1, <2>1, KeysAreFinite
<1>3. Least(Rate) \in Int
  BY LeastIsOne, PlacesAssumption
<1>4. \A i \in S : e[i] \in Int
  BY <1>3, ExploredDays
<1>5. \A n : Own(n) \in SUBSET S /\ Own(n) = {i \in S : key[i] = n}
  OBVIOUS
<1>6. x.ledger = [n \in K |->
          [paid |-> TotalCost(d, Own(n)),
           atReference |-> SumFunction([i \in Own(n) |-> d.sessions[i].energy * Least(Rate)])]]
  BY DEF Explorer, Ledger
<1>7. /\ x.energy = TotalCost(d, S)
      /\ x.atReference = SumFunction([i \in S |-> d.sessions[i].energy * Least(Rate)])
  BY DEF Explorer
<1>8. \A T \in SUBSET S : SumFunction([i \in T |-> d.sessions[i].energy * Least(Rate)]) = SumOf(e, T)
  <2>1. ASSUME NEW T \in SUBSET S
        PROVE  SumFunction([i \in T |-> d.sessions[i].energy * Least(Rate)]) = SumOf(e, T)
    <3> DEFINE h == [i \in T |-> d.sessions[i].energy * Least(Rate)]
    <3>1. IsFiniteSet(T)
      BY <1>1, FS_Subset
    <3>2. DOMAIN h = T /\ \A i \in T : h[i] \in Int /\ h[i] = e[i]
      BY <1>4
    <3> HIDE DEF h, e, S
    <3>3. SumFunction(h) = SumOf(e, T)
      BY <3>1, <3>2, SumFrom
    <3> QED BY <3>3 DEF h
  <2> QED BY <2>1
<1>9. DOMAIN x.ledger = K /\ DOMAIN paid = K /\ DOMAIN dear = K
  BY <1>6
<1>10. \A n \in K : paid[n] = SumOf(f, {i \in S : key[i] = n}) /\ dear[n] = SumOf(e, {i \in S : key[i] = n})
  <2>1. ASSUME NEW n \in K
        PROVE  paid[n] = SumOf(f, {i \in S : key[i] = n}) /\ dear[n] = SumOf(e, {i \in S : key[i] = n})
    <3>1. /\ paid[n] = TotalCost(d, Own(n))
          /\ dear[n] = SumFunction([i \in Own(n) |-> d.sessions[i].energy * Least(Rate)])
      BY <1>6
    <3>2. TotalCost(d, Own(n)) = SumOf(f, Own(n))
      <4>1. Own(n) \in SUBSET Configured(d)
        BY ExploredDays
      <4> QED BY <4>1, TotalIsSum
    <3>3. SumFunction([i \in Own(n) |-> d.sessions[i].energy * Least(Rate)]) = SumOf(e, Own(n))
      BY <1>5, <1>8
    <3> HIDE DEF paid, dear, x, Own, e, f
    <3> QED BY <1>5, <3>1, <3>2, <3>3
  <2> QED BY <2>1
<1>11. x.atReference = SumOf(e, S)
  BY <1>7, <1>8
<1> HIDE DEF x, S, key, K, paid, dear, f, e, Own
<1>12. SumFunction(paid) = SumOf(f, S)
  BY <1>1, <1>2, <1>9, <1>10, GroupsAddUp
<1>13. SumFunction(dear) = SumOf(e, S)
  <2>1. \A n \in K : dear[n] = SumOf(e, {i \in S : key[i] = n})
    BY <1>10
  <2>2. DOMAIN dear = K /\ IsFiniteSet(S)
    BY <1>1, <1>9
  <2> QED BY <1>2, <1>4, <2>1, <2>2, GroupsAddUp
<1>14. x.energy = SumFunction(paid) /\ x.atReference = SumFunction(dear)
  BY <1>1, <1>7, <1>11, <1>12, <1>13
<1> QED BY <1>14 DEF x, paid, dear

LEMMA MembershipsAddUp ==
    ASSUME NEW d, Sane(d)
    PROVE  LET x == Explorer(d, Least(Rate))
           IN  Fees(d) = SumFunction([n \in DOMAIN x.memberships |-> x.memberships[n].fees])
<1> DEFINE x == Explorer(d, Least(Rate))
           days == Days(d)
           S == Touched(d, days)
           key == [p \in S |-> p.network]
           K == {p.network : p \in S} \cup {d.sessions[i].network : i \in Members(d)}
           fees == [n \in DOMAIN x.memberships |-> x.memberships[n].fees]
           f == FeeOver(d, days)
           Own(n) == {p \in S : p.network = n}
<1>1. IsFiniteSet(days) /\ days \subseteq Int
  BY ExploredDays
<1>2. IsFiniteSet(S) /\ (\A p \in S : f[p] \in Int) /\ FeesOf(days, S) = SumOf(f, S)
  BY <1>1, FeesAreSums
<1>3. IsFiniteSet(K) /\ \A p \in S : key[p] \in K
  <2> DEFINE A == {p.network : p \in S}
             B == {d.sessions[i].network : i \in Members(d)}
  <2>1. IsFiniteSet(Members(d))
    <3>1. Members(d) \subseteq Explored(d)
      BY DEF Members
    <3> QED BY <3>1, ExploredDays, FS_Subset
  <2> DEFINE other == [i \in Members(d) |-> d.sessions[i].network]
  <2>2. IsFiniteSet(A) /\ IsFiniteSet(B)
    <3>1. A = {key[p] : p \in S} /\ B = {other[i] : i \in Members(d)}
      OBVIOUS
    <3> HIDE DEF A, B, key, other, S
    <3> QED BY <1>2, <2>1, <3>1, KeysAreFinite
  <2>3. K = A \cup B /\ \A p \in S : key[p] \in A
    OBVIOUS
  <2> HIDE DEF A, B, K, key, S, other
  <2> QED BY <2>2, <2>3, FS_Union
<1>4. x.memberships = [n \in K |->
          [energy |-> TotalCost(d, {i \in Members(d) : d.sessions[i].network = n}),
           fees |-> FeesOf(days, Own(n))]]
  BY DEF Explorer, Memberships
<1>5. DOMAIN fees = K
  BY <1>4
<1>6. \A n \in K : fees[n] = SumOf(f, {p \in S : key[p] = n})
  <2>1. ASSUME NEW n \in K
        PROVE  fees[n] = SumOf(f, {p \in S : key[p] = n})
    <3>1. fees[n] = FeesOf(days, Own(n))
      BY <1>4
    <3>2. Own(n) \in SUBSET S /\ Own(n) = {p \in S : key[p] = n}
      OBVIOUS
    <3>3. FeesOf(days, Own(n)) = SumOf(f, Own(n))
      BY <1>1, <3>2, FeesAreSums
    <3> QED BY <3>1, <3>2, <3>3
  <2> QED BY <2>1
<1>7. Fees(d) = FeesOf(days, S)
  BY DEF Fees, FeesOver
<1> HIDE DEF x, days, S, key, K, fees, f, Own
<1>8. SumFunction(fees) = SumOf(f, S)
  BY <1>2, <1>3, <1>5, <1>6, GroupsAddUp
<1>9. Fees(d) = SumFunction(fees)
  BY <1>2, <1>7, <1>8
<1> QED BY <1>9 DEF x, fees

WhatIfOf(d) == [i \in Explored(d) |-> WhatIf(d, i, Least(Rate))]

LEMMA WhatIfsAreSums ==
    ASSUME NEW d, Sane(d), NEW ids \in SUBSET Explored(d)
    PROVE  /\ SumFunction([i \in ids |-> WhatIf(d, i, Least(Rate))]) = SumOf(WhatIfOf(d), ids)
           /\ SumOf(WhatIfOf(d), ids) \in Int /\ IsFiniteSet(ids)
           /\ \A i \in ids : WhatIfOf(d)[i] \in Int
<1> DEFINE f == [i \in ids |-> WhatIf(d, i, Least(Rate))]
<1>1. IsFiniteSet(ids)
  BY ExploredDays, FS_Subset
<1>2. Least(Rate) \in Int
  BY LeastIsOne, PlacesAssumption
<1>3. ASSUME NEW i \in ids
      PROVE  WhatIf(d, i, Least(Rate)) \in Int
  <2>1. d.sessions[i].energy \in Int
    BY ExploredDays
  <2>2. SummaryCost(d, i) \in Int
    <3>1. i \in Configured(d)
      BY ExploredDays
    <3> QED BY <3>1, SavedWithoutIt
  <2> QED BY <1>2, <2>1, <2>2 DEF WhatIf
<1>4. \A i \in ids : WhatIfOf(d)[i] = WhatIf(d, i, Least(Rate))
  BY DEF WhatIfOf
<1>5. DOMAIN f = ids /\ \A i \in ids : f[i] \in Int /\ f[i] = WhatIfOf(d)[i]
  BY <1>3, <1>4
<1> HIDE DEF f
<1>6. SumFunction(f) = SumOf(WhatIfOf(d), ids)
  BY <1>1, <1>5, SumFrom
<1>7. \A i \in ids : WhatIfOf(d)[i] \in Int
  BY <1>5
<1>8. SumOf(WhatIfOf(d), ids) \in Int
  BY <1>1, <1>7, SumTakes
<1> QED BY <1>1, <1>6, <1>7, <1>8 DEF f

LEMMA MonthsAddUp ==
    ASSUME NEW d, Sane(d)
    PROVE  LET x == Explorer(d, Least(Rate))
               undated == {i \in Explored(d) : d.sessions[i].day = Null}
           IN  x.whatIf - Fees(d) =
                 SumFunction(x.monthly) + SumFunction([i \in undated |-> WhatIf(d, i, Least(Rate))])
<1> DEFINE x == Explorer(d, Least(Rate))
           all == Explored(d)
           undated == {i \in all : d.sessions[i].day = Null}
           S == {i \in all : d.sessions[i].day # Null}
           key == [i \in S |-> Month(d.sessions[i].day)]
           K == {Month(day) : day \in Days(d)}
           f == WhatIfOf(d)
           g == x.monthly
           Own(m) == {i \in all : d.sessions[i].day # Null /\ Month(d.sessions[i].day) = m}
<1>1. all = S \cup undated /\ S \cap undated = {}
  OBVIOUS
<1>2. /\ IsFiniteSet(all) /\ IsFiniteSet(S) /\ IsFiniteSet(undated)
      /\ (\A i \in all : f[i] \in Int)
      /\ SumOf(f, all) \in Int /\ SumOf(f, S) \in Int /\ SumOf(f, undated) \in Int
  <2>1. all \in SUBSET Explored(d) /\ S \in SUBSET Explored(d) /\ undated \in SUBSET Explored(d)
    OBVIOUS
  <2> HIDE DEF all, S, undated, f
  <2> QED BY <2>1, WhatIfsAreSums DEF f, all
<1>3. K = {key[i] : i \in S}
  <2>1. Days(d) = {d.sessions[i].day : i \in S}
    BY DEF Days, DaysOf
  <2> QED BY <2>1
<1>4. IsFiniteSet(K) /\ \A i \in S : key[i] \in K
  <2> HIDE DEF K, key, S
  <2> QED BY <1>2, <1>3, KeysAreFinite
<1>5. g = [m \in K |-> SumFunction([i \in Own(m) |-> WhatIf(d, i, Least(Rate))])]
  BY DEF Explorer, Monthly
<1>6. x.whatIf = SumFunction([i \in all |-> WhatIf(d, i, Least(Rate))]) + Fees(d)
  BY DEF Explorer
<1>7. \A m \in K : g[m] = SumOf(f, {i \in S : key[i] = m})
  <2>1. ASSUME NEW m \in K
        PROVE  g[m] = SumOf(f, {i \in S : key[i] = m})
    <3>1. Own(m) = {i \in S : key[i] = m} /\ Own(m) \in SUBSET Explored(d)
      OBVIOUS
    <3>2. SumFunction([i \in Own(m) |-> WhatIf(d, i, Least(Rate))]) = SumOf(f, Own(m))
      BY <3>1, WhatIfsAreSums
    <3>3. g[m] = SumFunction([i \in Own(m) |-> WhatIf(d, i, Least(Rate))])
      BY <1>5
    <3> HIDE DEF g, f, x, Own
    <3> QED BY <3>1, <3>2, <3>3
  <2> QED BY <2>1
<1>8. DOMAIN g = K
  BY <1>5
<1>9. /\ SumFunction([i \in all |-> WhatIf(d, i, Least(Rate))]) = SumOf(f, all)
      /\ SumFunction([i \in undated |-> WhatIf(d, i, Least(Rate))]) = SumOf(f, undated)
  <2>1. undated \in SUBSET Explored(d)
    OBVIOUS
  <2> QED BY <2>1, WhatIfsAreSums
<1>10. Fees(d) \in Int
  BY ExploredDays
<1> DEFINE rest == SumFunction([i \in undated |-> WhatIf(d, i, Least(Rate))])
           what == SumFunction([i \in all |-> WhatIf(d, i, Least(Rate))])
<1>11. what = SumOf(f, all) /\ rest = SumOf(f, undated) /\ x.whatIf = what + Fees(d)
  BY <1>6, <1>9
<1>12. x.whatIf - Fees(d) = SumFunction(g) + rest
  <2> HIDE DEF x, all, undated, S, key, K, f, g, rest, what
  <2>1. SumFunction(g) = SumOf(f, S)
    <3>1. \A i \in S : f[i] \in Int
      BY <1>1, <1>2
    <3> QED BY <1>2, <1>4, <1>7, <1>8, <3>1, GroupsAddUp
  <2>2. SumOf(f, S \cup undated) = SumOf(f, S) + SumOf(f, undated)
    BY <1>1, <1>2, SumUnion
  <2> QED BY <1>1, <1>2, <1>10, <1>11, <2>1, <2>2
<1> QED BY <1>12

LEMMA ChartAddsUp ==
    ASSUME NEW d, Sane(d)
    PROVE  LET uncharted == Stored(d.sessions) \ Charted(d)
           IN  /\ Dashboard(d).energy =
                    SumFunction(EnergyByMonth(d))
                      + SumFunction([i \in uncharted |-> Number(d.sessions[i].energy)])
               /\ Dashboard(d).energy = SumOf(EnergyOf(d), Stored(d.sessions))
<1> DEFINE all == Stored(d.sessions)
           S == Charted(d)
           rest == all \ S
           KeyFor(i) == BarOf(d, i)
           key == [i \in S |-> KeyFor(i)]
           K == {KeyFor(i) : i \in S}
           f == EnergyOf(d)
           g == EnergyByMonth(d)
           whole == [i \in all |-> Number(d.sessions[i].energy)]
           others == [i \in rest |-> Number(d.sessions[i].energy)]
<1>1. S \subseteq all /\ all = S \cup rest /\ S \cap rest = {}
  BY DEF Charted
<1>2. /\ IsFiniteSet(all) /\ IsFiniteSet(S) /\ IsFiniteSet(rest)
      /\ \A i \in all : f[i] \in Int /\ f[i] = Number(d.sessions[i].energy)
  <2>1. IsFiniteSet(all)
    BY FiniteSessions
  <2>2. IsFiniteSet(S) /\ IsFiniteSet(rest)
    BY <1>1, <2>1, FS_Subset
  <2> QED BY <2>1, <2>2, EnergiesAreAmounts
<1>3. g = [k \in K |-> TotalEnergy(d, {i \in S : KeyFor(i) = k})]
  BY DEF EnergyByMonth
<1>4. IsFiniteSet(K) /\ \A i \in S : key[i] \in K
  <2>1. K = {key[i] : i \in S}
    OBVIOUS
  <2> HIDE DEF K, key, S
  <2> QED BY <1>2, <2>1, KeysAreFinite
<1>5. \A k \in K : g[k] = SumOf(f, {i \in S : key[i] = k})
  <2>1. ASSUME NEW k \in K
        PROVE  g[k] = SumOf(f, {i \in S : key[i] = k})
    <3> DEFINE own == {i \in S : KeyFor(i) = k}
    <3>1. own = {i \in S : key[i] = k}
      OBVIOUS
    <3>2. own \in SUBSET all /\ \A i \in own : d.sessions[i].energy # Null
      BY <1>1 DEF Charted
    <3>3. TotalEnergy(d, own) = SumOf(f, own)
      BY <3>2, EnergyIsSum
    <3>4. g[k] = TotalEnergy(d, own)
      BY <1>3
    <3> QED BY <3>1, <3>3, <3>4
  <2> QED BY <2>1
<1>6. SumFunction(whole) = SumOf(f, all) /\ SumFunction(others) = SumOf(f, rest)
  <2>1. DOMAIN whole = all /\ \A i \in all : whole[i] \in Int /\ whole[i] = f[i]
    BY <1>2
  <2>2. DOMAIN others = rest /\ \A i \in rest : others[i] \in Int /\ others[i] = f[i]
    BY <1>2
  <2> HIDE DEF whole, others, all, rest, f
  <2> QED BY <1>2, <2>1, <2>2, SumFrom
<1>7. Dashboard(d).energy = SumFunction(whole)
  BY DEF Dashboard
<1>8. DOMAIN g = K
  BY <1>3
<1>9. /\ Dashboard(d).energy = SumFunction(g) + SumFunction(others)
      /\ Dashboard(d).energy = SumOf(f, all)
  <2> HIDE DEF all, S, rest, KeyFor, key, K, f, g, whole, others
  <2>1. \A i \in S : f[i] \in Int
    BY <1>1, <1>2
  <2>2. SumFunction(g) = SumOf(f, S)
    BY <1>2, <1>4, <1>5, <1>8, <2>1, GroupsAddUp
  <2>3. SumOf(f, S \cup rest) = SumOf(f, S) + SumOf(f, rest)
    BY <1>1, <1>2, SumUnion
  <2> QED BY <1>1, <1>6, <1>7, <2>2, <2>3
<1> QED BY <1>9

LEMMA PagesAddUp ==
    ASSUME NEW d, Sane(d)
    PROVE  PartsAddUp(d)
<1>1. Summary(d).total = SumFunction(Summary(d).byNetwork)
  BY NetworksAddUp
<1> DEFINE x == Explorer(d, Least(Rate))
           undated == {i \in Explored(d) : d.sessions[i].day = Null}
           uncharted == Stored(d.sessions) \ Charted(d)
<1>2. /\ x.energy = SumFunction([n \in DOMAIN x.ledger |-> x.ledger[n].paid])
      /\ x.atReference = SumFunction([n \in DOMAIN x.ledger |-> x.ledger[n].atReference])
  BY LedgerAddsUp
<1>3. Fees(d) = SumFunction([n \in DOMAIN x.memberships |-> x.memberships[n].fees])
  BY MembershipsAddUp
<1>4. x.whatIf - Fees(d) =
        SumFunction(x.monthly) + SumFunction([i \in undated |-> WhatIf(d, i, Least(Rate))])
  BY MonthsAddUp
<1>5. Dashboard(d).energy =
        SumFunction(EnergyByMonth(d)) + SumFunction([i \in uncharted |-> Number(d.sessions[i].energy)])
  BY ChartAddsUp
<1> QED BY <1>1, <1>2, <1>3, <1>4, <1>5, Zenon DEF PartsAddUp

-----------------------------------------------------------------------------
(***************************************************************************)
(* The list of sessions, under its filters.                                *)
(***************************************************************************)
LEMMA ListIsSum ==
    ASSUME NEW d, Sane(d), NEW w, NEW networks
    PROVE  /\ ListOf(d, w, networks) \subseteq Stored(d.sessions) /\ IsFiniteSet(ListOf(d, w, networks))
           /\ ListSummary(d, w, networks).count = Cardinality(ListOf(d, w, networks))
           /\ ListSummary(d, w, networks).kwh = SumOf(EnergyOf(d), ListOf(d, w, networks))
<1> DEFINE ids == ListOf(d, w, networks)
           f == [i \in ids |-> Number(d.sessions[i].energy)]
<1>1. ids \subseteq Stored(d.sessions)
  BY DEF ListOf
<1>2. IsFiniteSet(ids)
  BY <1>1, FiniteSessions, FS_Subset
<1>3. DOMAIN f = ids /\ \A i \in ids : f[i] \in Int /\ f[i] = EnergyOf(d)[i]
  BY <1>1, EnergiesAreAmounts
<1>4. ListSummary(d, w, networks).count = Cardinality(ids) /\ ListSummary(d, w, networks).kwh = SumFunction(f)
  BY DEF ListSummary
<1>5. SumFunction(f) = SumOf(EnergyOf(d), ids)
  <2> HIDE DEF f, ids
  <2> QED BY <1>2, <1>3, SumFrom
<1> QED BY <1>1, <1>2, <1>4, <1>5

LEMMA NetworksListAll ==
    ASSUME NEW d, Sane(d)
    PROVE  LET always == [from |-> Null, to |-> Null]
               unassigned == {i \in Stored(d.sessions) : d.sessions[i].network = Null}
           IN  /\ ListSummary(d, always, {}).kwh = Dashboard(d).energy
               /\ ListSummary(d, always, {}).count = Cardinality(unassigned)
                    + SumFunction([n \in Stored(d.nets) |-> ListSummary(d, always, {n}).count])
<1> DEFINE always == [from |-> Null, to |-> Null]
           all == Stored(d.sessions)
           unassigned == {i \in all : d.sessions[i].network = Null}
           S == all \ unassigned
           K == Stored(d.nets)
           key == [i \in S |-> d.sessions[i].network]
           one == [i \in all |-> 1]
           g == [n \in K |-> ListSummary(d, always, {n}).count]
<1>1. ListOf(d, always, {}) = all
  BY DEF ListOf, InDays
<1>2. ListSummary(d, always, {}).kwh = Dashboard(d).energy
  <2>1. Dashboard(d).energy = SumOf(EnergyOf(d), all)
    BY ChartAddsUp
  <2> HIDE DEF always
  <2>2. ListSummary(d, always, {}).kwh = SumOf(EnergyOf(d), ListOf(d, always, {}))
    BY ListIsSum
  <2> QED BY <1>1, <2>1, <2>2
<1>3. IsFiniteSet(all) /\ IsFiniteSet(S) /\ IsFiniteSet(unassigned) /\ IsFiniteSet(K)
  <2>1. IsFiniteSet(NetId) /\ K \subseteq NetId
    BY PrimaryKeys, KeysAreNumbers, Tables DEF Sane
  <2> QED BY <2>1, FiniteSessions, FS_Subset
<1>4. \A i \in S : key[i] \in K
  BY FiniteSessions DEF Refers
<1>5. \A T \in SUBSET all : IsFiniteSet(T) /\ SumOf(one, T) = Cardinality(T)
  <2>1. ASSUME NEW T \in SUBSET all
        PROVE  IsFiniteSet(T) /\ SumOf(one, T) = Cardinality(T)
    <3>1. IsFiniteSet(T) /\ \A i \in T : one[i] = 1
      BY <1>3, FS_Subset
    <3> HIDE DEF one
    <3> QED BY <3>1, SumOfOnes
  <2> QED BY <2>1
<1>6. \A n \in K : g[n] = SumOf(one, {i \in S : key[i] = n})
  <2>1. ASSUME NEW n \in K
        PROVE  g[n] = SumOf(one, {i \in S : key[i] = n})
    <3> DEFINE own == {i \in S : key[i] = n}
    <3>1. n # Null
      BY PrimaryKeys, KeysAreNumbers, Tables DEF Sane
    <3>2. ListOf(d, always, {n}) = own
      BY <3>1 DEF ListOf, InDays
    <3>3. g[n] = Cardinality(own)
      <4>1. g[n] = ListSummary(d, always, {n}).count
        OBVIOUS
      <4> HIDE DEF always, own, g
      <4>2. ListSummary(d, always, {n}).count = Cardinality(ListOf(d, always, {n}))
        BY ListIsSum
      <4> QED BY <3>2, <4>1, <4>2
    <3>4. own \in SUBSET all
      OBVIOUS
    <3> HIDE DEF own, one, g
    <3>5. SumOf(one, own) = Cardinality(own)
      BY <1>5, <3>4
    <3> QED BY <3>3, <3>5 DEF own
  <2> QED BY <2>1
<1>7. /\ ListSummary(d, always, {}).count = Cardinality(all)
      /\ \A i \in all : one[i] \in Int
      /\ all = S \cup unassigned /\ S \cap unassigned = {} /\ S \subseteq all /\ unassigned \subseteq all
      /\ DOMAIN g = K
  BY <1>1, ListIsSum
<1>8. ListSummary(d, always, {}).count = Cardinality(unassigned) + SumFunction(g)
  <2> HIDE DEF always, all, unassigned, S, K, key, one, g
  <2>1. \A i \in S : one[i] \in Int
    BY <1>7
  <2>2. SumFunction(g) = SumOf(one, S)
    BY <1>3, <1>4, <1>6, <1>7, <2>1, GroupsAddUp
  <2>3. SumOf(one, S \cup unassigned) = SumOf(one, S) + SumOf(one, unassigned)
    BY <1>3, <1>7, SumUnion
  <2>4. SumOf(one, all) = Cardinality(all) /\ SumOf(one, unassigned) = Cardinality(unassigned)
    BY <1>5, <1>7
  <2>5. SumOf(one, S) \in Int /\ SumOf(one, unassigned) \in Int
    BY <1>3, <1>7, SumTakes
  <2> QED BY <1>7, <2>2, <2>3, <2>4, <2>5
<1> QED BY <1>2, <1>8

LEMMA MonthListsAgree ==
    ASSUME NEW d, Sane(d), NEW k \in DOMAIN EnergyByMonth(d), Null \notin BarNetworks(d, k)
    PROVE  ListSummary(d, [from |-> 30 * k[1], to |-> 30 * k[1] + 29], BarNetworks(d, k)).kwh
                = EnergyByMonth(d)[k]
<1> DEFINE w == [from |-> 30 * k[1], to |-> 30 * k[1] + 29]
           networks == BarNetworks(d, k)
           own == {i \in Charted(d) : BarOf(d, i) = k}
           listed == ListOf(d, w, networks)
           rest == listed \ own
           f == EnergyOf(d)
<1>1. EnergyByMonth(d) = [j \in {BarOf(d, i) : i \in Charted(d)} |->
                              TotalEnergy(d, {i \in Charted(d) : BarOf(d, i) = j})]
  BY DEF EnergyByMonth
<1>2. PICK i \in Charted(d) : k = BarOf(d, i)
  BY <1>1
<1>3. networks = {d.sessions[j].network : j \in own} /\ networks # {}
  <2>1. networks = {d.sessions[j].network : j \in own}
    BY DEF BarNetworks
  <2>2. i \in own
    BY <1>2
  <2> QED BY <2>1, <2>2
<1>4. /\ \A j \in Stored(d.sessions) : d.sessions[j].day \in OrNull(Day)
      /\ Day \subseteq Int /\ Null \notin Int
  BY FiniteSessions, PlacesAssumption, ValuesAreNotNull DEF SessionRow
<1>5. k[1] \in Int
  <2>1. d.sessions[i].day \in Int
    BY <1>4 DEF Charted, OrNull
  <2>2. k[1] = Month(d.sessions[i].day)
    BY <1>2 DEF BarOf
  <2> QED BY <2>1, <2>2, MonthsPass
<1>6. \A j \in Stored(d.sessions) :
        j \in listed <=> /\ d.sessions[j].network \in networks /\ d.sessions[j].day # Null
                         /\ 30 * k[1] <= d.sessions[j].day /\ d.sessions[j].day <= 30 * k[1] + 29
  <2>1. w.from # Null /\ w.to # Null /\ w.from = 30 * k[1] /\ w.to = 30 * k[1] + 29
    BY <1>4, <1>5
  <2> HIDE DEF w, networks
  <2> QED BY <1>3, <2>1 DEF ListOf, InDays
<1>7. \A j \in Stored(d.sessions) :
        j \in listed <=> /\ d.sessions[j].network \in networks /\ d.sessions[j].day # Null
                         /\ Month(d.sessions[j].day) = k[1]
  <2>1. ASSUME NEW j \in Stored(d.sessions), d.sessions[j].day # Null
        PROVE  (30 * k[1] <= d.sessions[j].day /\ d.sessions[j].day <= 30 * k[1] + 29)
                  <=> Month(d.sessions[j].day) = k[1]
    <3>1. d.sessions[j].day \in Int
      BY <1>4, <2>1 DEF OrNull
    <3>2. /\ 30 * Month(d.sessions[j].day) <= d.sessions[j].day
          /\ d.sessions[j].day <= 30 * Month(d.sessions[j].day) + 29
      BY <3>1, MonthsPass
    <3> QED BY <1>5, <3>1, <3>2, MonthBegins
  <2> QED BY <1>6, <2>1
<1>8. /\ listed \subseteq Stored(d.sessions) /\ IsFiniteSet(listed)
      /\ ListSummary(d, w, networks).kwh = SumOf(f, listed)
  BY ListIsSum
<1>9. own \subseteq listed /\ \A j \in rest : d.sessions[j].energy = Null
  <2>1. \A j \in own : j \in Stored(d.sessions) /\ Null \notin {d.sessions[j].day, d.sessions[j].energy}
                     /\ Month(d.sessions[j].day) = k[1] /\ d.sessions[j].network \in networks
    <3>1. \A j \in own : Month(d.sessions[j].day) = k[1]
      BY DEF BarOf
    <3> QED BY <1>3, <3>1 DEF Charted
  \* Two sessions of one network are under one name, so in one bar of a month.
  <2>2. ASSUME NEW j \in listed, d.sessions[j].energy # Null
        PROVE  j \in own
    <3>1. d.sessions[j].network \in networks /\ d.sessions[j].day # Null /\ Month(d.sessions[j].day) = k[1]
      BY <1>7, <1>8
    <3>2. PICK l \in own : d.sessions[l].network = d.sessions[j].network
      BY <1>3, <3>1
    <3>3. Month(d.sessions[l].day) = Month(d.sessions[j].day) /\ BarOf(d, l) = k
      BY <2>1, <3>1
    <3>4. Label(d, l) = Label(d, j)
      BY <3>2 DEF Label
    <3>5. BarOf(d, j) = BarOf(d, l)
      BY <3>3, <3>4 DEF BarOf
    <3>6. j \in Charted(d)
      BY <1>8, <2>2, <3>1 DEF Charted
    <3> QED BY <3>3, <3>5, <3>6
  <2>3. ASSUME NEW j \in Stored(d.sessions)
        PROVE  j \in own <=> j \in listed /\ d.sessions[j].energy # Null
    BY <1>7, <2>1, <2>2
  <2>4. own \subseteq Stored(d.sessions)
    BY DEF Charted
  <2> QED BY <1>8, <2>3, <2>4
<1>10. EnergyByMonth(d)[k] = SumOf(f, own)
  <2>1. EnergyByMonth(d)[k] = TotalEnergy(d, own)
    BY <1>1
  <2>2. own \in SUBSET Stored(d.sessions) /\ \A j \in own : d.sessions[j].energy # Null
    BY DEF Charted
  <2>3. TotalEnergy(d, own) = SumOf(f, own)
    BY <2>2, EnergyIsSum
  <2> QED BY <2>1, <2>3
<1>11. \A j \in listed : f[j] \in Int /\ (j \in rest => f[j] = 0)
  BY <1>8, <1>9, EnergiesAreAmounts DEF Number
<1>12. listed = own \cup rest /\ own \cap rest = {} /\ IsFiniteSet(own) /\ IsFiniteSet(rest)
  <2>1. listed = own \cup rest /\ own \cap rest = {} /\ own \subseteq listed /\ rest \subseteq listed
    BY <1>9
  <2> QED BY <1>8, <2>1, FS_Subset
<1>13. SumOf(f, listed) = SumOf(f, own)
  <2> HIDE DEF f, listed, own, rest
  <2>1. SumOf(f, own \cup rest) = SumOf(f, own) + SumOf(f, rest)
    BY <1>11, <1>12, SumUnion
  <2>2. SumOf(f, rest) = SumOf(f, rest) * 0
    <3>1. \A j \in rest : f[j] \in Int /\ f[j] = f[j] * 0
      BY <1>11, <1>12
    <3> QED BY <1>12, <3>1, SumTimes
  <2>3. SumOf(f, own) \in Int /\ SumOf(f, rest) \in Int
    BY <1>11, <1>12, SumTakes
  <2> QED BY <1>12, <2>1, <2>2, <2>3
<1> QED BY <1>8, <1>10, <1>13

LEMMA ListsDoAddUp ==
    ASSUME NEW d, Sane(d)
    PROVE  ListsAddUp(d)
<1> DEFINE always == [from |-> Null, to |-> Null]
           unassigned == {i \in Stored(d.sessions) : d.sessions[i].network = Null}
           billed == {i \in Stored(d.sessions) : d.sessions[i].cost # Null \/ d.sessions[i].free}
<1>1. /\ ListSummary(d, always, {}).kwh = Dashboard(d).energy
      /\ ListSummary(d, always, {}).count = Cardinality(unassigned)
            + SumFunction([n \in Stored(d.nets) |-> ListSummary(d, always, {n}).count])
  BY NetworksListAll
<1>2. \A k \in DOMAIN EnergyByMonth(d) : Null \notin BarNetworks(d, k) =>
        ListSummary(d, [from |-> 30 * k[1], to |-> 30 * k[1] + 29], BarNetworks(d, k)).kwh
            = EnergyByMonth(d)[k]
  BY MonthListsAgree
<1>3. \A i \in billed : SortKey(d, i) = ListCost(d, i)
  BY DEF SortKey, ListCost, DisplayCost, Number
<1>4. \A i, j \in billed : SortKey(d, i) <= SortKey(d, j) <=> ListCost(d, i) <= ListCost(d, j)
  BY <1>3
<1> QED BY <1>1, <1>2, <1>4, Zenon DEF ListsAddUp

-----------------------------------------------------------------------------
(***************************************************************************)
(* The ratios, which divide what was billed.                               *)
(***************************************************************************)
BilledOf(d) == [i \in Stored(d.sessions) |-> Number(d.sessions[i].cost)]

LEMMA BilledIsSum ==
    ASSUME NEW d, Sane(d), NEW ids \in SUBSET Billed(d)
    PROVE  /\ SumFunction([i \in ids |-> d.sessions[i].cost]) = SumOf(BilledOf(d), ids)
           /\ IsFiniteSet(ids) /\ ids \subseteq Stored(d.sessions)
           /\ \A i \in ids : /\ BilledOf(d)[i] \in Amount /\ BilledOf(d)[i] \in Int
                             /\ BilledOf(d)[i] = d.sessions[i].cost
<1> DEFINE f == [i \in ids |-> d.sessions[i].cost]
<1>1. ids \subseteq Stored(d.sessions)
  BY DEF Billed
<1>2. IsFiniteSet(ids)
  BY <1>1, FiniteSessions, FS_Subset
<1>3. \A i \in ids : d.sessions[i].cost \in Amount /\ d.sessions[i].cost # Null
  BY <1>1, FiniteSessions DEF Billed, SessionRow, OrNull
<1>4. \A i \in ids : BilledOf(d)[i] = d.sessions[i].cost
  BY <1>1, <1>3 DEF BilledOf, Number
<1>5. \A i \in ids : BilledOf(d)[i] \in Amount /\ BilledOf(d)[i] \in Int
  BY <1>3, <1>4, AmountsAreNumbers
<1>6. DOMAIN f = ids /\ \A i \in ids : f[i] \in Int /\ f[i] = BilledOf(d)[i]
  BY <1>4, <1>5
<1>7. SumFunction(f) = SumOf(BilledOf(d), ids)
  <2> HIDE DEF f
  <2> QED BY <1>2, <1>6, SumFrom
<1> QED BY <1>1, <1>2, <1>4, <1>5, <1>7

\* Nothing negative, a session with energy adds no less than one without; and what was
\* billed is what the summary counts, except of a session marked free.
LEMMA RatiosAreLess ==
    ASSUME NEW d, Sane(d), ~Signed
    PROVE  /\ Ratios(d).perKwh[1] <= Ratios(d).perSession[1]
           /\ (\A i \in Stored(d.sessions) : d.sessions[i].free => Number(d.sessions[i].cost) = 0) =>
                Ratios(d).perSession[1] <= Summary(d).total
<1> DEFINE f == BilledOf(d)
<1>1. /\ Ratios(d).perKwh[1] = SumOf(f, Metered(d)) /\ Ratios(d).perSession[1] = SumOf(f, Billed(d))
      /\ Metered(d) \in SUBSET Billed(d) /\ IsFiniteSet(Billed(d)) /\ Billed(d) \subseteq Stored(d.sessions)
      /\ \A i \in Billed(d) : f[i] \in Amount /\ f[i] \in Int /\ f[i] = d.sessions[i].cost
  <2>1. Metered(d) \in SUBSET Billed(d)
    BY DEF Metered
  <2>2. /\ Ratios(d).perKwh[1] = SumFunction([i \in Metered(d) |-> d.sessions[i].cost])
        /\ Ratios(d).perSession[1] = SumFunction([i \in Billed(d) |-> d.sessions[i].cost])
    BY DEF Ratios
  <2>3. /\ SumFunction([i \in Metered(d) |-> d.sessions[i].cost]) = SumOf(f, Metered(d))
    BY <2>1, BilledIsSum
  <2>4. SumFunction([i \in Billed(d) |-> d.sessions[i].cost]) = SumOf(f, Billed(d))
    BY BilledIsSum
  <2> QED BY <2>1, <2>2, <2>3, <2>4, BilledIsSum
<1>2. \A i \in Billed(d) : 0 <= f[i]
  BY <1>1 DEF Amount
<1>3. Ratios(d).perKwh[1] <= Ratios(d).perSession[1]
  <2> HIDE DEF f
  <2>1. \A i \in Metered(d) : f[i] \in Int /\ f[i] <= f[i]
    BY <1>1
  <2> QED BY <1>1, <1>2, <2>1, SumAtMost
<1>4. ASSUME \A i \in Stored(d.sessions) : d.sessions[i].free => Number(d.sessions[i].cost) = 0
      PROVE  Ratios(d).perSession[1] <= Summary(d).total
  <2> DEFINE e == CostOf(d)
  <2>1. ASSUME NEW i \in Billed(d)
        PROVE  i \in Configured(d) /\ SummaryCost(d, i) = f[i]
    <3>1. i \in Stored(d.sessions) /\ d.sessions[i].cost # Null /\ f[i] # Null /\ 0 # Null
      BY <1>1, AmountsAreNumbers DEF Billed
    <3>2. CASE d.sessions[i].free
      <4>1. f[i] = 0
        BY <1>4, <3>1, <3>2 DEF BilledOf
      <4> QED BY <3>1, <3>2, <4>1 DEF SummaryCost, DisplayCost, Configured
    <3>3. CASE ~d.sessions[i].free
      BY <1>1, <3>1, <3>3 DEF SummaryCost, DisplayCost, Configured
    <3> QED BY <3>2, <3>3
  <2>2. /\ TotalCost(d, Configured(d)) = SumOf(e, Configured(d)) /\ IsFiniteSet(Configured(d))
        /\ \A i \in Configured(d) : e[i] \in Amount /\ e[i] \in Int /\ e[i] = SummaryCost(d, i)
    BY TotalIsSum
  <2>3. \A i \in Configured(d) : 0 <= e[i]
    BY <2>2 DEF Amount
  <2>4. Billed(d) \in SUBSET Configured(d) /\ \A i \in Billed(d) : f[i] \in Int /\ f[i] <= e[i]
    BY <1>1, <2>1, <2>2
  <2>5. Summary(d).total = TotalCost(d, Configured(d))
    BY DEF Summary
  <2>6. SumOf(f, Billed(d)) <= SumOf(e, Configured(d))
    <3> HIDE DEF e, f
    <3> QED BY <2>2, <2>3, <2>4, SumAtMost
  <2> QED BY <1>1, <2>2, <2>5, <2>6
<1> QED BY <1>3, <1>4

\* One rate a day, the first period of those that cover it is the last.
LEMMA PagesAddUpToTotal ==
    ASSUME NEW d, Sane(d), OneRate(d)
    PROVE  Summary(d).total = SumFunction([i \in Configured(d) |-> PageCost(d, i)])
<1>1. ASSUME NEW i \in Configured(d)
      PROVE  PageCost(d, i) = SummaryCost(d, i)
  <2> DEFINE s == d.sessions[i]
             S == PeriodsOf(d, s)
  <2>1. s \in SessionRow /\ Refers(s.network, d.nets)
    BY FiniteSessions DEF Configured
  <2>2. \A p, q \in S : p = q
    <3>1. CASE Null \in {s.network, s.day}
      BY <3>1 DEF PeriodsOf
    <3>2. CASE Null \notin {s.network, s.day}
      <4>1. S = Covering(d, s.network, s.day)
        BY <3>2 DEF PeriodsOf
      <4>2. s.network \in Stored(d.nets) /\ s.day \in Day
        BY <2>1, <3>2 DEF Refers, SessionRow, OrNull
      <4>3. IsFiniteSet(S) /\ Cardinality(S) <= 1
        BY <4>1, <4>2, PeriodsAreOrdered DEF OneRate
      <4> HIDE DEF S
      <4>4. Cardinality(S) \in Nat
        BY <4>3, FS_CardinalityType
      <4>5. CASE Cardinality(S) = 0
        BY <4>3, <4>5, FS_EmptySet
      <4>6. CASE Cardinality(S) = 1
        BY <4>3, <4>6, FS_Singleton
      <4> QED BY <4>3, <4>4, <4>5, <4>6
    <3> QED BY <3>1, <3>2
  <2>3. FirstActive(d, s) = LastActive(d, s)
    <3>1. CASE S = {}
      BY <3>1 DEF FirstActive, LastActive
    <3>2. CASE S # {}
      <4>1. FirstActive(d, s) \in S /\ LastActive(d, s) \in S
        <5>1. FirstActive(d, s) = Oldest(S) /\ LastActive(d, s) = Newest(S)
          BY <3>2 DEF FirstActive, LastActive
        <5>2. PICK p \in S : TRUE
          BY <3>2
        <5>3. S \subseteq PeriodRow
          BY PeriodsAreOrdered
        <5>4. p.from \in Int
          BY <5>2, <5>3 DEF PeriodRow
        <5>5. (\A q \in S : p.from <= q.from) /\ (\A q \in S : q.from <= p.from)
          BY <2>2, <5>4
        <5>6. Oldest(S) \in S /\ Newest(S) \in S
          <6> HIDE DEF S
          <6> QED BY <5>2, <5>5, Zenon DEF Oldest, Newest
        <5> QED BY <5>1, <5>6
      <4> QED BY <2>2, <4>1
    <3> QED BY <3>1, <3>2
  <2> QED BY <2>3 DEF PageCost, SummaryCost
<1> DEFINE f == [i \in Configured(d) |-> PageCost(d, i)]
           e == CostOf(d)
<1>2. /\ TotalCost(d, Configured(d)) = SumOf(e, Configured(d)) /\ IsFiniteSet(Configured(d))
      /\ \A i \in Configured(d) : e[i] \in Int /\ e[i] = SummaryCost(d, i)
  BY TotalIsSum
<1>3. DOMAIN f = Configured(d) /\ \A i \in Configured(d) : f[i] \in Int /\ f[i] = e[i]
  BY <1>1, <1>2
<1>4. SumFunction(f) = SumOf(e, Configured(d))
  <2> HIDE DEF f, e
  <2> QED BY <1>2, <1>3, SumFrom
<1>5. Summary(d).total = TotalCost(d, Configured(d))
  BY DEF Summary
<1> QED BY <1>2, <1>4, <1>5

\* A session priced by the name of its location costs the dashboard what it costs all.
LEMMA DashboardAddsUpToTotal ==
    ASSUME NEW d, Sane(d), \A i \in Stored(d.sessions) : PricedByName(d, i)
    PROVE  Dashboard(d).cost = Summary(d).total
<1>1. ASSUME NEW i \in Stored(d.sessions)
      PROVE  NamedCost(d, i) = SummaryCost(d, i)
  <2> DEFINE s == d.sessions[i]
             named == [s EXCEPT !.network = NamedNetwork(d, s.name), !.place = Null]
  <2>1. s \in SessionRow
    BY FiniteSessions
  <2>2. NamedNetwork(d, s.name) = s.network /\ PlaceRate(d, s) = 0 /\ FirstActive(d, s) = Null
    BY DEF PricedByName
  <2>3. /\ named.network = s.network /\ named.place = Null /\ named.free = s.free
        /\ named.cost = s.cost /\ named.energy = s.energy
    BY <2>1, <2>2 DEF SessionRow
  <2>4. PlaceRate(d, named) = 0
    <3>1. Null \notin Stored(d.places)
      BY PrimaryKeys, KeysAreNumbers, Tables DEF Sane
    <3> QED BY <2>3, <3>1 DEF PlaceRate
  <2>5. NamedCost(d, i) = DisplayCost(d, named, Null)
    BY DEF NamedCost
  <2>6. SummaryCost(d, i) = DisplayCost(d, s, Null)
    BY <2>2 DEF SummaryCost
  <2> HIDE DEF named, s
  <2>7. NetworkRate(d, named) = NetworkRate(d, s) /\ NetworkIsFree(d, named) = NetworkIsFree(d, s)
    BY <2>3 DEF NetworkRate, NetworkIsFree
  <2>8. MemberRate(d, named, Null) = MemberRate(d, s, Null)
    BY <2>7 DEF MemberRate
  <2>9. DisplayCost(d, named, Null) = DisplayCost(d, s, Null)
    BY <2>2, <2>3, <2>4, <2>7, <2>8 DEF DisplayCost, s
  <2> QED BY <2>5, <2>6, <2>9
<1>2. Priceable(d) = Configured(d)
  BY <1>1 DEF Priceable, Configured
<1>3. TotalNamed(d, Priceable(d)) = TotalCost(d, Configured(d))
  <2>1. \A i \in Configured(d) : NamedCost(d, i) = SummaryCost(d, i)
    BY <1>1 DEF Configured
  <2>2. [i \in Configured(d) |-> NamedCost(d, i)] = [i \in Configured(d) |-> SummaryCost(d, i)]
    BY <2>1
  <2> QED BY <1>2, <2>2 DEF TotalNamed, TotalCost
<1> QED BY <1>3 DEF Dashboard, Summary

-----------------------------------------------------------------------------
(***************************************************************************)
(* The comparisons with gas.                                               *)
(***************************************************************************)
LEMMA NamedTotalsNest ==
    ASSUME NEW d, Sane(d), ~Signed, NEW T \in SUBSET Priceable(d), NEW S \in SUBSET T
    PROVE  TotalNamed(d, S) <= TotalNamed(d, T)
<1> DEFINE f == NamedOf(d)
<1>1. /\ TotalNamed(d, T) = SumOf(f, T) /\ IsFiniteSet(T)
      /\ \A i \in T : f[i] \in Amount /\ f[i] \in Int
  BY NamedTotalIsSum
<1>2. S \in SUBSET Priceable(d)
  OBVIOUS
<1>3. TotalNamed(d, S) = SumOf(f, S)
  BY <1>2, NamedTotalIsSum
<1>4. \A i \in T : 0 <= f[i]
  BY <1>1 DEF Amount
<1> HIDE DEF f
<1>5. \A i \in S : f[i] \in Int /\ f[i] <= f[i]
  BY <1>1
<1>6. SumOf(f, S) <= SumOf(f, T)
  BY <1>1, <1>4, <1>5, SumAtMost
<1> QED BY <1>1, <1>3, <1>6

LEMMA TimesGrow ==
    ASSUME NEW a \in Int, NEW b \in Int, a <= b, NEW c \in Nat
    PROVE  a * c <= b * c /\ c * a <= c * b
<1>1. (b - a) \in Nat
  OBVIOUS
<1>2. (b - a) * c \in Nat
  BY <1>1
<1>3. (b - a) * c = b * c - a * c
  OBVIOUS
<1>4. c * a = a * c /\ c * b = b * c /\ a * c \in Int /\ b * c \in Int
  OBVIOUS
<1> QED BY <1>2, <1>3, <1>4

\* More days are touched by more periods, and by each in more months.
LEMMA MonthsGrow ==
    ASSUME NEW days, IsFiniteSet(days), days \subseteq Int,
           NEW some \in SUBSET days, some # {}, NEW p \in PeriodRow,
           p.from <= Greatest(some), End(some, p) >= Least(some)
    PROVE  /\ p.from <= Greatest(days) /\ End(days, p) >= Least(days)
           /\ Months(some, p) <= Months(days, p)
<1>1. IsFiniteSet(some) /\ some \subseteq Int /\ days # {}
  BY FS_Subset
<1>2. /\ Least(some) \in some /\ Greatest(some) \in some
      /\ Least(days) \in days /\ Greatest(days) \in days
      /\ \A x \in days : Least(days) <= x /\ x <= Greatest(days)
  BY <1>1, DaysEnd
<1>3. /\ Least(days) <= Least(some) /\ Greatest(some) <= Greatest(days)
      /\ Least(days) \in Int /\ Least(some) \in Int /\ Greatest(some) \in Int /\ Greatest(days) \in Int
  BY <1>1, <1>2
<1>4. p.from \in Int /\ (p.to # Null => p.to \in Int)
  BY DEF PeriodRow, OrNull
<1>5. /\ End(some, p) \in Int /\ End(days, p) \in Int
      /\ End(some, p) <= End(days, p) /\ End(days, p) >= Least(days)
  <2>1. CASE p.to = Null
    <3>1. End(some, p) = Greatest(some) /\ End(days, p) = Greatest(days)
      BY <2>1 DEF End
    <3>2. Least(days) <= Greatest(days)
      BY <1>2
    <3> QED BY <1>3, <3>1, <3>2
  <2>2. CASE p.to # Null
    <3>1. End(some, p) = p.to /\ End(days, p) = p.to
      BY <2>2 DEF End
    <3> QED BY <1>3, <1>4, <2>2, <3>1
  <2> QED BY <2>1, <2>2
<1>6. Months(some, p) <= Months(days, p)
  <2> DEFINE from == Later(p.from, Least(some))
             to == Earlier(End(some, p), Greatest(some))
             first == Later(p.from, Least(days))
             last == Earlier(End(days, p), Greatest(days))
  <2>1. /\ from \in Int /\ to \in Int /\ first \in Int /\ last \in Int
        /\ first <= from /\ to <= last
    BY <1>3, <1>4, <1>5 DEF Later, Earlier
  <2>2. /\ Months(some, p) = IF from > to THEN 0 ELSE Month(to) - Month(from) + 1
        /\ Months(days, p) = IF first > last THEN 0 ELSE Month(last) - Month(first) + 1
    BY DEF Months
  <2>3. Months(days, p) \in Nat
    BY <1>1, MonthsAreCounted
  <2> HIDE DEF from, to, first, last
  <2>4. /\ Month(from) \in Int /\ Month(to) \in Int /\ Month(first) \in Int /\ Month(last) \in Int
        /\ Month(first) <= Month(from) /\ Month(to) <= Month(last)
    BY <2>1, MonthsPass
  <2> QED BY <2>1, <2>2, <2>3, <2>4
<1> QED BY <1>3, <1>4, <1>5, <1>6

LEMMA FeesGrow ==
    ASSUME NEW d, Sane(d), ~Signed, NEW days, IsFiniteSet(days), days \subseteq Int,
           NEW some \in SUBSET days
    PROVE  FeesOver(d, some) <= FeesOver(d, days)
<1> DEFINE S == Touched(d, some)
           T == Touched(d, days)
           f == FeeOver(d, some)
           e == FeeOver(d, days)
<1>1. IsFiniteSet(some) /\ some \subseteq Int
  BY FS_Subset
<1>2. /\ FeesOver(d, some) = SumOf(f, S) /\ IsFiniteSet(S)
      /\ \A p \in S : f[p] = Months(some, p) * p.fee /\ f[p] \in Int /\ Months(some, p) \in Nat
  BY <1>1, FeesAreSums DEF FeesOver
<1>3. /\ FeesOver(d, days) = SumOf(e, T) /\ IsFiniteSet(T) /\ T \subseteq d.periods
      /\ \A p \in T : e[p] = Months(days, p) * p.fee /\ e[p] \in Int /\ Months(days, p) \in Nat
  BY FeesAreSums DEF FeesOver
<1>4. d.periods \subseteq PeriodRow /\ \A p \in PeriodRow : p.fee \in Nat
  BY Tables DEF Sane, PeriodRow, Amount
<1>5. ASSUME NEW p \in S
      PROVE  p \in T /\ f[p] <= e[p]
  <2>1. p \in d.periods /\ some # {} /\ p.from <= Greatest(some) /\ End(some, p) >= Least(some)
    BY DEF Touched
  <2>2. p \in PeriodRow /\ p.fee \in Nat
    BY <1>4, <2>1
  <2>3. p.from <= Greatest(days) /\ End(days, p) >= Least(days) /\ Months(some, p) <= Months(days, p)
    BY <2>1, <2>2, MonthsGrow
  <2>4. days # {}
    BY <2>1
  <2>5. p \in T
    BY <2>1, <2>3, <2>4 DEF Touched
  <2>6. Months(some, p) * p.fee <= Months(days, p) * p.fee
    <3>1. Months(some, p) \in Int /\ Months(days, p) \in Int
      BY <1>2, <1>3, <2>5
    <3> QED BY <2>2, <2>3, <3>1, TimesGrow
  <2>7. f[p] = Months(some, p) * p.fee /\ e[p] = Months(days, p) * p.fee
    BY <1>2, <1>3, <2>5
  <2> QED BY <2>5, <2>6, <2>7
<1>6. \A p \in T : e[p] \in Int /\ 0 <= e[p]
  <2>1. ASSUME NEW p \in T PROVE 0 <= e[p]
    <3>1. Months(days, p) \in Nat /\ p.fee \in Nat /\ e[p] = Months(days, p) * p.fee
      BY <1>3, <1>4
    <3> HIDE DEF e
    <3>2. Months(days, p) * p.fee \in Nat
      BY <3>1
    <3> QED BY <3>1, <3>2
  <2> QED BY <1>3, <2>1
<1>7. S \in SUBSET T /\ \A p \in S : f[p] \in Int /\ f[p] <= e[p]
  BY <1>2, <1>5
<1>8. SumOf(f, S) <= SumOf(e, T)
  <2> HIDE DEF S, T, f, e
  <2> QED BY <1>3, <1>6, <1>7, SumAtMost
<1> QED BY <1>2, <1>3, <1>8

\* A month's price, on either track, is one of the history's, and none is dearer than the
\* dearest.
LEMMA PricesAreKnown ==
    /\ Dearest \in Int
    /\ \A m \in Int, track \in {"station", "average"} :
        /\ GasPrice(m)[track] \in OrNull(Int) /\ Number(GasPrice(m)[track]) \in Int
        /\ Number(GasPrice(m)[track]) <= Dearest
<1> DEFINE stations == [g \in GasPrices |-> Number(g.station)]
           averages == [g \in GasPrices |-> Number(g.average)]
           S == {stations[g] : g \in GasPrices}
           A == {averages[g] : g \in GasPrices}
           all == {DefaultGas} \cup UNION {{Number(g.station), Number(g.average)} : g \in GasPrices}
<1>1. IsFiniteSet(GasPrices) /\ DefaultGas \in Int
      /\ \A g \in GasPrices : /\ g.month \in Int /\ g.station \in OrNull(Int) /\ g.average \in OrNull(Int)
                              /\ g = [month |-> g.month, station |-> g.station, average |-> g.average]
  BY CostsAssumption
<1>2. \A g \in GasPrices : Number(g.station) \in Int /\ Number(g.average) \in Int
  BY <1>1 DEF Number, OrNull
<1>3. IsFiniteSet(S) /\ IsFiniteSet(A)
  <2> HIDE DEF stations, averages
  <2> QED BY <1>1, KeysAreFinite
<1>4. all = {DefaultGas} \cup S \cup A
  OBVIOUS
<1>5. IsFiniteSet(all)
  <2>1. IsFiniteSet({DefaultGas})
    BY FS_Singleton
  <2> HIDE DEF all, S, A
  <2> QED BY <1>3, <1>4, <2>1, FS_Union
<1>6. all \subseteq Int /\ DefaultGas \in all
      /\ \A g \in GasPrices : Number(g.station) \in all /\ Number(g.average) \in all
  BY <1>1, <1>2
<1>7. Dearest \in all /\ \A x \in all : x <= Dearest
  <2>1. Dearest = Greatest(all)
    BY DEF Dearest
  <2> HIDE DEF all
  <2> QED BY <1>5, <1>6, <2>1, DaysEnd
<1>8. ASSUME NEW m \in Int
      PROVE  \/ GasPrice(m) \in GasPrices
             \/ GasPrice(m) = [station |-> DefaultGas, average |-> DefaultGas]
  <2> DEFINE known == {g \in GasPrices : g.month <= m}
             f == [g \in known |-> g.month]
  <2>1. known \subseteq GasPrices
    OBVIOUS
  <2>2. IsFiniteSet(known)
    BY <1>1, <2>1, FS_Subset
  <2>3. \A g \in known : f[g] \in Int /\ f[g] = g.month
    BY <1>1
  <2>4. CASE known = {}
    BY <2>4 DEF GasPrice
  <2>5. CASE known # {}
    <3> HIDE DEF f
    <3>1. \E g \in known : \A h \in known : f[h] <= f[g]
      <4> HIDE DEF known
      <4> QED BY <2>2, <2>3, <2>5, FiniteHasGreatest
    <3>2. PICK g \in known : \A h \in known : h.month <= g.month
      BY <2>3, <3>1
    <3>3. (CHOOSE x \in known : \A h \in known : h.month <= x.month) \in known
      <4> HIDE DEF known
      <4> QED BY <3>2, Zenon
    <3>4. GasPrice(m) = CHOOSE x \in known : \A h \in known : h.month <= x.month
      BY <2>5 DEF GasPrice
    <3> QED BY <2>1, <3>3, <3>4
  <2> QED BY <2>4, <2>5
<1>9. ASSUME NEW m \in Int, NEW track \in {"station", "average"}
      PROVE  /\ GasPrice(m)[track] \in OrNull(Int) /\ Number(GasPrice(m)[track]) \in Int
             /\ Number(GasPrice(m)[track]) <= Dearest
  <2> DEFINE x == GasPrice(m)[track]
  <2>1. x \in OrNull(Int) /\ Number(x) \in all
    <3>1. CASE GasPrice(m) \in GasPrices
      <4>1. x = GasPrice(m).station \/ x = GasPrice(m).average
        OBVIOUS
      <4> HIDE DEF all, x
      <4> QED BY <1>1, <1>6, <3>1, <4>1
    <3>2. CASE GasPrice(m) = [station |-> DefaultGas, average |-> DefaultGas]
      <4>1. x = DefaultGas /\ DefaultGas # Null
        BY <1>1, <3>2, ValuesAreNotNull
      <4> HIDE DEF all, x
      <4> QED BY <1>1, <1>6, <4>1 DEF Number, OrNull
    <3> QED BY <1>8, <3>1, <3>2
  <2> HIDE DEF all, x
  <2>2. Number(x) \in Int /\ Number(x) <= Dearest
    BY <1>6, <1>7, <2>1
  <2> QED BY <2>1, <2>2 DEF x
<1> QED BY <1>6, <1>7, <1>9

\* Fuel of any months costs no more than if all of it were bought at the dearest price.
LEMMA GasIsAtMost ==
    ASSUME NEW S, IsFiniteSet(S), NEW gallons, DOMAIN gallons = S,
           \A m \in S : m \in Int /\ gallons[m] \in Nat
    PROVE  GasTotals(gallons).high <= SumFunction(gallons) * Dearest /\ SumFunction(gallons) \in Nat
<1> DEFINE at(track) == SumFunction([m \in DOMAIN gallons |-> gallons[m] * Number(GasPrice(m)[track])])
           has(track) == \E m \in DOMAIN gallons : GasPrice(m)[track] # Null
           totals == {at(track) : track \in {t \in {"station", "average"} : has(t)}}
<1>1. Dearest \in Int
  BY PricesAreKnown
<1>2. SumFunction(gallons) = SumOf(gallons, S) /\ SumFunction(gallons) \in Nat
  <2>1. SumFunction(gallons) = SumOf(gallons, S)
    <3>1. \A m \in S : gallons[m] \in Int /\ gallons[m] = gallons[m]
      OBVIOUS
    <3> QED BY <3>1, SumFrom
  <2>2. SumOf(gallons, S) \in Nat
    <3>1. \A m \in S : gallons[m] \in Int /\ 0 <= gallons[m]
      OBVIOUS
    <3> QED BY <3>1, SumIsNatural
  <2> QED BY <2>1, <2>2
<1>3. ASSUME NEW track \in {"station", "average"}
      PROVE  at(track) \in Int /\ at(track) <= SumFunction(gallons) * Dearest
  <2> DEFINE f == [m \in S |-> gallons[m] * Number(GasPrice(m)[track])]
             dear == [m \in S |-> gallons[m] * Dearest]
  <2>1. at(track) = SumFunction(f)
    OBVIOUS
  <2>2. ASSUME NEW m \in S
        PROVE  f[m] \in Int /\ dear[m] \in Int /\ f[m] <= dear[m] /\ dear[m] = gallons[m] * Dearest
    <3> DEFINE price == Number(GasPrice(m)[track])
    <3>1. price \in Int /\ price <= Dearest /\ gallons[m] \in Nat /\ f[m] = gallons[m] * price
      BY PricesAreKnown
    <3> HIDE DEF price, f
    <3>2. gallons[m] * price <= gallons[m] * Dearest
      BY <1>1, <3>1, TimesGrow
    <3>3. gallons[m] * price \in Int /\ gallons[m] * Dearest \in Int
      BY <1>1, <3>1
    <3> QED BY <3>1, <3>2, <3>3
  <2>3. DOMAIN f = S
    OBVIOUS
  <2> HIDE DEF f, dear, at, has, totals
  <2>4. SumFunction(f) = SumOf(f, S)
    <3>1. \A m \in S : f[m] \in Int /\ f[m] = f[m]
      BY <2>2
    <3> QED BY <2>3, <3>1, SumFrom
  <2>5. SumOf(f, S) <= SumOf(dear, S)
    <3>1. /\ S \in SUBSET S /\ \A m \in S : f[m] \in Int /\ f[m] <= dear[m]
          /\ \A m \in S : dear[m] \in Int
      BY <2>2
    <3> QED BY <3>1, SumAtMost
  <2>6. SumOf(dear, S) = SumOf(gallons, S) * Dearest
    <3>1. Dearest \in Int /\ \A m \in S : gallons[m] \in Int /\ dear[m] = gallons[m] * Dearest
      BY <1>1, <2>2
    <3> QED BY <3>1, SumTimes
  <2>7. SumOf(f, S) \in Int
    BY <2>2, SumTakes
  <2> QED BY <1>2, <2>1, <2>4, <2>5, <2>6, <2>7
<1>4. GasTotals(gallons).high = IF totals = {} THEN 0 ELSE Greatest(totals)
  BY DEF GasTotals
<1>5. CASE totals # {}
  <2>1. \A x \in totals : x \in Int /\ x <= SumFunction(gallons) * Dearest
    BY <1>3
  <2>2. IsFiniteSet(totals)
    <3> DEFINE key == [t \in {"station", "average"} |-> at(t)]
               known == {t \in {"station", "average"} : has(t)}
    <3>1. IsFiniteSet({"station", "average"}) /\ known \subseteq {"station", "average"}
      <4>1. IsFiniteSet({"station"}) /\ IsFiniteSet({"average"})
        BY FS_Singleton
      <4>2. IsFiniteSet({"station"} \cup {"average"})
        BY <4>1, FS_Union
      <4>3. {"station", "average"} = {"station"} \cup {"average"}
        OBVIOUS
      <4> QED BY <4>2, <4>3
    <3>2. IsFiniteSet(known)
      <4> HIDE DEF known
      <4> QED BY <3>1, FS_Subset
    <3>3. totals = {key[t] : t \in known}
      OBVIOUS
    <3> HIDE DEF key, known, totals
    <3> QED BY <3>2, <3>3, KeysAreFinite
  <2>3. Greatest(totals) \in totals
    <3> HIDE DEF totals
    <3> QED BY <1>5, <2>1, <2>2, DaysEnd
  <2> HIDE DEF totals
  <2> QED BY <1>2, <1>4, <1>5, <2>1, <2>3
<1>6. CASE totals = {}
  <2>1. GasTotals(gallons).high = 0
    BY <1>4, <1>6
  <2>2. CASE S = {}
    <3>1. SumOf(gallons, S) = 0
      BY <2>2, SumTakes, FS_EmptySet
    <3> QED BY <1>1, <1>2, <2>1, <3>1
  <2>3. CASE S # {}
    <3>1. PICK m \in S : TRUE
      BY <2>3
    <3>2. GasPrice(m)["station"] = Null
      BY <1>6, <3>1
    <3>3. Number(GasPrice(m)["station"]) = 0
      BY <3>2 DEF Number
    <3>4. 0 <= Dearest
      BY <3>1, <3>3, PricesAreKnown
    <3>5. SumFunction(gallons) * Dearest \in Nat
      BY <1>1, <1>2, <3>4
    <3> QED BY <1>2, <2>1, <3>5
  <2> QED BY <2>2, <2>3
<1> QED BY <1>2, <1>5, <1>6

LEMMA MonthsOfDays ==
    ASSUME NEW d, Sane(d), NEW ids \in SUBSET Stored(d.sessions), \A i \in ids : d.sessions[i].day # Null,
           NEW key, \A i \in ids : key[i] = Month(d.sessions[i].day)
    PROVE  LET months == {Month(day) : day \in DaysOf(d, ids)}
           IN  IsFiniteSet(months) /\ (\A m \in months : m \in Int) /\ \A i \in ids : key[i] \in months
<1> DEFINE months == {Month(day) : day \in DaysOf(d, ids)}
<1>1. \A i \in ids : d.sessions[i].day \in DaysOf(d, ids)
  BY DEF DaysOf
<1>2. DaysOf(d, ids) \subseteq Int /\ IsFiniteSet(DaysOf(d, ids))
  BY DaysAreDays
<1>3. \A m \in months : m \in Int
  BY <1>2, MonthsPass
<1>4. \A i \in ids : key[i] \in months
  BY <1>1
<1>5. months = {key[i] : i \in ids}
  <2>1. \A day \in DaysOf(d, ids) : \E i \in ids : day = d.sessions[i].day
    BY DEF DaysOf
  <2> QED BY <1>1, <2>1
<1>6. IsFiniteSet(ids)
  BY FiniteSessions, FS_Subset
<1>7. IsFiniteSet(months)
  <2> HIDE DEF months
  <2> QED BY <1>5, <1>6, KeysAreFinite
<1> QED BY <1>3, <1>4, <1>7

\* Charge for charge: the gallons of the months are the energy of the charges.
LEMMA ChargesAreCompared ==
    ASSUME NEW d, Sane(d), ~Signed
    PROVE  ChargeForCharge(d).gas.high <= TotalEnergy(d, Compared(d)) * Dearest
<1> DEFINE S == Compared(d)
           f == EnergyOf(d)
           key == [i \in S |-> Month(d.sessions[i].day)]
           K == {Month(day) : day \in DaysOf(d, S)}
           InMonth(m) == {i \in S : Month(d.sessions[i].day) = m}
           gallons == [m \in K |-> TotalEnergy(d, InMonth(m))]
<1>1. /\ S \subseteq Stored(d.sessions)
      /\ \A i \in S : d.sessions[i].day # Null /\ d.sessions[i].energy # Null
  BY DEF Compared, Charted
<1>2. \A i \in S : f[i] \in Int /\ 0 <= f[i]
  <2>1. ASSUME NEW i \in S PROVE f[i] \in Int /\ 0 <= f[i]
    <3>1. f[i] \in Amount
      BY <1>1, EnergiesAreAmounts
    <3> QED BY <3>1 DEF Amount
  <2> QED BY <2>1
<1>3. TotalEnergy(d, S) = SumOf(f, S) /\ IsFiniteSet(S)
  BY <1>1, EnergyIsSum
<1>4. IsFiniteSet(K) /\ (\A m \in K : m \in Int) /\ \A i \in S : key[i] \in K
  <2>1. \A i \in S : key[i] = Month(d.sessions[i].day)
    OBVIOUS
  <2> HIDE DEF key, S
  <2> QED BY <1>1, <2>1, MonthsOfDays
<1>5. ASSUME NEW m \in K
      PROVE  gallons[m] = SumOf(f, {i \in S : key[i] = m}) /\ gallons[m] \in Nat
  <2> DEFINE own == InMonth(m)
  <2>1. own \subseteq S /\ own = {i \in S : key[i] = m}
    OBVIOUS
  <2>2. gallons[m] = TotalEnergy(d, own)
    OBVIOUS
  <2> HIDE DEF own, gallons
  <2>3. TotalEnergy(d, own) = SumOf(f, own) /\ IsFiniteSet(own)
    BY <1>1, <2>1, EnergyIsSum
  <2>4. \A i \in own : f[i] \in Int /\ 0 <= f[i]
    BY <1>2, <2>1
  <2>5. SumOf(f, own) \in Nat
    <3> HIDE DEF f
    <3> QED BY <2>3, <2>4, SumIsNatural
  <2> QED BY <2>1, <2>2, <2>3, <2>5
<1>6. ChargeForCharge(d).gas = GasTotals(gallons) /\ DOMAIN gallons = K
  BY DEF ChargeForCharge
<1> HIDE DEF gallons, K, key, f, S
<1>7. SumFunction(gallons) = SumOf(f, S)
  BY <1>2, <1>3, <1>4, <1>5, <1>6, GroupsAddUp
<1>8. GasTotals(gallons).high <= SumFunction(gallons) * Dearest
  BY <1>4, <1>5, <1>6, GasIsAtMost
<1> QED BY <1>3, <1>6, <1>7, <1>8 DEF S

-----------------------------------------------------------------------------
(***************************************************************************)
(* Mile for mile, by the odometer or else by the trips.                    *)
(***************************************************************************)
Rise(readings) == [k \in 2 .. Len(readings) |-> Later(0, readings[k].km - readings[k - 1].km)]
Drop(readings) == [k \in 2 .. Len(readings) |-> Later(0, readings[k - 1].km - readings[k].km)]

LEMMA ReadingsAreRead ==
    ASSUME NEW readings \in Readings
    PROVE  /\ Len(readings) \in Nat
           /\ \A k \in 1 .. Len(readings) : readings[k].km \in Int /\ readings[k].day \in Int
<1> DEFINE R == [day : Int, km : Int]
<1>1. readings \in Seq(R)
  BY CostsAssumption, Zenon
<1>2. \A r \in R : r.km \in Int /\ r.day \in Int
  OBVIOUS
<1> HIDE DEF R
<1>3. Len(readings) \in Nat /\ \A k \in 1 .. Len(readings) : readings[k] \in R
  BY <1>1
<1> QED BY <1>2, <1>3

LEMMA OdometerRises ==
    ASSUME NEW readings \in Readings, NEW k \in 2 .. Len(readings)
    PROVE  /\ readings[k].km \in Int /\ readings[k - 1].km \in Int /\ readings[k].day \in Int
           /\ Rise(readings)[k] \in Nat /\ Drop(readings)[k] \in Nat
           /\ Rise(readings)[k] = Later(0, readings[k].km - readings[k - 1].km)
           /\ Rise(readings)[k] = (readings[k].km - readings[k - 1].km) + Drop(readings)[k]
           /\ readings[k].km > readings[k - 1].km \/ Rise(readings)[k] = 0
           /\ IF readings[k].km < readings[k - 1].km
              THEN Drop(readings)[k] = readings[k - 1].km - readings[k].km ELSE Drop(readings)[k] = 0
<1>1. k \in 1 .. Len(readings) /\ k - 1 \in 1 .. Len(readings)
  BY ReadingsAreRead
<1>2. readings[k].km \in Int /\ readings[k - 1].km \in Int /\ readings[k].day \in Int
  BY <1>1, ReadingsAreRead
<1>3. /\ Rise(readings)[k] = Later(0, readings[k].km - readings[k - 1].km)
      /\ Drop(readings)[k] = Later(0, readings[k - 1].km - readings[k].km)
  BY DEF Rise, Drop
<1> QED BY <1>2, <1>3 DEF Later

Risen(readings) ==
    {Month(readings[k].day) : k \in {n \in 2 .. Len(readings) : readings[n].km > readings[n - 1].km}}

\* A month's progress is what the odometer rose by; a month it did not rise in has none.
LEMMA ProgressIsRise ==
    ASSUME NEW readings \in Readings, Risen(readings) # {}
    PROVE  /\ DOMAIN Driven(readings) = Risen(readings) /\ IsFiniteSet(Risen(readings))
           /\ \A m \in Risen(readings) : m \in Int /\ Driven(readings)[m] \in Nat
           /\ SumFunction(Driven(readings)) = SumOf(Rise(readings), 2 .. Len(readings))
<1> DEFINE all == 2 .. Len(readings)
           K == Risen(readings)
           key == [k \in all |-> Month(readings[k].day)]
           S == {k \in all : key[k] \in K}
           f == Rise(readings)
           g == Driven(readings)
           up == {n \in all : readings[n].km > readings[n - 1].km}
<1>1. IsFiniteSet(all) /\ IsFiniteSet(S) /\ IsFiniteSet(up) /\ Len(readings) \in Nat
  <2>1. Len(readings) \in Nat
    BY ReadingsAreRead
  <2>2. IsFiniteSet(all)
    BY <2>1, FS_Interval
  <2>3. S \subseteq all /\ up \subseteq all
    OBVIOUS
  <2> HIDE DEF all, S, up
  <2> QED BY <2>1, <2>2, <2>3, FS_Subset
<1>2. \A k \in all : f[k] \in Nat /\ f[k] \in Int /\ 0 <= f[k] /\ key[k] \in Int
  <2>1. ASSUME NEW k \in all PROVE f[k] \in Nat /\ key[k] \in Int
    <3>1. f[k] \in Nat /\ readings[k].day \in Int /\ key[k] = Month(readings[k].day)
      BY OdometerRises
    <3> QED BY <3>1, MonthsPass
  <2> HIDE DEF f, key, all
  <2> QED BY <2>1
<1>3. K = {key[k] : k \in up}
  BY DEF Risen
<1>4. IsFiniteSet(K) /\ \A m \in K : m \in Int
  <2>1. \A k \in up : key[k] \in Int
    BY <1>2
  <2> HIDE DEF K, key, up
  <2>2. IsFiniteSet(K)
    BY <1>1, <1>3, KeysAreFinite
  <2> QED BY <1>3, <2>1, <2>2
<1>5. g = [m \in K |-> Progress(readings, m)]
  BY DEF Driven, Risen
<1>6. ASSUME NEW m \in K
      PROVE  g[m] = SumOf(f, {k \in S : key[k] = m}) /\ g[m] \in Nat
  <2> DEFINE own == {k \in S : key[k] = m}
             h == [k \in {n \in 2 .. Len(readings) : Month(readings[n].day) = m} |->
                      Later(0, readings[k].km - readings[k - 1].km)]
  <2>1. own = {n \in 2 .. Len(readings) : Month(readings[n].day) = m}
    OBVIOUS
  <2>2. g[m] = SumFunction(h)
    BY <1>5 DEF Progress
  <2>3. DOMAIN h = own /\ \A k \in own : h[k] \in Int /\ h[k] = f[k] /\ f[k] \in Int /\ 0 <= f[k]
    BY <1>2, <2>1, OdometerRises
  <2>4. own \subseteq S
    OBVIOUS
  <2> HIDE DEF own, h, S, f, g
  <2>5. IsFiniteSet(own)
    BY <1>1, <2>4, FS_Subset
  <2>6. SumFunction(h) = SumOf(f, own)
    BY <2>3, <2>5, SumFrom
  <2>7. SumOf(f, own) \in Nat
    BY <2>3, <2>5, SumIsNatural
  <2> QED BY <2>2, <2>6, <2>7 DEF own
<1>7. DOMAIN g = K
  BY <1>5
<1>8. \A k \in S : f[k] \in Int /\ key[k] \in K
  BY <1>2
<1>9. S \in SUBSET all /\ \A k \in all \ S : f[k] = 0
  <2>1. ASSUME NEW k \in all \ S PROVE f[k] = 0
    <3>1. k \notin up
      BY <1>3
    <3> QED BY <3>1, OdometerRises
  <2> QED BY <2>1
<1> HIDE DEF all, K, key, S, f, g, up
<1>10. SumFunction(g) = SumOf(f, S)
  BY <1>1, <1>4, <1>6, <1>7, <1>8, GroupsAddUp
<1>11. SumOf(f, all) = SumOf(f, S)
  BY <1>1, <1>2, <1>9, SumOfSome
<1> QED BY <1>4, <1>6, <1>7, <1>10, <1>11 DEF all, K, f, g

\* The distance is the odometer's, falls aside.
LEMMA DistanceIsOdometers ==
    ASSUME NEW readings \in Readings, Risen(readings) # {}
    PROVE  SumFunction(Driven(readings)) =
              readings[Len(readings)].km - readings[1].km
                + SumFunction([k \in {n \in 2 .. Len(readings) : readings[n].km < readings[n - 1].km} |->
                                  readings[k - 1].km - readings[k].km])
<1> DEFINE n == Len(readings)
           all == 2 .. n
           falls == {k \in all : readings[k].km < readings[k - 1].km}
           down == [k \in falls |-> readings[k - 1].km - readings[k].km]
           km == [k \in 1 .. n |-> readings[k].km]
           step == [k \in all |-> readings[k].km - readings[k - 1].km]
           rise == Rise(readings)
           drop == Drop(readings)
<1>1. n \in Int /\ 2 <= n /\ \A k \in 1 .. n : km[k] \in Int /\ km[k] = readings[k].km
  <2>1. all # {}
    BY DEF Risen
  <2> QED BY <2>1, ReadingsAreRead
<1>2. \A k \in all : /\ step[k] \in Int /\ rise[k] \in Int /\ drop[k] \in Int /\ rise[k] = step[k] + drop[k]
                     /\ (k \in falls => drop[k] = down[k]) /\ (k \notin falls => drop[k] = 0)
  BY OdometerRises
<1>3. \A k \in all : step[k] = km[k] - km[k - 1]
  <2>1. ASSUME NEW k \in all PROVE step[k] = km[k] - km[k - 1]
    <3>1. k \in 1 .. n /\ k - 1 \in 1 .. n
      BY <1>1
    <3> QED BY <3>1
  <2> QED BY <2>1
<1>4. IsFiniteSet(all) /\ falls \in SUBSET all /\ IsFiniteSet(falls) /\ DOMAIN down = falls
  <2>1. IsFiniteSet(all) /\ falls \subseteq all /\ DOMAIN down = falls
    BY <1>1, FS_Interval
  <2> HIDE DEF all, falls
  <2> QED BY <2>1, FS_Subset
<1>5. SumOf(rise, all) = SumOf(step, all) + SumOf(drop, all)
  <2>1. \A k \in all : step[k] \in Int /\ drop[k] \in Int /\ rise[k] = step[k] + drop[k]
    BY <1>2
  <2> HIDE DEF n, all, falls, down, km, rise, step, drop
  <2> QED BY <1>4, <2>1, SumPlus
<1>6. SumOf(step, all) = km[n] - km[1]
  <2> HIDE DEF step, km, n
  <2>1. 1 <= n
    BY <1>1
  <2>2. SumOf(step, 2 .. n) = km[n] - km[1]
    BY <1>1, <1>3, <2>1, SumOfSteps
  <2> QED BY <2>2
<1>7. SumOf(drop, all) = SumOf(drop, falls)
  <2> HIDE DEF all, drop, falls
  <2> QED BY <1>2, <1>4, SumOfSome
<1>8. SumFunction(down) = SumOf(drop, falls)
  <2>1. \A k \in falls : down[k] \in Int /\ down[k] = drop[k]
    BY <1>2, <1>4
  <2> HIDE DEF down, drop, falls
  <2> QED BY <1>4, <2>1, SumFrom
<1>9. SumFunction(Driven(readings)) = SumOf(rise, all)
  BY ProgressIsRise
<1>10. km[n] = readings[n].km /\ km[1] = readings[1].km
  BY <1>1
<1>11. SumFunction(Driven(readings)) = readings[n].km - readings[1].km + SumFunction(down)
  <2> HIDE DEF n, all, falls, down, km, step, rise, drop
  <2> QED BY <1>5, <1>6, <1>7, <1>8, <1>9, <1>10
<1> QED BY <1>11

\* The figures are what the forms ask for (min="0"), and no trip has a negative distance.
NothingNegative == ~Signed /\ \A t \in TripLog : 0 <= t.km

\* Whichever of the two it goes by, the months are finitely many and none is negative.
LEMMA DistancesAreNatural ==
    ASSUME NothingNegative, NEW readings \in Readings
    PROVE  LET driven == Driven(readings)
           IN  /\ IsFiniteSet(DOMAIN driven)
               /\ \A m \in DOMAIN driven : m \in Int /\ driven[m] \in Nat
<1>1. CASE Risen(readings) # {}
  BY <1>1, ProgressIsRise
<1>2. CASE Risen(readings) = {}
  <2> DEFINE key == [t \in TripLog |-> Month(t.day)]
             K == {Month(t.day) : t \in TripLog}
             g == Driven(readings)
  <2>1. g = [m \in K |-> SumFunction([t \in {u \in TripLog : Month(u.day) = m} |-> t.km])]
    BY <1>2 DEF Driven, Risen
  <2>2. IsFiniteSet(TripLog) /\ \A t \in TripLog : t.day \in Int /\ t.km \in Int /\ 0 <= t.km
    BY CostsAssumption DEF NothingNegative
  <2>3. IsFiniteSet(K) /\ \A m \in K : m \in Int
    <3>1. K = {key[t] : t \in TripLog} /\ \A t \in TripLog : key[t] \in Int
      BY <2>2, MonthsPass
    <3> HIDE DEF K, key
    <3>2. IsFiniteSet(K)
      BY <2>2, <3>1, KeysAreFinite
    <3> QED BY <3>1, <3>2
  <2>4. ASSUME NEW m \in K PROVE g[m] \in Nat
    <3> DEFINE own == {u \in TripLog : Month(u.day) = m}
               f == [t \in own |-> t.km]
    <3>1. own \subseteq TripLog
      OBVIOUS
    <3>2. IsFiniteSet(own)
      BY <2>2, <3>1, FS_Subset
    <3>3. DOMAIN f = own /\ \A t \in own : f[t] \in Int /\ f[t] = f[t] /\ 0 <= f[t]
      BY <2>2, <3>1
    <3>4. g[m] = SumFunction(f)
      BY <2>1
    <3> HIDE DEF own, f
    <3>5. SumFunction(f) = SumOf(f, own)
      BY <3>2, <3>3, SumFrom
    <3>6. SumOf(f, own) \in Nat
      BY <3>2, <3>3, SumIsNatural
    <3> QED BY <3>4, <3>5, <3>6
  <2>5. DOMAIN g = K
    BY <2>1
  <2> HIDE DEF g, K
  <2> QED BY <2>3, <2>4, <2>5 DEF g
<1> QED BY <1>1, <1>2

LEMMA ComparisonsDoNest ==
    ASSUME NEW d, Sane(d), NothingNegative
    PROVE  ComparisonsNest(d)
<1> DEFINE charges == ChargeForCharge(d)
           dated == {i \in Priceable(d) : d.sessions[i].day # Null}
<1>1. ~Signed
  BY DEF NothingNegative
<1>2. Compared(d) \in SUBSET dated /\ dated \in SUBSET Priceable(d) /\ Compared(d) \in SUBSET Priceable(d)
  BY DEF Compared, Charted
<1>3. /\ charges.ev.energy = TotalNamed(d, Compared(d))
      /\ charges.ev.fees = FeesOver(d, DaysOf(d, Compared(d)))
  BY DEF ChargeForCharge, AllIn
<1>4. \A readings \in Readings :
        /\ MileForMile(d, readings).ev.energy = TotalNamed(d, dated)
        /\ MileForMile(d, readings).ev.fees = FeesOver(d, DaysOf(d, dated))
        /\ MileForMile(d, readings).gas.high = GasTotals(Driven(readings)).high
        /\ MileForMile(d, readings).km = SumFunction(Driven(readings))
  BY DEF MileForMile, AllIn
<1>5. /\ TotalNamed(d, Compared(d)) <= TotalNamed(d, dated)
      /\ TotalNamed(d, dated) <= Dashboard(d).cost
  <2>1. Dashboard(d).cost = TotalNamed(d, Priceable(d))
    BY DEF Dashboard
  <2> HIDE DEF dated
  <2> QED BY <1>1, <1>2, <2>1, NamedTotalsNest
<1>6. FeesOver(d, DaysOf(d, Compared(d))) <= FeesOver(d, DaysOf(d, dated))
  <2>1. DaysOf(d, Compared(d)) \in SUBSET DaysOf(d, dated)
    BY <1>2 DEF DaysOf
  <2>2. dated \in SUBSET Stored(d.sessions)
    BY DEF Priceable
  <2> HIDE DEF dated
  <2>3. IsFiniteSet(DaysOf(d, dated)) /\ DaysOf(d, dated) \subseteq Int
    BY <2>2, DaysAreDays
  <2> QED BY <1>1, <2>1, <2>3, FeesGrow
<1>7. charges.gas.high <= TotalEnergy(d, Compared(d)) * Dearest
  BY <1>1, ChargesAreCompared
<1> HIDE DEF charges, dated
<1>8. ASSUME NEW readings \in Readings
      PROVE  LET miles == MileForMile(d, readings)
                 falls == {k \in 2 .. Len(readings) : readings[k].km < readings[k - 1].km}
             IN  /\ charges.ev.energy <= miles.ev.energy /\ charges.ev.fees <= miles.ev.fees
                 /\ miles.ev.energy <= Dashboard(d).cost
                 /\ (\E k \in 2 .. Len(readings) : readings[k].km > readings[k - 1].km) =>
                     miles.km = readings[Len(readings)].km - readings[1].km
                                 + SumFunction([k \in falls |-> readings[k - 1].km - readings[k].km])
                 /\ miles.gas.high <= miles.km * Dearest
  <2> DEFINE miles == MileForMile(d, readings)
  <2>1. /\ charges.ev.energy <= miles.ev.energy /\ charges.ev.fees <= miles.ev.fees
        /\ miles.ev.energy <= Dashboard(d).cost
    BY <1>3, <1>4, <1>5, <1>6
  <2>2. ASSUME \E k \in 2 .. Len(readings) : readings[k].km > readings[k - 1].km
        PROVE  SumFunction(Driven(readings)) = readings[Len(readings)].km - readings[1].km
                  + SumFunction([k \in {n \in 2 .. Len(readings) : readings[n].km < readings[n - 1].km} |->
                                    readings[k - 1].km - readings[k].km])
    <3>1. Risen(readings) # {}
      BY <2>2 DEF Risen
    <3> QED BY <3>1, DistanceIsOdometers
  <2>3. GasTotals(Driven(readings)).high <= SumFunction(Driven(readings)) * Dearest
    <3> DEFINE driven == Driven(readings)
    <3>1. IsFiniteSet(DOMAIN driven) /\ \A m \in DOMAIN driven : m \in Int /\ driven[m] \in Nat
      BY DistancesAreNatural
    <3> HIDE DEF driven
    <3>2. GasTotals(driven).high <= SumFunction(driven) * Dearest
      BY <3>1, GasIsAtMost
    <3> QED BY <3>2 DEF driven
  <2>4. miles.gas.high = GasTotals(Driven(readings)).high /\ miles.km = SumFunction(Driven(readings))
    BY <1>4
  <2>5. miles.gas.high <= miles.km * Dearest
    BY <2>3, <2>4
  <2>6. (\E k \in 2 .. Len(readings) : readings[k].km > readings[k - 1].km) =>
            miles.km = readings[Len(readings)].km - readings[1].km
                  + SumFunction([k \in {n \in 2 .. Len(readings) : readings[n].km < readings[n - 1].km} |->
                                    readings[k - 1].km - readings[k].km])
    BY <2>2, <2>4
  <2> QED BY <2>1, <2>5, <2>6
<1> QED BY <1>7, <1>8, Zenon DEF ComparisonsNest, charges

-----------------------------------------------------------------------------
\* What adds up whatever the figures are, negative ones included.
Balanced ==
    LET total == Summary(db).total
    IN  /\ SummaryMatchesExplorer(db) /\ PartsAddUp(db) /\ ListsAddUp(db)
        /\ OneRate(db) => total = SumFunction([i \in Configured(db) |-> PageCost(db, i)])
        /\ (\A i \in Sessions : PricedByName(db, i)) => Dashboard(db).cost = total

LEMMA BooksBalance == Sane(db) => Balanced
<1> SUFFICES ASSUME Sane(db) PROVE Balanced
  OBVIOUS
<1>1. SummaryMatchesExplorer(db) /\ PartsAddUp(db) /\ ListsAddUp(db)
  BY SummaryIsExplorers, PagesAddUp, ListsDoAddUp
<1>2. OneRate(db) => Summary(db).total = SumFunction([i \in Configured(db) |-> PageCost(db, i)])
  BY PagesAddUpToTotal
<1>3. (\A i \in Sessions : PricedByName(db, i)) => Dashboard(db).cost = Summary(db).total
  BY DashboardAddsUpToTotal DEF Sessions
<1> QED BY <1>1, <1>2, <1>3, Zenon DEF Balanced

\* Every page that adds up what charging cost adds up the same: the summary, the Cost
\* Explorer with its ledger, memberships and months, the chart, the list under its
\* filters, those of a bar's networks included; and the session pages and the dashboard where they apply the same cascade
\* (compute_session_cost, its callers).  Of any prices, fees and energies.
THEOREM BooksAreBalanced == ImportSpec => []Balanced
<1>1. PlacesTypeOK => Balanced
  BY BooksBalance DEF PlacesTypeOK, Sane
<1> QED BY <1>1, PlacesTypeCorrect, PTL

\* And nothing negative, no page counts more than one that counts more sessions: the
\* ratios divide no more than the total, the comparisons count no more than the
\* dashboard, nor charge for charge more than mile for mile, fees included, and no
\* gallon is dearer than the dearest price (query_gas_comparison,
\* query_distance_gas_comparison, query_dashboard_summary).
THEOREM CostsAddUp == ASSUME NothingNegative PROVE ImportSpec => []CostsAgree
<1>1. ASSUME Sane(db)
      PROVE  CostsAgree
  <2>1. Balanced /\ ComparisonsNest(db)
    BY <1>1, BooksBalance, ComparisonsDoNest
  <2>2. Sessions = Stored(db.sessions) /\ ~Signed
    BY DEF Sessions, NothingNegative
  <2>3. /\ Ratios(db).perKwh[1] <= Ratios(db).perSession[1]
        /\ (\A i \in Sessions : db.sessions[i].free => Number(db.sessions[i].cost) = 0) =>
              Ratios(db).perSession[1] <= Summary(db).total
    BY <1>1, <2>2, RatiosAreLess
  <2> QED BY <2>1, <2>3, Zenon DEF CostsAgree, Balanced
<1>2. PlacesTypeOK => CostsAgree
  BY <1>1 DEF PlacesTypeOK, Sane
<1> QED BY <1>2, PlacesTypeCorrect, PTL
===============================================================================
