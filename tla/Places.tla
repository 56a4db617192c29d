--------------------------------- MODULE Places ---------------------------------
(***************************************************************************)
(* Where the truck charges, and what it costs there: networks, the names   *)
(* merged into them, locations, the positions merged into those, stalls,   *)
(* membership periods, and the charging sessions that refer to them        *)
(* (db/models/reference.py).  A charge heard from a source finds or makes  *)
(* its network and location (resolve_network, resolve_location); the user  *)
(* corrects them, in Settings and in the Review Queue.                     *)
(*                                                                         *)
(* A handler is one transaction, so here it is one step, from a database   *)
(* to a database (see Trips).  Only the conversion of a network to a       *)
(* location commits twice.  Rows keep the columns others depend on.  A     *)
(* name stands for all its spellings (names are compared without case).    *)
(* A spot is a position along a line; two spots next to each other are     *)
(* within 100 m.  Null stands for NULL, for an absent form field, and for  *)
(* the network "UNKNOWN".                                                  *)
(***************************************************************************)
EXTENDS Integers, Sequences, FiniteSets

CONSTANTS
    Name,           \* of networks and of locations
    HomeName,       \* what the user calls home
    Nameless,       \* what a location is called for want of a name: its city, its address
    Address,
    Key,            \* session_id
    Uuid,           \* the keys that are made up for the sessions a user types
    Spot, Day,      \* subsets of Int
    NetId, PlaceId, GpsId, StallId, SessionId,      \* primary keys, 1 .. n (bounds)
    Predefined,     \* [Name -> [rate, free]]: PREDEFINED_NETWORKS
    Template,       \* [Name -> sequence of stall labels]: a network's chargers
    Similar,        \* pairs of names alike enough for _names_similar
    Home,           \* the spot of the user's home, or Null
    Charge,         \* the charges the sources report, by key
    Rate, Fee,      \* the prices per kWh and the monthly fee a user types
    Span,           \* the [from, to] of the periods a user types
    Signed,         \* whether energies and prices may be negative: the forms refuse it, a file does not
    Start,          \* the databases a behaviour begins with
    MaxSteps,       \* a bound
    Null, NoRow

VARIABLES db, converting, left

vars == <<db, converting, left>>

-----------------------------------------------------------------------------
(***************************************************************************)
(* The tables.  A key that is not in use has NoRow.                        *)
(***************************************************************************)
OrNull(S) == S \cup {Null}

\* An energy or a price.
Amount == IF Signed THEN Int ELSE Nat

Source == {"ha_fordpass", "fcon", "csv_import", "manual"}

NetworkRow ==
    [name : Name, verified : BOOLEAN, src : OrNull(Source), rate : OrNull(Amount), free : BOOLEAN]

PlaceRow ==
    [name : Name, at : OrNull(Spot), address : OrNull(Address), network : OrNull(NetId),
     rate : OrNull(Amount), verified : BOOLEAN, src : OrNull(Source)]

AliasRow == [place : PlaceId, at : Spot]

StallRow == [place : PlaceId, label : Int, default : BOOLEAN]

PeriodRow == [id : Nat, network : NetId, from : Int, to : OrNull(Int), rate : Amount, fee : Amount]

SessionRow ==
    [key : Key, name : OrNull(Name), network : OrNull(NetId), place : OrNull(PlaceId),
     stall : OrNull(StallId), at : OrNull(Spot), address : OrNull(Address), day : OrNull(Day),
     energy : OrNull(Amount), cost : OrNull(Amount), by : {Null, "manual", "calculated"},
     free : BOOLEAN, estimate : OrNull(Amount)]

Database ==
    [nets : [NetId -> NetworkRow \cup {NoRow}], aliases : [Name -> OrNull(NetId)],
     places : [PlaceId -> PlaceRow \cup {NoRow}], gps : [GpsId -> AliasRow \cup {NoRow}],
     stalls : [StallId -> StallRow \cup {NoRow}], periods : SUBSET PeriodRow,
     sessions : [SessionId -> SessionRow \cup {NoRow}]]

Stored(table) == {i \in DOMAIN table : table[i] # NoRow}

Least(S) == CHOOSE i \in S : \A j \in S : i <= j

\* SQLite's next primary key: one more than the highest there is.
NextId(table) == 1 + Cardinality({i \in DOMAIN table : \E j \in Stored(table) : i <= j})

Room(table) == NextId(table) \in DOMAIN table

Put(table, row) == [table EXCEPT ![NextId(table)] = row]

\* What a foreign key refers to.
Refers(x, table) == x = Null \/ x \in Stored(table)

SessionsRefer(d) ==
    \A i \in Stored(d.sessions) :
        Refers(d.sessions[i].network, d.nets) /\ Refers(d.sessions[i].stall, d.stalls)

KeysAreUnique(d) ==
    \A i, j \in Stored(d.sessions) : d.sessions[i].key = d.sessions[j].key => i = j

PeriodsAreUnique(d) == \A p, q \in d.periods : p.id = q.id => p = q

PlacesRefer(d) == \A p \in Stored(d.places) : Refers(d.places[p].network, d.nets)
NamesRefer(d) == \A name \in Name : Refers(d.aliases[name], d.nets)
PeriodsRefer(d) == \A p \in d.periods : p.network \in Stored(d.nets)
SpotsRefer(d) == \A g \in Stored(d.gps) : d.gps[g].place \in Stored(d.places)
StallsRefer(d) == \A s \in Stored(d.stalls) : d.stalls[s].place \in Stored(d.places)

\* Every foreign key refers to a row, and the id of a session or a period is its own.
Consistent(d) ==
    /\ SessionsRefer(d) /\ KeysAreUnique(d) /\ PeriodsAreUnique(d)
    /\ PlacesRefer(d) /\ NamesRefer(d) /\ PeriodsRefer(d)
    /\ SpotsRefer(d) /\ StallsRefer(d)

Typed(d) == d \in Database /\ IsFiniteSet(d.periods)

Conversion == [from : NetId, to : NetId, place : PlaceId, name : Name]

\* What a source reports of a charge.
Report ==
    [src : Source, network : OrNull(Name), name : OrNull(Name), at : OrNull(Spot),
     address : OrNull(Address), day : OrNull(Day), energy : OrNull(Amount), home : BOOLEAN]

ASSUME PlacesAssumption ==
    /\ \A S \in {NetId, PlaceId, GpsId, StallId, SessionId} :
            IsFiniteSet(S) /\ S = 1 .. Cardinality(S)
    /\ \A S \in {Spot, Day, Rate} : S \subseteq Int /\ IsFiniteSet(S) /\ S # {}
    /\ Signed \in BOOLEAN /\ Rate \subseteq Amount
    /\ {HomeName, Nameless} \subseteq Name /\ Uuid \subseteq Key /\ Home \in OrNull(Spot)
    /\ Predefined \in [Name -> [rate : OrNull(Amount), free : BOOLEAN]]
    /\ Template \in [Name -> Seq(Int)]
    /\ DOMAIN Charge \subseteq Key /\ \A key \in DOMAIN Charge : Charge[key] \in Report
    /\ Fee \in Amount /\ Span \subseteq [from : Int, to : OrNull(Int)]
    /\ MaxSteps \in Nat
    /\ Null \notin Name \cup Address \cup Key \cup Source \cup Int
    /\ NoRow \notin NetworkRow \cup PlaceRow \cup AliasRow \cup StallRow \cup SessionRow
    /\ \A d \in Start : Typed(d) /\ Consistent(d)

\* The first that is not NULL.
Either(a, b) == IF a # Null THEN a ELSE b

Network(name, verified, src, rate, free) ==
    [name |-> name, verified |-> verified, src |-> src, rate |-> rate, free |-> free]

Place(name, at, address, network, rate, verified, src) ==
    [name |-> name, at |-> at, address |-> address, network |-> network, rate |-> rate,
     verified |-> verified, src |-> src]

-----------------------------------------------------------------------------
(***************************************************************************)
(* resolve_network                                                         *)
(***************************************************************************)
Named(d, name) == {n \in Stored(d.nets) : d.nets[n].name = name}

\* The lookup finds two rows and raises: the handler fails.
Ambiguous(d, name) == Cardinality(Named(d, name)) > 1

\* The network a name leads to, or Null.
Known(d, name) == IF Named(d, name) # {} THEN Least(Named(d, name)) ELSE d.aliases[name]

Automatic(name, src) ==
    Network(name, FALSE, src, Predefined[name].rate, Predefined[name].free)

ResolveNetwork(d, name, src) ==
    IF name = Null \/ Known(d, name) # Null
    THEN [db |-> d, id |-> IF name = Null THEN Null ELSE Known(d, name)]
    ELSE [db |-> [d EXCEPT !.nets = Put(@, Automatic(name, src))], id |-> NextId(d.nets)]

-----------------------------------------------------------------------------
(***************************************************************************)
(* resolve_location, of an observation [at, address, name, network, home,  *)
(* src].                                                                   *)
(***************************************************************************)
Gap(a, b) == IF a > b THEN a - b ELSE b - a

Near(a, b) == Null \notin {a, b} /\ Gap(a, b) <= 1     \* LOCATION_MATCH_RADIUS_M

NamesSimilar(a, b) == Null \in {a, b} \/ a = b \/ <<a, b>> \in Similar \/ <<b, a>> \in Similar

AliasesNear(d, at) == {i \in Stored(d.gps) : Near(d.gps[i].at, at)}

\* Within reach, and not approved by the user under quite another name.
Acceptable(d, obs) ==
    {p \in Stored(d.places) :
        /\ Near(d.places[p].at, obs.at)
        /\ d.places[p].verified => NamesSimilar(obs.name, d.places[p].name)}

Closest(d, ids, at) ==
    LET distance(p) == Gap(d.places[p].at, at)
    IN  Least({p \in ids : \A q \in ids : distance(p) <= distance(q)})

AtAddress(d, address) ==
    {p \in Stored(d.places) : address # Null /\ d.places[p].address = address}

Match(d, obs) ==
    IF Acceptable(d, obs) # {} THEN Closest(d, Acceptable(d, obs), obs.at)
    ELSE IF AtAddress(d, obs.address) # {} THEN Least(AtAddress(d, obs.address))
    ELSE Null

\* Faulty variant: a row is filled whoever approved it.
FilledAlways(row, obs) ==
    [row EXCEPT !.address = Either(@, obs.address), !.at = Either(@, obs.at),
                !.network = Either(@, obs.network)]

\* A match gains what it lacks, unless it is the user's.
Filled(row, obs) ==
    IF row.src = "manual" THEN row
    ELSE [row EXCEPT !.address = Either(@, obs.address), !.at = Either(@, obs.at),
                     !.network = Either(@, obs.network)]

AtHome(d) == {p \in Stored(d.places) : Near(d.places[p].at, Home)}

NewPlace(obs) ==
    IF obs.home /\ Home # Null
    THEN Place(HomeName, Home, obs.address, Null, Null, FALSE, obs.src)
    ELSE Place(Either(obs.name, Nameless), obs.at, obs.address, obs.network, Null, FALSE, obs.src)

ResolvePlace(d, obs) ==
    IF obs.at = Null /\ obs.address = Null THEN [db |-> d, id |-> Null]
    ELSE IF AliasesNear(d, obs.at) # {}
    THEN [db |-> d, id |-> d.gps[Least(AliasesNear(d, obs.at))].place]
    ELSE IF Match(d, obs) # Null
    THEN [db |-> [d EXCEPT !.places[Match(d, obs)] = Filled(@, obs)], id |-> Match(d, obs)]
    ELSE IF obs.home /\ AtHome(d) # {} THEN [db |-> d, id |-> Least(AtHome(d))]
    ELSE [db |-> [d EXCEPT !.places = Put(@, NewPlace(obs))], id |-> NextId(d.places)]

\* inherit_network_from_location
Inherited(d, network, place) ==
    IF network = Null /\ place \in Stored(d.places) THEN d.places[place].network ELSE network

\* _default_stall: the first by label that is flagged, or the only one.
DefaultStall(d, place) ==
    LET here == {s \in Stored(d.stalls) : d.stalls[s].place = place}
        flagged == {s \in here : d.stalls[s].default}
    IN  IF flagged # {}
        THEN CHOOSE s \in flagged : \A o \in flagged : d.stalls[s].label <= d.stalls[o].label
        ELSE IF Cardinality(here) = 1 THEN Least(here) ELSE Null

-----------------------------------------------------------------------------
(***************************************************************************)
(* Sessions.                                                               *)
(***************************************************************************)
\* The rate a session is estimated at: its location's, else its network's; a rate of
\* zero counts as none.
Priced(rate) == rate \notin {Null, 0}

EstimateRate(d, network, place) ==
    IF place \in Stored(d.places) /\ Priced(d.places[place].rate) THEN d.places[place].rate
    ELSE IF network # Null /\ Priced(d.nets[network].rate) THEN d.nets[network].rate
    ELSE Null

Estimate(d, s) ==
    IF Null \in {s.energy, EstimateRate(d, s.network, s.place)} THEN Null
    ELSE s.energy * EstimateRate(d, s.network, s.place)

\* A charge a source reports: its location's name and network win over what it says.
AfterCharge(d, key) ==
    LET c == Charge[key]
        n == ResolveNetwork(d, c.network, c.src)
        p == ResolvePlace(n.db, [at |-> c.at, address |-> c.address, name |-> c.name,
                                 network |-> n.id, home |-> c.home, src |-> c.src])
        of == IF p.id \in Stored(p.db.places) THEN p.db.places[p.id] ELSE [name |-> Null, network |-> Null]
    IN  [p.db EXCEPT !.sessions = Put(@,
            [key |-> key, name |-> Either(of.name, c.name), network |-> Either(of.network, n.id),
             place |-> p.id, stall |-> DefaultStall(p.db, p.id), at |-> c.at,
             address |-> c.address, day |-> c.day, energy |-> c.energy, cost |-> Null,
             by |-> Null, free |-> FALSE, estimate |-> Null])]

\* The form of a new session names its network, picks its location from a list, and
\* leaves the free text for the location empty.
AfterEntry(d, key, name, place, energy, cost) ==
    LET n == ResolveNetwork(d, name, Null)
        s == [key |-> key, name |-> Null, network |-> Inherited(n.db, n.id, place),
              place |-> place, stall |-> Null, at |-> Null, address |-> Null, day |-> Least(Day),
              energy |-> energy, cost |-> cost, by |-> IF cost = Null THEN Null ELSE "manual",
              free |-> cost = 0, estimate |-> Null]
    IN  [n.db EXCEPT !.sessions = Put(@, [s EXCEPT !.estimate = Estimate(n.db, s)])]

\* An edit may give the session another network and another location.
AfterEdit(d, i, name, place) ==
    LET old == d.sessions[i]
        n == ResolveNetwork(d, name, Null)
        moved == [old EXCEPT !.network = Either(n.id, @), !.place = Either(place, @)]
        p == IF moved.place # Null THEN [db |-> n.db, id |-> moved.place]
             ELSE ResolvePlace(n.db, [at |-> old.at, address |-> old.address, name |-> old.name,
                                      network |-> moved.network, home |-> FALSE, src |-> "manual"])
        net == Inherited(p.db, moved.network, p.id)
        repriced == /\ net # old.network /\ old.by # "manual" /\ net # Null
                    /\ Priced(p.db.nets[net].rate) /\ old.energy # Null
        s == [moved EXCEPT !.place = p.id, !.network = net,
                           !.cost = IF repriced THEN p.db.nets[net].rate * old.energy ELSE @,
                           !.by = IF repriced THEN "calculated" ELSE @]
    IN  [p.db EXCEPT !.sessions[i] = [s EXCEPT !.estimate = Estimate(p.db, s)]]

\* Recalculate, for the sessions of a network; a location's rate counts even if zero.
Recalculated(d, n) ==
    LET own(s) == /\ s.place \in Stored(d.places) /\ d.places[s.place].network = n
                  /\ d.places[s.place].rate # Null
        rate(s) == IF own(s) THEN d.places[s.place].rate ELSE d.nets[n].rate
        again(s) == s # NoRow /\ s.network = n /\ s.energy \notin {Null, 0}
                    /\ (own(s) \/ Priced(d.nets[n].rate))
        recalculated(s) == IF again(s) THEN [s EXCEPT !.estimate = rate(s) * s.energy] ELSE s
    IN  [d EXCEPT !.sessions = [i \in SessionId |-> recalculated(d.sessions[i])]]

\* The bulk form sets, or clears, the network of the selected sessions, and may set
\* their location and their cost; it prices nothing anew.
AfterBulk(d, chosen, name, place, cost) ==
    LET n == ResolveNetwork(d, name, Null)
        changed(s) == [s EXCEPT !.network = n.id, !.place = Either(place, @), !.cost = Either(cost, @),
                                !.by = IF cost = Null THEN @ ELSE "manual"]
    IN  [n.db EXCEPT !.sessions = [i \in SessionId |->
            IF i \in chosen THEN changed(d.sessions[i]) ELSE d.sessions[i]]]

-----------------------------------------------------------------------------
(***************************************************************************)
(* Networks.                                                               *)
(***************************************************************************)
\* Every row of a table that refers to one network refers to another instead.
Repointed(table, n, m) ==
    [i \in DOMAIN table |-> IF table[i] = NoRow \/ table[i].network # n THEN table[i]
                            ELSE [table[i] EXCEPT !.network = m]]

\* The foreign keys: names and periods go with it, sessions and locations lose it.
WithoutNetwork(d, n) ==
    [d EXCEPT !.nets[n] = NoRow,
              !.aliases = [name \in Name |-> IF d.aliases[name] = n THEN Null ELSE d.aliases[name]],
              !.periods = {p \in d.periods : p.network # n},
              !.places = Repointed(d.places, n, Null),
              !.sessions = Repointed(d.sessions, n, Null)]

\* Faulty variant: the sessions stay behind.
MovedWithoutSessions(d, n, m) ==
    [d EXCEPT !.places = Repointed(d.places, n, m),
              !.periods = {IF p.network = n THEN [p EXCEPT !.network = m] ELSE p : p \in d.periods}]

\* What refers to the source of a merge refers to the target.
Moved(d, n, m) ==
    [d EXCEPT !.sessions = Repointed(d.sessions, n, m),
              !.places = Repointed(d.places, n, m),
              !.periods = {IF p.network = n THEN [p EXCEPT !.network = m] ELSE p : p \in d.periods}]

\* merge_network: the source's name becomes the target's, unless it is one already.
AfterMerge(d, n, m) ==
    LET name == d.nets[n].name
    IN  WithoutNetwork([Moved(d, n, m) EXCEPT !.aliases[name] = IF @ = Null THEN m ELSE @], n)

\* The second transaction of a conversion.
AfterConversion(d, n, m, place, name) ==
    WithoutNetwork([d EXCEPT !.sessions = [i \in SessionId |->
        IF d.sessions[i] = NoRow \/ d.sessions[i].network # n THEN d.sessions[i]
        ELSE [d.sessions[i] EXCEPT !.network = m, !.place = place, !.name = name]]], n)

-----------------------------------------------------------------------------
(***************************************************************************)
(* Locations and stalls.  location_id of a session is no foreign key.      *)
(***************************************************************************)
WithoutStalls(d, gone) ==
    [d EXCEPT !.stalls = [s \in StallId |-> IF s \in gone THEN NoRow ELSE d.stalls[s]],
              !.sessions = [i \in SessionId |->
                  IF d.sessions[i] = NoRow \/ d.sessions[i].stall \notin gone THEN d.sessions[i]
                  ELSE [d.sessions[i] EXCEPT !.stall = Null]]]

WithoutPlace(d, p) ==
    WithoutStalls([d EXCEPT !.places[p] = NoRow,
                            !.gps = [g \in GpsId |->
                                IF d.gps[g] = NoRow \/ d.gps[g].place # p THEN d.gps[g] ELSE NoRow]],
                  {s \in Stored(d.stalls) : d.stalls[s].place = p})

\* The target of a merge remembers where the source was, unless that is known.
Remembered(d, p, q) ==
    IF d.places[p].at = Null \/ \E i \in AliasesNear(d, d.places[p].at) : d.gps[i].place = q
    THEN d.gps ELSE Put(d.gps, [place |-> q, at |-> d.places[p].at])

\* merge_location
AfterPlaceMerge(d, p, q) ==
    WithoutPlace(
        [d EXCEPT !.sessions = [i \in SessionId |->
                      IF d.sessions[i] = NoRow \/ d.sessions[i].place # p THEN d.sessions[i]
                      ELSE [d.sessions[i] EXCEPT !.place = q]],
                  !.stalls = [s \in StallId |->
                      IF d.stalls[s] = NoRow \/ d.stalls[s].place # p THEN d.stalls[s]
                      ELSE [d.stalls[s] EXCEPT !.place = q]],
                  !.gps = Remembered(d, p, q)], p)

\* prefill_stalls: one stall for each charger the network is known for, each time.
AfterPrefill(d, p) ==
    LET n == d.places[p].network
        labels == IF n = Null THEN <<>> ELSE Template[d.nets[n].name]
        nth(s) == s - NextId(d.stalls) + 1
    IN  [d EXCEPT !.stalls = [s \in StallId |->
            IF nth(s) \in DOMAIN labels THEN [place |-> p, label |-> labels[nth(s)], default |-> FALSE]
            ELSE d.stalls[s]]]

-----------------------------------------------------------------------------
(***************************************************************************)
(* Membership periods.  An end of Null is open.                            *)
(***************************************************************************)
Starts(day, p) == p.from <= day
Ends(day, p) == p.to # Null /\ p.to < day

Covers(p, day) == Starts(day, p) /\ ~Ends(day, p)

\* Faulty variant: the last day is not part of a period.
OverlapsOpen(p, span) ==
    /\ p.to = Null \/ span.from < p.to
    /\ span.to = Null \/ p.from < span.to

\* validate_no_overlap
Overlaps(p, span) ==
    /\ p.to = Null \/ span.from <= p.to
    /\ span.to = Null \/ p.from <= span.to

Free(d, n, span, itself) ==
    \A p \in d.periods \ itself : p.network = n => ~Overlaps(p, span)

Period(id, n, span, rate, fee) ==
    [id |-> id, network |-> n, from |-> span.from, to |-> span.to, rate |-> rate, fee |-> fee]

FreshId(d) == Least((1 .. Cardinality(d.periods) + 1) \ {p.id : p \in d.periods})

\* find_active_subscription takes the first of these.
Covering(d, n, day) == {p \in d.periods : p.network = n /\ Covers(p, day)}

-----------------------------------------------------------------------------
(***************************************************************************)
(* The specification.                                                      *)
(***************************************************************************)
\* A handler commits what it made of the database.
Commits(d) == /\ left > 0
              /\ db' = d /\ left' = left - 1
              /\ UNCHANGED converting

RoomIn(d) == Room(d.nets) /\ Room(d.places) /\ Room(d.stalls) /\ Room(d.sessions)

Roomy == RoomIn(db)

Nets == Stored(db.nets)
Locations == Stored(db.places)
Sessions == Stored(db.sessions)

Recorded(d, key) == \E i \in Stored(d.sessions) : d.sessions[i].key = key

\* A charge is recorded once (see Charges); with an ambiguous name it is not.
HearsCharge(key) ==
    /\ ~Recorded(db, key) /\ ~Ambiguous(db, Charge[key].network) /\ Roomy
    /\ Commits(AfterCharge(db, key))

EntersSession(name, place) ==
    \E key \in Uuid : \E cost \in {Null, 0} :
        /\ ~Ambiguous(db, name) /\ Roomy /\ ~Recorded(db, key)
        /\ Commits(AfterEntry(db, key, name, place, 10, cost))

EditsSession(i, name, place) ==
    /\ ~Ambiguous(db, name) /\ Roomy
    /\ Commits(AfterEdit(db, i, name, place))

EditsInBulk(chosen, name, place, cost) ==
    /\ ~Ambiguous(db, name) /\ Roomy
    /\ Commits(AfterBulk(db, chosen, name, place, cost))

DeletesSession(i) == Commits([db EXCEPT !.sessions[i] = NoRow])

Recalculates(n) == Commits(Recalculated(db, n))

CreatesNetwork(name, rate) ==
    /\ Roomy
    /\ Commits([db EXCEPT !.nets = Put(@, Network(name, TRUE, Null, Either(rate, Predefined[name].rate), FALSE))])

EditsNetwork(n, name, rate) == Commits([db EXCEPT !.nets[n].name = name, !.nets[n].rate = rate])

VerifiesNetwork(n) == Commits([db EXCEPT !.nets[n].verified = TRUE, !.nets[n].src = "manual"])
UnverifiesNetwork(n) == Commits([db EXCEPT !.nets[n].verified = FALSE])

DeletesNetwork(n) == Commits(WithoutNetwork(db, n))

MergesNetwork(n, m) == n # m /\ Commits(AfterMerge(db, n, m))

\* create_location has committed before the sessions are looked for.
StartsConversion(n, m, name) ==
    /\ converting = Null /\ n # m /\ Roomy /\ left > 0
    /\ db' = [db EXCEPT !.places = Put(@, Place(name, Null, Null, m, db.nets[n].rate, TRUE, Null))]
    /\ converting' = [from |-> n, to |-> m, place |-> NextId(db.places), name |-> name]
    /\ left' = left - 1

\* By now either network may be gone; a session cannot be given one that is.
FinishesConversion ==
    /\ converting # Null /\ converting' = Null /\ UNCHANGED left
    /\ \/ /\ converting.from \in Nets
          /\ converting.to \in Nets \/ \A i \in Sessions : db.sessions[i].network # converting.from
          /\ db' = AfterConversion(db, converting.from, converting.to, converting.place, converting.name)
       \/ UNCHANGED db     \* it fails, or the process ends

CreatesPlace(name, network, at) ==
    /\ Roomy
    /\ Commits([db EXCEPT !.places = Put(@, Place(name, at, Null, network, Null, TRUE, Null))])

EditsPlace(p, name, network, at, rate) ==
    Commits([db EXCEPT !.places[p] = [@ EXCEPT !.name = name, !.network = network, !.at = at, !.rate = rate]])

VerifiesPlace(p) == Commits([db EXCEPT !.places[p].verified = TRUE, !.places[p].src = "manual"])
UnverifiesPlace(p) == Commits([db EXCEPT !.places[p].verified = FALSE])

\* Sets the network, found or made by name, and nothing else.
Associates(p, name) ==
    LET own == Network(name, FALSE, "manual", Null, FALSE)
        n == IF Named(db, name) # {} THEN [db |-> db, id |-> Least(Named(db, name))]
             ELSE [db |-> [db EXCEPT !.nets = Put(@, own)], id |-> NextId(db.nets)]
    IN  /\ ~Ambiguous(db, name) /\ Roomy
        /\ Commits([n.db EXCEPT !.places[p].network = n.id])

\* A network named like the location, whether or not there is one.
Promotes(p) ==
    /\ Roomy
    /\ Commits([db EXCEPT
            !.nets = Put(@, Network(db.places[p].name, TRUE, "manual", Null, FALSE)),
            !.places[p] = [@ EXCEPT !.network = NextId(db.nets), !.verified = TRUE, !.src = "manual"]])

DeletesPlace(p) == Commits(WithoutPlace(db, p))

MergesPlace(p, q) == p # q /\ Room(db.gps) /\ Commits(AfterPlaceMerge(db, p, q))

AddsStall(p, label, default) ==
    /\ Roomy
    /\ Commits([db EXCEPT !.stalls = Put(@, [place |-> p, label |-> label, default |-> default])])

EditsStall(s, default) == Commits([db EXCEPT !.stalls[s].default = default])
DeletesStall(s) == Commits(WithoutStalls(db, {s}))

Prefills(p) == /\ Room(AfterPrefill(db, p).stalls) /\ Commits(AfterPrefill(db, p))

AddsPeriod(n, span, rate) ==
    /\ Free(db, n, span, {})
    /\ Commits([db EXCEPT !.periods = @ \cup {Period(FreshId(db), n, span, rate, Fee)}])

EditsPeriod(p, span) ==
    /\ Free(db, p.network, span, {p})
    /\ Commits([db EXCEPT !.periods = (@ \ {p}) \cup {Period(p.id, p.network, span, p.rate, p.fee)}])

DeletesPeriod(p) == Commits([db EXCEPT !.periods = @ \ {p}])

Charges ==
    \E key \in DOMAIN Charge : HearsCharge(key)

EditsSessions ==
    \E name \in Name \cup {Null} : \E place \in Locations \cup {Null} :
        \/ EntersSession(name, place)
        \/ \E i \in Sessions : EditsSession(i, name, place)
        \/ \E cost \in {Null, 7} : EditsInBulk(Sessions, name, place, cost)

EditsNetworks ==
    \/ \E name \in Name : \E rate \in Rate \cup {Null} :
            CreatesNetwork(name, rate) \/ \E n \in Nets : EditsNetwork(n, name, rate)
    \/ \E n \in Nets :
        \/ Recalculates(n) \/ VerifiesNetwork(n) \/ UnverifiesNetwork(n) \/ DeletesNetwork(n)
        \/ \E m \in Nets : MergesNetwork(n, m) \/ \E name \in Name : StartsConversion(n, m, name)
        \/ \E span \in Span : AddsPeriod(n, span, Least(Rate))
    \/ FinishesConversion
    \/ \E p \in db.periods : DeletesPeriod(p) \/ \E span \in Span : EditsPeriod(p, span)

EditsPlaces ==
    \E p \in Locations :
        \/ VerifiesPlace(p) \/ UnverifiesPlace(p) \/ Promotes(p) \/ DeletesPlace(p) \/ Prefills(p)
        \/ \E q \in Locations : MergesPlace(p, q)
        \/ \E name \in Name : \/ Associates(p, name)
            \/ \E network \in {Null, db.places[p].network} : EditsPlace(p, name, network, Least(Spot), Least(Rate))
        \/ \E label \in {1, 2} : \E default \in BOOLEAN : AddsStall(p, label, default)

EditsStalls ==
    \E s \in Stored(db.stalls) : DeletesStall(s) \/ \E default \in BOOLEAN : EditsStall(s, default)

EditsReference ==
    \/ EditsNetworks \/ EditsPlaces \/ EditsStalls
    \/ \E name \in Name : \E n \in Nets : \E at \in Spot \cup {Null} : CreatesPlace(name, n, at)
    \/ \E i \in Sessions : DeletesSession(i)

Init == db \in Start /\ converting = Null /\ left = MaxSteps

Next == Charges \/ EditsSessions \/ EditsReference

Spec == Init /\ [][Next]_vars
=============================================================================
