---------------------------------- MODULE Costs ---------------------------------
(***************************************************************************)
(* What charging cost: compute_session_cost, and the three pages that add  *)
(* it up: the sessions' own (queries/settings.py hands it the periods      *)
(* newest first), the cost summary (queries/costs.py, oldest first) and    *)
(* the Cost Explorer (queries/cost_explorer.py).  The list of sessions     *)
(* gives it no periods; the dashboard (queries/dashboard.py) and the       *)
(* comparisons with gas (queries/comparisons.py) give it the networks by   *)
(* name.  Gallons are in kWh, and a month has 30 days.                     *)
(***************************************************************************)
EXTENDS Places, Functions, FiniteSetsExt

CONSTANTS
    GasPrices,      \* the price history: a set of [month, station, average]
    DefaultGas,     \* without any history
    Readings,       \* of the odometer: the sequences of [day, km] there may be
    TripLog,        \* the trips with an end and a distance: a set of [day, km]
    MaxCharted      \* _MAX_CHART_NETWORKS: the names a chart shows apart

ASSUME CostsAssumption ==
    /\ IsFiniteSet(GasPrices) /\ DefaultGas \in Int
    /\ GasPrices \subseteq [month : Int, station : OrNull(Int), average : OrNull(Int)]
    /\ \A readings \in Readings : readings \in Seq([day : Int, km : Int])
    /\ IsFiniteSet(TripLog) /\ TripLog \subseteq [day : Int, km : Int]
    /\ MaxCharted \in Nat

Number(x) == IF x = Null THEN 0 ELSE x

\* find_active_subscription, of periods in one order or the other.
Oldest(periods) == CHOOSE p \in periods : \A q \in periods : p.from <= q.from
Newest(periods) == CHOOSE p \in periods : \A q \in periods : q.from <= p.from

PeriodsOf(d, s) ==
    IF Null \in {s.network, s.day} THEN {} ELSE Covering(d, s.network, s.day)

\* Null: no period covers the session's day.
FirstActive(d, s) == IF PeriodsOf(d, s) = {} THEN Null ELSE Oldest(PeriodsOf(d, s))
LastActive(d, s)  == IF PeriodsOf(d, s) = {} THEN Null ELSE Newest(PeriodsOf(d, s))

PlaceRate(d, s) == IF s.place \in Stored(d.places) THEN Number(d.places[s.place].rate) ELSE 0
NetworkRate(d, s) == IF s.network = Null THEN 0 ELSE Number(d.nets[s.network].rate)
NetworkIsFree(d, s) == s.network # Null /\ d.nets[s.network].free

MemberRate(d, s, period) == IF period = Null THEN NetworkRate(d, s) ELSE period.rate

\* The cascade; Null: nothing to go by.
DisplayCost(d, s, period) ==
    IF s.free THEN 0
    ELSE IF s.cost # Null THEN s.cost
    ELSE IF NetworkIsFree(d, s) THEN 0
    ELSE IF PlaceRate(d, s) # 0 THEN Number(s.energy) * PlaceRate(d, s)
    ELSE IF NetworkRate(d, s) # 0 THEN Number(s.energy) * MemberRate(d, s, period)
    ELSE Null

\* subscription_active: a member rate applied, or could have.
AsMember(d, s, period) == period # Null /\ NetworkRate(d, s) # 0 /\ Number(s.energy) > 0

NonMemberCost(d, s) == s.energy * NetworkRate(d, s)

-----------------------------------------------------------------------------
\* The sessions' pages.
PageCost(d, i) == DisplayCost(d, d.sessions[i], LastActive(d, d.sessions[i]))

\* query_cost_summary
SummaryCost(d, i) == DisplayCost(d, d.sessions[i], FirstActive(d, d.sessions[i]))

TotalCost(d, ids) == SumFunction([i \in ids |-> SummaryCost(d, i)])
TotalEnergy(d, ids) == SumFunction([i \in ids |-> d.sessions[i].energy])

Configured(d) == {i \in Stored(d.sessions) : SummaryCost(d, i) # Null}

Saved(d, i) ==
    LET s == d.sessions[i]
    IN  IF AsMember(d, s, FirstActive(d, s)) THEN NonMemberCost(d, s) - SummaryCost(d, i) ELSE 0

\* The heading a session is counted under: a name.
Heading(d, i) ==
    LET s == d.sessions[i] IN IF s.network = Null THEN s.name ELSE d.nets[s.network].name

Summary(d) ==
    [total |-> TotalCost(d, Configured(d)),
     saved |-> SumFunction([i \in Configured(d) |-> Saved(d, i)]),
     byNetwork |-> [h \in {Heading(d, i) : i \in Configured(d)} |->
        TotalCost(d, {i \in Configured(d) : Heading(d, i) = h})]]

-----------------------------------------------------------------------------
(***************************************************************************)
(* query_cost_explorer, over the sessions that have some energy.           *)
(***************************************************************************)
Explored(d) == {i \in Configured(d) : Number(d.sessions[i].energy) > 0}

\* Faulty variant: only the sessions a membership applied to.
WithoutOthers(d, i) ==
    LET s == d.sessions[i]
    IN  IF AsMember(d, s, FirstActive(d, s)) THEN NonMemberCost(d, s) ELSE 0

\* Without the membership.
Without(d, i) ==
    LET s == d.sessions[i]
    IN  IF AsMember(d, s, FirstActive(d, s)) THEN NonMemberCost(d, s) ELSE SummaryCost(d, i)

IsFree(d, i) == d.sessions[i].free \/ NetworkIsFree(d, d.sessions[i])

\* The what-if bills free sessions at the reference rate.
WhatIf(d, i, reference) ==
    IF IsFree(d, i) THEN d.sessions[i].energy * reference ELSE SummaryCost(d, i)

Month(day) == day \div 30

Later(a, b) == IF a < b THEN b ELSE a
Earlier(a, b) == IF a < b THEN a ELSE b

\* The days the sessions span, and the periods that touch them.
DaysOf(d, ids) == {d.sessions[i].day : i \in ids} \ {Null}
Days(d) == DaysOf(d, Explored(d))

Greatest(days) == CHOOSE x \in days : \A y \in days : y <= x

End(days, p) == IF p.to = Null THEN Greatest(days) ELSE p.to

Touched(d, days) ==
    IF days = {} THEN {}
    ELSE {p \in d.periods : p.from <= Greatest(days) /\ End(days, p) >= Least(days)}

\* calculate_fee_breakdown: each calendar month a period touches is paid in full.
Months(days, p) ==
    LET from == Later(p.from, Least(days))
        to == Earlier(End(days, p), Greatest(days))
    IN  IF from > to THEN 0 ELSE Month(to) - Month(from) + 1

FeesOf(days, periods) == SumFunction([p \in periods |-> Months(days, p) * p.fee])
FeesOver(d, days) == FeesOf(days, Touched(d, days))
Fees(d) == FeesOver(d, Days(d))

\* The ledger: what each network's sessions cost, and would at the reference rate.
Ledger(d, reference) ==
    [n \in {d.sessions[i].network : i \in Explored(d)} |->
        LET own == {i \in Explored(d) : d.sessions[i].network = n}
        IN  [paid |-> TotalCost(d, own),
             atReference |-> SumFunction([i \in own |-> d.sessions[i].energy * reference])]]

\* The memberships in range: what their networks' members paid, and the fees.
Members(d) == {i \in Explored(d) : AsMember(d, d.sessions[i], FirstActive(d, d.sessions[i]))}

Memberships(d) ==
    [n \in {p.network : p \in Touched(d, Days(d))}
            \cup {d.sessions[i].network : i \in Members(d)} |->
        [energy |-> TotalCost(d, {i \in Members(d) : d.sessions[i].network = n}),
         fees |-> FeesOf(Days(d), {p \in Touched(d, Days(d)) : p.network = n})]]

\* The chart: month by month, of the sessions that have a date.
Monthly(d, reference) ==
    [m \in {Month(day) : day \in Days(d)} |->
        LET own == {i \in Explored(d) : d.sessions[i].day # Null /\ Month(d.sessions[i].day) = m}
        IN  SumFunction([i \in own |-> WhatIf(d, i, reference)])]

Explorer(d, reference) ==
    LET paid == TotalCost(d, Explored(d))
        without == SumFunction([i \in Explored(d) |-> Without(d, i)])
    IN  [energy |-> paid, headline |-> paid + Fees(d), without |-> without,
         saved |-> without - (paid + Fees(d)),
         whatIf |-> SumFunction([i \in Explored(d) |-> WhatIf(d, i, reference)]) + Fees(d),
         atReference |-> SumFunction([i \in Explored(d) |-> d.sessions[i].energy * reference]),
         ledger |-> Ledger(d, reference), memberships |-> Memberships(d),
         monthly |-> Monthly(d, reference)]

-----------------------------------------------------------------------------
(***************************************************************************)
(* The list of sessions and its export, the dashboard, the ratios and the  *)
(* comparisons.                                                            *)
(***************************************************************************)
\* query_sessions: the days of a window, both included, and any of some networks; no
\* networks is no condition.
InDays(day, w) ==
    /\ w.from # Null => day # Null /\ w.from <= day
    /\ w.to # Null => day # Null /\ day <= w.to

ListOf(d, w, networks) ==
    {i \in Stored(d.sessions) :
        InDays(d.sessions[i].day, w) /\ (networks = {} \/ d.sessions[i].network \in networks)}

ListSummary(d, w, networks) ==
    [count |-> Cardinality(ListOf(d, w, networks)),
     kwh |-> SumFunction([i \in ListOf(d, w, networks) |-> Number(d.sessions[i].energy)])]

\* What the list shows as a session's cost, and what it sorts by as such.
ListCost(d, i) == DisplayCost(d, d.sessions[i], Null)
SortKey(d, i) == IF d.sessions[i].free THEN 0 ELSE Number(d.sessions[i].cost)

\* get_networks_by_name: the last of several networks of one name.
NamedNetwork(d, name) ==
    IF name = Null \/ Named(d, name) = {} THEN Null ELSE Greatest(Named(d, name))

\* Neither location nor period, and the network is the one the location is named like.
NamedCost(d, i) ==
    LET s == d.sessions[i]
    IN  DisplayCost(d, [s EXCEPT !.network = NamedNetwork(d, s.name), !.place = Null], Null)

TotalNamed(d, ids) == SumFunction([i \in ids |-> NamedCost(d, i)])

\* The sessions a legacy caller finds a cost for.
Priceable(d) == {i \in Stored(d.sessions) : NamedCost(d, i) # Null}

\* query_dashboard_summary
Dashboard(d) ==
    [energy |-> SumFunction([i \in Stored(d.sessions) |-> Number(d.sessions[i].energy)]),
     cost |-> TotalNamed(d, Priceable(d))]

\* The dashboard's chart: of the sessions with a day and an energy.
Charted(d) == {i \in Stored(d.sessions) : Null \notin {d.sessions[i].day, d.sessions[i].energy}}

\* The chart has names for networks, which two of them may share.
Label(d, i) ==
    LET n == d.sessions[i].network IN IF n = Null THEN "Unknown" ELSE d.nets[n].name

Labels(d) == {Label(d, i) : i \in Charted(d)}
LabelEnergy(d, labels) == TotalEnergy(d, {i \in Charted(d) : Label(d, i) \in labels})

\* _bucket_minor_networks: the names beyond the first few by energy.
Minor(d) ==
    IF Cardinality(Labels(d)) <= MaxCharted THEN {}
    ELSE Labels(d) \ CHOOSE top \in kSubset(MaxCharted, Labels(d)) :
            \A shown \in top : \A rest \in Labels(d) \ top :
                LabelEnergy(d, {rest}) <= LabelEnergy(d, {shown})

\* The bar a session is in: a month, and a name or "Other".
BarOf(d, i) ==
    <<Month(d.sessions[i].day),
      IF Label(d, i) \in Minor(d) /\ LabelEnergy(d, Minor(d)) > 0 THEN "Other" ELSE Label(d, i)>>

\* build_monthly_energy_by_network_chart
EnergyByMonth(d) ==
    [bar \in {BarOf(d, i) : i \in Charted(d)} |->
        TotalEnergy(d, {i \in Charted(d) : BarOf(d, i) = bar})]

\* The networks a bar stands for.
BarNetworks(d, bar) == {d.sessions[i].network : i \in {j \in Charted(d) : BarOf(d, j) = bar}}

\* The ratios divide what is stored, whatever the cascade would say.
Billed(d) == {i \in Stored(d.sessions) : d.sessions[i].cost # Null}
Metered(d) == {i \in Billed(d) : Number(d.sessions[i].energy) > 0}

Ratios(d) ==
    [perSession |-> <<SumFunction([i \in Billed(d) |-> d.sessions[i].cost]), Cardinality(Billed(d))>>,
     perKwh |-> <<SumFunction([i \in Metered(d) |-> d.sessions[i].cost]),
                  TotalEnergy(d, Metered(d))>>]

\* _find_gas_price: of that month, or of the last one before it that has any.
GasPrice(month) ==
    LET known == {g \in GasPrices : g.month <= month}
    IN  IF known = {} THEN [station |-> DefaultGas, average |-> DefaultGas]
        ELSE CHOOSE g \in known : \A h \in known : h.month <= g.month

\* What gallons, each of a month, cost at both prices: low and high.
GasTotals(gallons) ==
    LET at(track) == SumFunction([m \in DOMAIN gallons |-> gallons[m] * Number(GasPrice(m)[track])])
        has(track) == \E m \in DOMAIN gallons : GasPrice(m)[track] # Null
        totals == {at(track) : track \in {t \in {"station", "average"} : has(t)}}
    IN  IF totals = {} THEN [low |-> 0, high |-> 0]
        ELSE [low |-> Least(totals), high |-> Greatest(totals)]

\* Energy and fees, of sessions that have a cost and a day.
AllIn(d, ids) ==
    [energy |-> TotalNamed(d, ids), fees |-> FeesOver(d, DaysOf(d, ids))]

\* query_gas_comparison: charge for charge, by energy.
Compared(d) == {i \in Priceable(d) \cap Charted(d) : d.sessions[i].energy > 0}

ChargeForCharge(d) ==
    LET inMonth(m) == {i \in Compared(d) : Month(d.sessions[i].day) = m}
        gallons == [m \in {Month(day) : day \in DaysOf(d, Compared(d))} |->
                        TotalEnergy(d, inMonth(m))]
    IN  [ev |-> AllIn(d, Compared(d)), gas |-> GasTotals(gallons)]

\* _monthly_distance_from_odometer: a fall is skipped.
Progress(readings, month) ==
    SumFunction([k \in {n \in 2 .. Len(readings) : Month(readings[n].day) = month} |->
                    Later(0, readings[k].km - readings[k - 1].km)])

\* query_distance_gas_comparison: mile for mile, by the odometer, or else by the trips.
Driven(readings) ==
    LET progressed == {Month(readings[k].day) : k \in
                          {n \in 2 .. Len(readings) : readings[n].km > readings[n - 1].km}}
        inMonth(m) == {t \in TripLog : Month(t.day) = m}
    IN  IF progressed # {} THEN [m \in progressed |-> Progress(readings, m)]
        ELSE [m \in {Month(t.day) : t \in TripLog} |-> SumFunction([t \in inMonth(m) |-> t.km])]

MileForMile(d, readings) ==
    [ev |-> AllIn(d, {i \in Priceable(d) : d.sessions[i].day # Null}),
     gas |-> GasTotals(Driven(readings)),
     km |-> SumFunction(Driven(readings))]
=============================================================================
