------------------------------ MODULE ReviewPages -----------------------------
(***************************************************************************)
(* The Review Queue's pages (routes/review.py): the sub-tabs with what is  *)
(* still pending, the tree of what is approved, the badges, and what the   *)
(* user is told a merge will do before confirming it.                      *)
(***************************************************************************)
EXTENDS Costs

Pending(table)  == {i \in Stored(table) : ~table[i].verified}
Approved(table) == {i \in Stored(table) : table[i].verified}

OfNetwork(table, n) == {i \in Stored(table) : table[i].network = n}
OfPlace(table, p)   == {i \in Stored(table) : table[i].place = p}

\* _networks_context and _locations_context: each row with its number of sessions.
NetworkTab(d)  == [n \in Pending(d.nets) |-> Cardinality(OfNetwork(d.sessions, n))]
LocationTab(d) == [p \in Pending(d.places) |-> Cardinality(OfPlace(d.sessions, p))]

\* Faulty variant: only what belongs to a network.
TreeOfNetworks(d) ==
    [under |-> [n \in Approved(d.nets) |-> Approved(d.places) \cap OfNetwork(d.places, n)],
     standalone |-> {}]

\* _approved_tree_context: under the approved networks their approved locations, and
\* those without a network.
Tree(d) ==
    [under |-> [n \in Approved(d.nets) |-> Approved(d.places) \cap OfNetwork(d.places, n)],
     standalone |-> Approved(d.places) \cap OfNetwork(d.places, Null)]

InTree(d) == Tree(d).standalone \cup UNION {Tree(d).under[n] : n \in DOMAIN Tree(d).under}

\* review_queue
Badges(d) ==
    [pending |-> Cardinality(Pending(d.nets)) + Cardinality(Pending(d.places)),
     approved |-> Cardinality(Approved(d.nets)) + Cardinality(Approved(d.places))]

\* network_merge_preview, location_merge_preview
NetworkPreview(d, n) ==
    [sessions |-> Cardinality(OfNetwork(d.sessions, n)),
     subscriptions |-> Cardinality({p \in d.periods : p.network = n}),
     locations |-> Cardinality(OfNetwork(d.places, n))]

PlacePreview(d, p) ==
    [sessions |-> Cardinality(OfPlace(d.sessions, p)), stalls |-> Cardinality(OfPlace(d.stalls, p))]

-----------------------------------------------------------------------------
\* An approved location whose network is pending.
Unseen(d) == {p \in Approved(d.places) : d.places[p].network \in Pending(d.nets)}

\* Everything is somewhere in the Review Queue, with the badges to match, but for one
\* kind of row: a location that is approved while its network is not is counted as
\* approved and shown nowhere ("everything that's already verified",
\* docs/guide/review-queue.md:21).
ReviewShowsAll ==
    /\ DOMAIN NetworkTab(db) \cup DOMAIN Tree(db).under = Nets
    /\ DOMAIN LocationTab(db) \cup InTree(db) = Locations \ Unseen(db)
    /\ Badges(db).pending = Cardinality(DOMAIN NetworkTab(db)) + Cardinality(DOMAIN LocationTab(db))
    /\ Badges(db).approved =
        Cardinality(DOMAIN Tree(db).under) + Cardinality(InTree(db)) + Cardinality(Unseen(db))

Both(p, q) == [k \in DOMAIN p |-> p[k] + q[k]]

\* A merge does what its preview says: the target gains what was counted, in every
\* table, whatever merges, conversions and deletions came before; and no session goes but
\* by the user deleting it (merge_network, merge_location).
MergesAsPreviewed ==
    [][/\ \A n, m \in Nets : MergesNetwork(n, m) =>
            NetworkPreview(db', m) = Both(NetworkPreview(db, n), NetworkPreview(db, m))
       /\ \A p, q \in Locations : MergesPlace(p, q) =>
            PlacePreview(db', q) = Both(PlacePreview(db, p), PlacePreview(db, q))
       /\ \A i \in Sessions : i \in Stored(db'.sessions) \/ DeletesSession(i)]_vars
=============================================================================
