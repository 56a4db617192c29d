-------------------------- MODULE FordConnectProofs --------------------------
(***************************************************************************)
(* The FordConnect source for every number of apps, tokens, runtimes and   *)
(* requests at once.  Shapes is the inductive invariant: the types, and    *)
(* what a call, a request and a poller carry from one await to the next.   *)
(* CopiesJustified adds that every copy of the row that may be written     *)
(* back is as good as the row.                                             *)
(***************************************************************************)
EXTENDS FordConnect, TLAPS

\* A call carries the row's key while it restarts, and a row while it starts.
CallOK(x) ==
    /\ x \in Sup!Call
    /\ x.op = "restart" => x.config = Fcon
    /\ x.at \in {"loading", "starting"} => x.op = "restart"
    /\ x.at = "starting" => x.seen \in Row

\* The part of the supervisor's types that FordConnect relies on.
SupTypes ==
    /\ up \in BOOLEAN
    /\ registry \in [{Fcon} -> Runtime \cup {NoRuntime}]
    /\ job \in [Runtime -> Sup!Job \cup {NoJob}]
    /\ call \in [Caller -> Sup!Call]
    /\ \A k \in Caller : CallOK(call[k])

\* Nothing goes on unless the application is up.
Quiet ==
    ~up => /\ \A r \in Runtime : job[r] = NoJob
           /\ \A k \in Caller : call[k] = Sup!Idle /\ req[k] = NoRequest

\* A poller that goes on has a token to refresh with, and a row to write to.
PollerOK(p) ==
    /\ p.at \notin {"off", "declined", "declining"} => p.tok.refresh \in Token
    /\ p.at = "writing" => p.base \in Row

\* Whoever works with a row has found one, and the row is never deleted.
WorksWithRow ==
    /\ \A r \in Runtime : job[r] # NoJob => row # NoRow /\ job[r].value \in Row
    /\ \A r \in Runtime : PollerOK(poller[r])
    /\ \A k \in Caller : call[k].at = "starting" => row # NoRow
    /\ \A k \in Caller : req[k].seen # NoRow => row # NoRow

\* What a request carries on the way to its commit.
RequestOK(q) ==
    /\ q.at = "merging" => q.op \in {"save", "consent"}
    /\ q.at = "exchanging" => q.op = "finish"
    /\ q.at = "restarting" => q.op \in {"save", "finish"}
    /\ q.at # "idle" => q.op # "none"
    /\ q.at # "restarting" /\ q.op \in {"consent", "finish", "disconnect"} => q.seen \in Row
    /\ q.at # "restarting" /\ q.op = "save" => q.app \in App
    /\ q.at = "committing" /\ q.op \in {"save", "consent"} /\ q.seen # NoRow => q.base \in Row
    /\ q.at = "committing" /\ q.op = "finish" => q.got \in Token

Shapes ==
    /\ TypeOK
    /\ SupTypes
    /\ Quiet
    /\ WorksWithRow
    /\ \A k \in Caller : RequestOK(req[k])

-----------------------------------------------------------------------------
(***************************************************************************)
(* The shapes of calls.                                                    *)
(***************************************************************************)
LEMMA IdleOK == CallOK(Sup!Idle) /\ Sup!Idle.at # "starting"
  BY DEF CallOK, Sup!Idle, Sup!At, Sup!Call, Sup!Op, Sup!Place

LEMMA SweepingOK ==
  ASSUME NEW todo \in SUBSET {Fcon}
  PROVE  CallOK(Sup!Sweeping(todo)) /\ Sup!Sweeping(todo).at # "starting"
  BY DEF CallOK, Sup!Sweeping, Sup!At, Sup!Call, Sup!Op, Sup!Place

LEMMA LoadingOK == CallOK(Sup!Loading(Fcon)) /\ Sup!Loading(Fcon).at # "starting"
  BY DEF CallOK, Sup!Loading, Sup!At, Sup!Call, Sup!Op, Sup!Place

LEMMA StartingOK ==
  ASSUME NEW v \in Row
  PROVE  CallOK(Sup!Starting(Fcon, v))
  BY DEF CallOK, Sup!Starting, Sup!At, Sup!Call, Sup!Op, Sup!Place

LEMMA StopOfOK ==
  ASSUME SupTypes, NEW op \in {"restart", "stop", "stopAll"},
         NEW todo \in SUBSET {Fcon}, NEW otherwise, CallOK(otherwise),
         otherwise.at # "starting"
  PROVE  /\ CallOK(Sup!StopOf(op, Fcon, todo, otherwise))
         /\ Sup!StopOf(op, Fcon, todo, otherwise).at # "starting"
  <1>1. registry[Fcon] \in Runtime \cup {NoRuntime}
    BY DEF SupTypes
  <1>2. QED
    BY <1>1 DEF CallOK, Sup!StopOf, Sup!Stopping, Sup!At, Sup!Call, Sup!Op, Sup!Place

LEMMA AfterStopOK ==
  ASSUME SupTypes, NEW k \in Caller
  PROVE  CallOK(Sup!AfterStop(k)) /\ Sup!AfterStop(k).at # "starting"
  <1>1. call[k] \in Sup!Call /\ CallOK(call[k])
    BY DEF SupTypes
  <1>2. CASE call[k].op = "restart"
    BY <1>1, <1>2, LoadingOK DEF Sup!AfterStop, CallOK
  <1>3. CASE call[k].op = "stopAll"
    <2>1. call[k].todo \in SUBSET {Fcon}
      BY <1>1 DEF Sup!Call
    <2>2. QED
      BY <1>3, <2>1, SweepingOK DEF Sup!AfterStop
  <1>4. CASE call[k].op \notin {"restart", "stopAll"}
    BY <1>4, IdleOK DEF Sup!AfterStop
  <1>5. QED
    BY <1>2, <1>3, <1>4

LEMMA JoiningOK ==
  ASSUME SupTypes, NEW k \in Caller
  PROVE  LET x == Sup!Joining(call[k].op, call[k].config, call[k].rt, call[k].todo)
         IN  CallOK(x) /\ x.at # "starting"
  <1>1. call[k] \in Sup!Call /\ CallOK(call[k])
    BY DEF SupTypes
  <1>2. QED
    BY <1>1 DEF CallOK, Sup!Joining, Sup!At, Sup!Call, Sup!Op, Sup!Place

-----------------------------------------------------------------------------
(***************************************************************************)
(* The shapes of pollers and requests.                                     *)
(***************************************************************************)
LEMMA PollerShapes ==
  ASSUME NEW p \in {NoPoller, DeclinedPoller}
  PROVE  /\ p \in [at : PollerAt, tok : Tok, base : Row \cup {NoRow}]
         /\ p.at \in {"off", "declined"}
  <1>1. NoPoller \in [at : PollerAt, tok : Tok, base : Row \cup {NoRow}] /\ NoPoller.at = "off"
    BY DEF NoPoller, PollerAt, NoTokens, Tok
  <1>2. CASE p = DeclinedPoller
    BY <1>1, <1>2 DEF DeclinedPoller, PollerAt
  <1>3. QED
    BY <1>1, <1>2

LEMMA NoRequestShape == NoRequest \in Request /\ RequestOK(NoRequest) /\ NoRequest.at = "idle"
  BY DEF NoRequest, Request, RequestOK

\* The request that Begins stores.
Begun(op, at, seen, app) ==
    [NoRequest EXCEPT !.op = op, !.at = at, !.seen = seen, !.app = app]

LEMMA BegunShape ==
  ASSUME NEW op \in {"save", "consent", "finish", "disconnect"},
         NEW at \in {"merging", "exchanging", "committing"},
         NEW seen \in Row \cup {NoRow}, NEW app \in App \cup {NoApp}
  PROVE  /\ Begun(op, at, seen, app) \in Request
         /\ Begun(op, at, seen, app).op = op
         /\ Begun(op, at, seen, app).at = at
         /\ Begun(op, at, seen, app).seen = seen
         /\ Begun(op, at, seen, app).app = app
  BY NoRequestShape DEF Request, Begun

-----------------------------------------------------------------------------
(***************************************************************************)
(* Every step keeps the shapes.                                            *)
(***************************************************************************)

\* A live poller takes a step of its own; its task goes on.
LEMMA PollerGoesOn ==
  ASSUME Shapes, NEW r \in Runtime, job[r] # NoJob,
         NEW p \in [at : PollerAt \ {"off", "declined"}, tok : Tok, base : Row \cup {NoRow}],
         PollerOK(p),
         poller' = [poller EXCEPT ![r] = p],
         UNCHANGED <<supervisorVars, req, history>>, edited' \subseteq {Fcon},
         row' \in Row \cup {NoRow}, row # NoRow => row' # NoRow,
         issuer' \in [Token -> App \cup {NoApp}],
         revoked' \cup rotated' \cup refused' \cup lost' \subseteq Token
  PROVE  Shapes'
  <1>. p \in [at : PollerAt, tok : Tok, base : Row \cup {NoRow}] /\ p.at \notin {"off", "declined"}
    OBVIOUS
  <1>1. \A s \in Runtime : poller'[s] = IF s = r THEN p ELSE poller[s]
    BY DEF Shapes, TypeOK
  <1>2. TypeOK'
    BY <1>1 DEF Shapes, TypeOK, supervisorVars, history
  <1>3. SupTypes' /\ Quiet' /\ \A k \in Caller : RequestOK(req[k])'
    BY DEF Shapes, SupTypes, Quiet, supervisorVars
  <1>4. WorksWithRow'
    BY <1>1 DEF Shapes, WorksWithRow, PollerOK, supervisorVars
  <1>5. QED
    BY <1>2, <1>3, <1>4 DEF Shapes

\* A task ends: its poller is taken down.
LEMMA PollerEnds ==
  ASSUME Shapes, NEW r \in Runtime, Sup!EndTask(r),
         NEW p \in {NoPoller, DeclinedPoller},
         poller' = [poller EXCEPT ![r] = p],
         UNCHANGED <<row, edited, req, issuer, history>>,
         revoked' \cup rotated' \cup refused' \cup lost' \subseteq Token
  PROVE  Shapes'
  <1>1. /\ p \in [at : PollerAt, tok : Tok, base : Row \cup {NoRow}]
        /\ p.at \in {"off", "declined"}
    BY PollerShapes
  <1>2. \A s \in Runtime : poller'[s] = IF s = r THEN p ELSE poller[s]
    BY DEF Shapes, TypeOK
  <1>3. \A s \in Runtime : job'[s] = IF s = r THEN NoJob ELSE job[s]
    BY DEF Shapes, SupTypes, Sup!EndTask
  <1>4. TypeOK'
    BY <1>1, <1>2, <1>3 DEF Shapes, TypeOK, history
  <1>5. SupTypes' /\ Quiet' /\ \A k \in Caller : RequestOK(req[k])'
    BY <1>3 DEF Shapes, SupTypes, Quiet, Sup!EndTask
  <1>6. WorksWithRow'
    BY <1>1, <1>2, <1>3 DEF Shapes, WorksWithRow, PollerOK, Sup!EndTask
  <1>7. QED
    BY <1>4, <1>5, <1>6 DEF Shapes

\* A request takes a step of its own.
LEMMA RequestMoves ==
  ASSUME Shapes, NEW k \in Caller, NEW q \in Request, RequestOK(q),
         q = NoRequest <=> q.at = "idle",
         req' = [req EXCEPT ![k] = q],
         up, UNCHANGED <<up, job, poller, revoked, rotated, refused, lost>>,
         SupTypes',
         \A j \in Caller : call'[j].at = "starting" => call[j].at = "starting",
         row' \in Row \cup {NoRow}, row # NoRow => row' # NoRow,
         q.seen # NoRow => row # NoRow,
         edited' \subseteq {Fcon},
         issuer' \in [Token -> App \cup {NoApp}],
         saved' \in App \cup {NoApp}, disconnected' \in BOOLEAN, crossed' \in BOOLEAN
  PROVE  Shapes'
  <1>1. \A j \in Caller : req'[j] = IF j = k THEN q ELSE req[j]
    BY DEF Shapes, TypeOK
  <1>2. TypeOK'
    BY <1>1 DEF Shapes, TypeOK
  <1>3. Quiet'
    BY DEF Quiet
  <1>4. WorksWithRow'
    <2>1. \A r \in Runtime : job[r] # NoJob => row' # NoRow /\ job[r].value \in Row
      BY DEF Shapes, WorksWithRow
    <2>2. \A r \in Runtime : PollerOK(poller'[r])
      BY DEF Shapes, WorksWithRow
    <2>3. \A j \in Caller : call'[j].at = "starting" => row' # NoRow
      BY DEF Shapes, WorksWithRow
    <2>4. \A j \in Caller : req'[j].seen # NoRow => row' # NoRow
      BY <1>1 DEF Shapes, WorksWithRow
    <2>5. QED
      BY <2>1, <2>2, <2>3, <2>4 DEF WorksWithRow, PollerOK
  <1>5. \A j \in Caller : RequestOK(req'[j])
    BY <1>1 DEF Shapes
  <1>6. QED
    BY <1>2, <1>3, <1>4, <1>5 DEF Shapes, RequestOK

\* A call on the supervisor takes a step that starts no task.
LEMMA SupervisorMoves ==
  ASSUME Shapes, NEW k \in Caller, NEW x, CallOK(x), x.at = "starting" => row # NoRow,
         call' = [call EXCEPT ![k] = x],
         up, UNCHANGED <<up, job, row, edited, poller, req, ford, history>>,
         registry' \in [{Fcon} -> Runtime \cup {NoRuntime}]
  PROVE  Shapes'
  <1>1. /\ call' \in [Caller -> Sup!Call]
        /\ \A j \in Caller : CallOK(call'[j])
        /\ \A j \in Caller : call'[j].at = "starting" => row # NoRow
    <2>1. x \in Sup!Call
      BY DEF CallOK
    <2>2. \A j \in Caller : call'[j] = IF j = k THEN x ELSE call[j]
      BY DEF Shapes, SupTypes
    <2>3. QED
      BY <2>1, <2>2 DEF Shapes, SupTypes, WorksWithRow
  <1>2. TypeOK'
    BY DEF Shapes, TypeOK, ford, history
  <1>3. SupTypes'
    BY <1>1 DEF Shapes, SupTypes, CallOK
  <1>4. Quiet'
    BY DEF Quiet
  <1>5. WorksWithRow'
    BY <1>1 DEF Shapes, WorksWithRow, PollerOK
  <1>6. \A j \in Caller : RequestOK(req'[j])
    BY DEF Shapes
  <1>7. QED
    BY <1>2, <1>3, <1>4, <1>5, <1>6 DEF Shapes, RequestOK

LEMMA PollerShape ==
  ASSUME Shapes, NEW r \in Runtime
  PROVE  /\ poller[r] \in [at : PollerAt, tok : Tok, base : Row \cup {NoRow}]
         /\ PollerOK(poller[r])
         /\ job[r] # NoJob => job[r].value \in Row
  BY DEF Shapes, TypeOK, WorksWithRow

LEMMA RotatesUnheardShape ==
  ASSUME Shapes, NEW r \in Runtime, poller[r].at = "refreshing", RotatesUnheard(r)
  PROVE  rotated' \cup lost' \subseteq Token
  BY PollerShape DEF PollerOK, RotatesUnheard, Shapes, TypeOK

LEMMA StepsOfThePoller ==
  ASSUME Shapes, NEW r \in Runtime, PollerSteps(r)
  PROVE  Shapes'
  <1>. DEFINE p == poller[r]
              Going == [at : PollerAt \ {"off", "declined"}, tok : Tok, base : Row \cup {NoRow}]
  <1>1. p \in [at : PollerAt, tok : Tok, base : Row \cup {NoRow}] /\ PollerOK(p)
    BY PollerShape
  <1>2. /\ row \in Row \cup {NoRow}
        /\ edited \subseteq {Fcon}
        /\ issuer \in [Token -> App \cup {NoApp}]
        /\ revoked \cup rotated \cup refused \cup lost \subseteq Token
        /\ rotated \cup lost \subseteq Token
    BY DEF Shapes, TypeOK
  <1>3. ASSUME p.at \in {"asking", "spent", "refreshing", "getting"}, job[r] # NoJob,
               NEW at \in {"asking", "spent", "refreshing", "getting"}, Moves(r, at),
               UNCHANGED <<supervisorVars, row, edited, req, issuer, revoked, refused, history>>,
               rotated' \cup lost' \subseteq Token
        PROVE  Shapes'
    <2>1. [p EXCEPT !.at = at] \in Going /\ PollerOK([p EXCEPT !.at = at])
      BY <1>1, <1>3 DEF PollerAt, PollerOK
    <2>2. poller' = [poller EXCEPT ![r] = [p EXCEPT !.at = at]]
      BY <1>3 DEF Moves
    <2>3. QED
      BY <1>2, <1>3, <2>1, <2>2, PollerGoesOn
  <1>4. CASE Declines(r)
    BY <1>2, <1>4, PollerEnds DEF Declines, ford
  <1>5. CASE UseAccess(r)
    BY <1>2, <1>3, <1>5 DEF UseAccess, Runs, ford
  <1>6. CASE RefreshBegins(r)
    BY <1>2, <1>3, <1>6 DEF RefreshBegins, Runs, ford
  <1>7. CASE RefreshGranted(r)
    <2>. DEFINE q(t) == [at |-> "reading", tok |-> WithToken(t), base |-> NoRow]
    <2>1. ASSUME NEW t \in Token
          PROVE  q(t) \in Going /\ PollerOK(q(t))
      BY DEF WithToken, Tok, PollerAt, PollerOK
    <2>2. job[r] # NoJob /\ p.tok.refresh \in Token
      BY <1>1, <1>7 DEF RefreshGranted, Runs, PollerOK
    <2>3. CASE /\ poller' = [poller EXCEPT ![r] = q(p.tok.refresh)]
               /\ UNCHANGED <<issuer, rotated>>
      <3>1. QED
        BY <1>2, <1>7, <2>1, <2>2, <2>3, PollerGoesOn DEF RefreshGranted
    <2>4. ASSUME NEW t \in Unissued,
                 poller' = [poller EXCEPT ![r] = q(t)],
                 issuer' = [issuer EXCEPT ![t] = job[r].value.app],
                 rotated' = rotated \cup {p.tok.refresh}
          PROVE  Shapes'
      <3>1. t \in Token
        BY DEF Unissued
      <3>2. job[r].value.app \in App
        BY <2>2, PollerShape DEF Row
      <3>3. /\ issuer' \in [Token -> App \cup {NoApp}]
            /\ revoked' \cup rotated' \cup refused' \cup lost' \subseteq Token
        BY <1>2, <1>7, <2>2, <2>4, <3>2 DEF RefreshGranted
      <3>4. QED
        BY <1>2, <1>7, <2>1, <2>2, <2>4, <3>1, <3>3, PollerGoesOn DEF RefreshGranted
    <2>5. QED
      BY <1>7, <2>3, <2>4 DEF RefreshGranted
  <1>8. CASE RefreshRejected(r)
    <2>. DEFINE q == [p EXCEPT !.at = "reading", !.tok.needs = TRUE]
    <2>1. p.tok \in Tok /\ p.tok.refresh \in Token
      BY <1>1, <1>8 DEF RefreshRejected, Runs, PollerOK
    <2>2. [p.tok EXCEPT !.needs = TRUE] \in Tok /\ [p.tok EXCEPT !.needs = TRUE].refresh \in Token
      BY <2>1 DEF Tok
    <2>3. q \in Going /\ PollerOK(q)
      BY <1>1, <2>2 DEF PollerAt, PollerOK
    <2>4. /\ job[r] # NoJob /\ poller' = [poller EXCEPT ![r] = q]
          /\ UNCHANGED <<supervisorVars, row, edited, req, issuer, revoked, rotated, lost, history>>
          /\ refused' \subseteq Token
      BY <1>2, <1>8, <2>1 DEF RefreshRejected, Runs
    <2>5. QED
      BY <1>2, <2>3, <2>4, PollerGoesOn
  <1>9. CASE RefreshFails(r)
    BY <1>2, <1>3, <1>9, RotatesUnheardShape DEF RefreshFails, Runs
  <1>10. CASE PersistRead(r)
    <2>. DEFINE q == [p EXCEPT !.at = "writing", !.base = row]
    <2>1. job[r] # NoJob /\ p.at = "reading" /\ poller' = [poller EXCEPT ![r] = q]
      BY <1>10 DEF PersistRead, Runs
    <2>2. row \in Row
      BY <1>2, <2>1 DEF Shapes, WorksWithRow
    <2>3. q \in Going /\ PollerOK(q)
      BY <1>1, <2>1, <2>2 DEF PollerAt, PollerOK
    <2>4. QED
      BY <1>2, <1>10, <2>1, <2>3, PollerGoesOn DEF PersistRead, ford
  <1>11. CASE PersistCommit(r)
    <2>. DEFINE q == [p EXCEPT !.at = IF p.tok.needs THEN "declining" ELSE "getting",
                               !.base = NoRow]
    <2>1. p.at = "writing" /\ poller' = [poller EXCEPT ![r] = q]
      BY <1>11 DEF PersistCommit
    <2>2. job[r] # NoJob
      BY <2>1 DEF Shapes, TypeOK
    <2>3. p.tok \in Tok /\ p.base \in Row /\ p.tok.refresh \in Token
      BY <1>1, <2>1 DEF PollerOK
    <2>4. q \in Going /\ PollerOK(q)
      BY <1>1, <2>3 DEF PollerAt, PollerOK
    <2>5. row' \in Row /\ row' # NoRow
      <3>1. Persisted(p) \in Row
        BY <2>3 DEF Persisted, Row
      <3>2. QED
        BY <1>11, <3>1, FordConnectAssumption DEF PersistCommit
    <2>6. QED
      BY <1>2, <1>11, <2>1, <2>2, <2>4, <2>5, PollerGoesOn DEF PersistCommit, ford
  <1>12. CASE PersistFails(r)
    BY <1>2, <1>12, PollerEnds DEF PersistFails, LosesStored
  <1>13. CASE GetAnswers(r)
    BY <1>2, <1>3, <1>13 DEF GetAnswers, Runs, ford
  <1>14. QED
    BY <1>4, <1>5, <1>6, <1>7, <1>8, <1>9, <1>10, <1>11, <1>12, <1>13 DEF PollerSteps

LEMMA UnwindsStep ==
  ASSUME Shapes, NEW r \in Runtime, Unwinds(r)
  PROVE  Shapes'
  <1>1. revoked' \cup rotated' \cup refused' \cup lost' \subseteq Token
    <2>1. revoked \cup rotated \cup refused \cup lost \subseteq Token
      BY DEF Shapes, TypeOK
    <2>2. CASE poller[r].at = "refreshing" /\ RotatesUnheard(r)
      BY <2>1, <2>2, RotatesUnheardShape DEF Unwinds
    <2>3. CASE LosesStored /\ UNCHANGED rotated
      BY <2>1, <2>3 DEF Unwinds, LosesStored
    <2>4. QED
      BY <2>2, <2>3 DEF Unwinds
  <1>2. QED
    BY <1>1, PollerEnds DEF Unwinds

\* A request is under way only while the application is up.
LEMMA RequestIsServed ==
  ASSUME Shapes, NEW k \in Caller, req[k] # NoRequest \/ call[k] # Sup!Idle
  PROVE  up
  BY DEF Shapes, Quiet

LEMMA BeginsStep ==
  ASSUME Shapes, NEW k \in Caller, NEW app \in App \cup {NoApp},
         NEW op \in {"save", "consent", "finish", "disconnect"},
         NEW at \in {"merging", "exchanging", "committing"},
         Begins(k, op, at, app), SupTypes',
         \A j \in Caller : call'[j].at = "starting" => call[j].at = "starting",
         UNCHANGED <<up, job>>,
         at = "merging" => op \in {"save", "consent"},
         at = "exchanging" => op = "finish",
         at = "committing" => op = "disconnect",
         op # "save" => row # NoRow,
         op = "save" => app \in App
  PROVE  Shapes'
  <1>1. /\ row \in Row \cup {NoRow}
        /\ edited \subseteq {Fcon}
        /\ issuer \in [Token -> App \cup {NoApp}]
        /\ saved \in App \cup {NoApp} /\ disconnected \in BOOLEAN /\ crossed \in BOOLEAN
    BY DEF Shapes, TypeOK
  <1>. DEFINE q == Begun(op, at, row, app)
  <1>2. q \in Request /\ q.op = op /\ q.at = at /\ q.seen = row /\ q.app = app
    BY <1>1, BegunShape
  <1>3. req' = [req EXCEPT ![k] = q]
    BY DEF Begins, Begun
  <1>4. RequestOK(q) /\ (q = NoRequest <=> q.at = "idle")
    BY <1>1, <1>2, NoRequestShape DEF RequestOK
  <1>5. up /\ crossed' \in BOOLEAN
    BY <1>1 DEF Begins, Sup!Serving
  <1>6. QED
    BY <1>1, <1>2, <1>3, <1>4, <1>5, RequestMoves DEF Begins, ford

LEMMA RequestShape ==
  ASSUME Shapes, NEW k \in Caller
  PROVE  /\ req[k] \in Request /\ RequestOK(req[k])
         /\ req[k] = NoRequest <=> req[k].at = "idle"
         /\ req[k].seen # NoRow => row # NoRow
  BY DEF Shapes, TypeOK, WorksWithRow

LEMMA StopKeepsTypes ==
  ASSUME Shapes, NEW k \in Caller,
         Sup!StopRuntime(k, Fcon) \/ Sup!RestartRuntime(k, Fcon)
  PROVE  /\ SupTypes'
         /\ \A j \in Caller : call'[j].at = "starting" => call[j].at = "starting"
         /\ UNCHANGED <<up, job>>
  <1>1. SupTypes
    BY DEF Shapes
  <1>2. PICK x : CallOK(x) /\ x.at # "starting" /\ call' = [call EXCEPT ![k] = x]
    <2>1. CASE Sup!StopRuntime(k, Fcon)
      BY <1>1, <2>1, StopOfOK, IdleOK DEF Sup!StopRuntime
    <2>2. CASE Sup!RestartRuntime(k, Fcon)
      BY <1>1, <2>2, StopOfOK, LoadingOK DEF Sup!RestartRuntime
    <2>3. QED
      BY <2>1, <2>2
  <1>3. registry' \in [{Fcon} -> Runtime \cup {NoRuntime}] /\ UNCHANGED <<up, job>>
    BY <1>1 DEF SupTypes, Sup!StopRuntime, Sup!RestartRuntime
  <1>4. /\ call' \in [Caller -> Sup!Call]
        /\ \A j \in Caller : CallOK(call'[j])
        /\ \A j \in Caller : call'[j].at = "starting" => call[j].at = "starting"
    <2>1. x \in Sup!Call
      BY <1>2 DEF CallOK
    <2>2. \A j \in Caller : call'[j] = IF j = k THEN x ELSE call[j]
      BY <1>1, <1>2 DEF SupTypes
    <2>3. QED
      BY <1>1, <1>2, <2>1, <2>2 DEF SupTypes
  <1>5. QED
    BY <1>1, <1>3, <1>4 DEF SupTypes, CallOK

LEMMA RequestBeginsStep ==
  ASSUME Shapes, NEW k \in Caller, RequestBegins(k)
  PROVE  Shapes'
  <1>1. SupTypes
    BY DEF Shapes
  <1>2. ASSUME UNCHANGED supervisorVars
        PROVE  /\ SupTypes' /\ UNCHANGED <<up, job>>
               /\ \A j \in Caller : call'[j].at = "starting" => call[j].at = "starting"
    BY <1>1, <1>2 DEF SupTypes, supervisorVars, CallOK
  <1>3. CASE \E app \in App : SaveBegins(k, app)
    <2>1. PICK app \in App : SaveBegins(k, app)
      BY <1>3
    <2>2. Begins(k, "save", "merging", app) /\ UNCHANGED supervisorVars
      BY <2>1 DEF SaveBegins
    <2>3. QED
      BY <1>2, <2>2, BeginsStep
  <1>4. CASE ConsentBegins(k)
    <2>1. row # NoRow /\ Begins(k, "consent", "merging", NoApp) /\ UNCHANGED supervisorVars
      BY <1>4 DEF ConsentBegins
    <2>2. QED
      BY <1>2, <2>1, BeginsStep
  <1>5. CASE FinishBegins(k)
    <2>1. row # NoRow /\ Begins(k, "finish", "exchanging", NoApp) /\ UNCHANGED supervisorVars
      BY <1>5 DEF FinishBegins
    <2>2. QED
      BY <1>2, <2>1, BeginsStep
  <1>6. CASE DisconnectBegins(k)
    <2>1. /\ row # NoRow /\ Begins(k, "disconnect", "committing", NoApp)
          /\ Sup!StopRuntime(k, Fcon)
      BY <1>6 DEF DisconnectBegins
    <2>2. QED
      BY <2>1, BeginsStep, StopKeepsTypes
  <1>7. QED
    BY <1>3, <1>4, <1>5, <1>6 DEF RequestBegins

\* What a commit writes is a row.
LEMMA CommitShape ==
  ASSUME Shapes, NEW k \in Caller, Commit(k)
  PROVE  /\ row' \in Row /\ row' # NoRow
         /\ saved' \in App \cup {NoApp} /\ disconnected' \in BOOLEAN
  <1>. DEFINE q == req[k]
  <1>1. /\ q \in Request /\ RequestOK(q) /\ q.at = "committing"
        /\ row' = Merged(q)
        /\ saved' = IF q.op = "save" THEN q.app ELSE saved
        /\ disconnected' = ((disconnected \/ q.op = "disconnect") /\ q.op # "finish")
    BY RequestShape DEF Commit
  <1>2. /\ q.op \in {"save", "consent", "finish", "disconnect"}
        /\ q.op \in {"consent", "finish", "disconnect"} => q.seen \in Row
        /\ q.op = "consent" /\ q.seen # NoRow => q.base \in Row
        /\ q.op = "finish" => q.got \in Token
    BY <1>1 DEF Request, RequestOK
  <1>3. NoTokens \in Tok /\ \A t \in Token : WithToken(t) \in Tok
    BY DEF NoTokens, WithToken, Tok
  <1>4. NoRow \notin Row
    BY FordConnectAssumption
  <1>5. row' \in Row
    <2>1. CASE q.op = "save"
      <3>1. SavedOver(q) \in Row
        BY <1>1, <1>3, <2>1 DEF SavedOver, RequestOK, Row
      <3>2. QED
        BY <1>1, <2>1, <3>1 DEF Merged
    <2>2. CASE q.op = "consent"
      <3>1. q.base \in Row
        BY <1>2, <1>4, <2>2
      <3>2. [q.base EXCEPT !.tok.pending = TRUE] \in Row
        BY <3>1 DEF Row, Tok
      <3>3. QED
        BY <1>1, <2>2, <3>2 DEF Merged
    <2>3. CASE q.op = "finish"
      <3>1. [q.seen EXCEPT !.tok = WithToken(q.got)] \in Row
        BY <1>2, <1>3, <2>3 DEF Row
      <3>2. QED
        BY <1>1, <2>3, <3>1 DEF Merged
    <2>4. CASE q.op = "disconnect"
      <3>1. [q.seen EXCEPT !.tok = NoTokens] \in Row
        BY <1>2, <1>3, <2>4 DEF Row
      <3>2. QED
        BY <1>1, <2>4, <3>1 DEF Merged
    <2>5. QED
      BY <1>2, <2>1, <2>2, <2>3, <2>4
  <1>6. QED
    BY <1>1, <1>4, <1>5 DEF RequestOK, Shapes, TypeOK

\* ... and what it leaves of the request is a restart to ask for, or nothing.
LEMMA AfterCommitShape ==
  ASSUME NEW q
  PROVE  LET p == AfterCommit(q) IN
         /\ p \in Request /\ RequestOK(p) /\ (p = NoRequest <=> p.at = "idle")
         /\ p.seen = NoRow /\ p.at \in {"idle", "restarting"}
  <1>1. NoRequest \in Request /\ NoRequest.seen = NoRow /\ NoRequest.at = "idle" /\ RequestOK(NoRequest)
    BY NoRequestShape DEF NoRequest
  <1>2. CASE q.op \in {"save", "finish"}
    <2>. DEFINE p == [NoRequest EXCEPT !.op = q.op, !.at = "restarting"]
    <2>1. p \in Request /\ p.seen = NoRow /\ p.at = "restarting" /\ p.op = q.op
      BY <1>1, <1>2 DEF Request
    <2>2. RequestOK(p) /\ p # NoRequest
      BY <1>1, <1>2, <2>1 DEF RequestOK
    <2>3. QED
      BY <1>2, <2>1, <2>2 DEF AfterCommit
  <1>3. CASE q.op \notin {"save", "finish"}
    BY <1>1, <1>3 DEF AfterCommit
  <1>4. QED
    BY <1>2, <1>3

LEMMA RequestStepsStep ==
  ASSUME Shapes, NEW k \in Caller, RequestSteps(k)
  PROVE  Shapes'
  <1>. DEFINE q == req[k]
  <1>1. /\ q \in Request /\ RequestOK(q)
        /\ q = NoRequest <=> q.at = "idle"
        /\ q.seen # NoRow => row # NoRow
    BY RequestShape
  <1>2. q.at # "idle" => up
    BY <1>1, RequestIsServed
  <1>3. /\ row \in Row \cup {NoRow} /\ edited \subseteq {Fcon}
        /\ issuer \in [Token -> App \cup {NoApp}]
        /\ saved \in App \cup {NoApp} /\ disconnected \in BOOLEAN /\ crossed \in BOOLEAN
    BY DEF Shapes, TypeOK
  <1>4. ASSUME UNCHANGED supervisorVars
        PROVE  /\ SupTypes' /\ UNCHANGED <<up, job>>
               /\ \A j \in Caller : call'[j].at = "starting" => call[j].at = "starting"
    BY <1>4 DEF Shapes, SupTypes, supervisorVars, CallOK
  <1>5. ASSUME q.at # "idle", Proceeds(k, NoRequest),
               UNCHANGED <<supervisorVars, row, edited, poller, ford, history>>
        PROVE  Shapes'
    <2>1. NoRequest \in Request /\ RequestOK(NoRequest) /\ NoRequest.at = "idle" /\ NoRequest.seen = NoRow
      BY NoRequestShape DEF NoRequest
    <2>2. QED
      BY <1>2, <1>3, <1>4, <1>5, <2>1, RequestMoves DEF Proceeds, ford, history
  <1>6. CASE TakeBase(k)
    <2>. DEFINE p == [q EXCEPT !.at = "committing", !.base = IF Snapshot THEN q.seen ELSE row]
    <2>1. /\ q.at = "merging" /\ req' = [req EXCEPT ![k] = p]
          /\ UNCHANGED <<supervisorVars, row, edited, poller, ford, history>>
      BY <1>6 DEF TakeBase, Proceeds
    <2>2. q.seen \in Row \cup {NoRow} /\ q.op \in {"save", "consent"}
      BY <1>1, <2>1 DEF Request, RequestOK
    <2>3. /\ p \in Request /\ p.at = "committing" /\ p.op = q.op /\ p.seen = q.seen
          /\ p.app = q.app
          /\ q.seen # NoRow => p.base \in Row
      BY <1>1, <1>3, <2>2 DEF Request
    <2>4. RequestOK(p) /\ p # NoRequest
      BY <1>1, <2>1, <2>2, <2>3, NoRequestShape DEF RequestOK
    <2>5. QED
      BY <1>1, <1>2, <1>3, <1>4, <2>1, <2>3, <2>4, RequestMoves DEF ford, history
  <1>7. CASE Exchanged(k)
    <2>1. PICK t \in Unissued :
             /\ issuer' = [issuer EXCEPT ![t] = q.seen.app]
             /\ req' = [req EXCEPT ![k] = [q EXCEPT !.at = "committing", !.got = t]]
      BY <1>7 DEF Exchanged, Proceeds
    <2>. DEFINE p == [q EXCEPT !.at = "committing", !.got = t]
    <2>2. /\ q.at = "exchanging" /\ t \in Token
          /\ UNCHANGED <<supervisorVars, row, edited, poller, revoked, rotated, refused, lost, history>>
      BY <1>7 DEF Exchanged, Unissued
    <2>3. q.op = "finish" /\ q.seen \in Row
      BY <1>1, <2>2 DEF RequestOK
    <2>4. /\ p \in Request /\ p.at = "committing" /\ p.op = "finish" /\ p.seen = q.seen
          /\ p.got = t
      BY <1>1, <2>2, <2>3 DEF Request
    <2>5. RequestOK(p) /\ p # NoRequest
      BY <2>2, <2>3, <2>4, NoRequestShape DEF RequestOK
    <2>6. issuer' \in [Token -> App \cup {NoApp}]
      BY <1>3, <2>1, <2>2, <2>3 DEF Row
    <2>7. QED
      BY <1>1, <1>2, <1>3, <1>4, <2>1, <2>2, <2>4, <2>5, <2>6, RequestMoves DEF history
  <1>8. CASE ExchangeFails(k)
    BY <1>5, <1>8 DEF ExchangeFails
  <1>9. CASE CommitFails(k)
    BY <1>5, <1>9 DEF CommitFails
  <1>10. CASE Commit(k)
    <2>. DEFINE p == AfterCommit(q)
    <2>1. /\ q.at = "committing" /\ req' = [req EXCEPT ![k] = p]
          /\ edited' = {Fcon}
          /\ UNCHANGED <<supervisorVars, poller, ford, crossed>>
      BY <1>10 DEF Commit, Proceeds
    <2>2. /\ p \in Request /\ RequestOK(p) /\ (p = NoRequest <=> p.at = "idle")
          /\ p.seen = NoRow
      BY AfterCommitShape
    <2>3. QED
      BY <1>2, <1>3, <1>4, <1>10, <2>1, <2>2, CommitShape, RequestMoves DEF ford
  <1>11. CASE RestartBegins(k)
    <2>1. /\ q.at = "restarting" /\ req' = [req EXCEPT ![k] = NoRequest]
          /\ Sup!RestartRuntime(k, Fcon)
          /\ edited' = {}
          /\ UNCHANGED <<row, poller, ford, history>>
      BY <1>11 DEF RestartBegins, Proceeds
    <2>2. NoRequest \in Request /\ RequestOK(NoRequest) /\ NoRequest.at = "idle" /\ NoRequest.seen = NoRow
      BY NoRequestShape DEF NoRequest
    <2>3. QED
      BY <1>2, <1>3, <2>1, <2>2, StopKeepsTypes, RequestMoves DEF ford, history
  <1>12. QED
    BY <1>6, <1>7, <1>8, <1>9, <1>10, <1>11 DEF RequestSteps

\* A poller that is built can go on, or is about to decline.
LEMMA BuiltPollerShape ==
  ASSUME NEW tok \in Tok
  PROVE  /\ BuiltPoller(tok) \in [at : PollerAt, tok : Tok, base : Row \cup {NoRow}]
         /\ BuiltPoller(tok).at \in {"asking", "declining"}
         /\ BuiltPoller(tok).tok = tok
         /\ BuiltPoller(tok).at = "asking" <=> Connected(tok)
         /\ PollerOK(BuiltPoller(tok))
  BY DEF BuiltPoller, Connected, PollerAt, PollerOK, Tok

\* A task is created for the row that was loaded, and its poller is built.
LEMMA StartOneStarts ==
  ASSUME Shapes, NEW k \in Caller, Sup!StartOne(k), Builds
  PROVE  \E r \in Runtime :
            LET v == call[k].seen
                j == [config |-> Fcon, value |-> v] IN
            /\ job[r] = NoJob /\ v \in Row /\ v.tok \in Tok
            /\ j \in Sup!Job /\ j # NoJob /\ j.value = v
            /\ registry' = [registry EXCEPT ![Fcon] = r]
            /\ job' = [job EXCEPT ![r] = j]
            /\ call' = [call EXCEPT ![k] = Sup!Idle]
            /\ UNCHANGED up
            /\ poller' = [poller EXCEPT ![r] = BuiltPoller(v.tok)]
  <1>. DEFINE v == call[k].seen
              j == [config |-> Fcon, value |-> v]
  <1>1. call[k].at = "starting" /\ CallOK(call[k]) /\ job \in [Runtime -> Sup!Job \cup {NoJob}]
    BY DEF Sup!StartOne, Shapes, SupTypes
  <1>2. v \in Row /\ call[k].config = Fcon
    BY <1>1 DEF CallOK
  <1>3. v.tok \in Tok /\ j \in Sup!Job /\ j.value = v /\ j # NoJob
    BY <1>2, FordConnectAssumption DEF Row, Sup!Job
  <1>4. PICK r \in Runtime :
           /\ job[r] = NoJob
           /\ registry' = [registry EXCEPT ![Fcon] = r]
           /\ job' = [job EXCEPT ![r] = j]
    BY <1>2 DEF Sup!StartOne, Sup!Fresh, Sup!Live
  <1>5. poller' = [poller EXCEPT ![r] = BuiltPoller(v.tok)]
    <2>1. \A s \in Runtime : job'[s] = IF s = r THEN j ELSE job[s]
      BY <1>1, <1>4
    <2>2. poller' = [s \in Runtime |-> IF s = r THEN BuiltPoller(v.tok) ELSE poller[s]]
      BY <1>3, <1>4, <2>1 DEF Builds
    <2>3. QED
      BY <2>2 DEF Shapes, TypeOK
  <1>6. QED
    BY <1>2, <1>3, <1>4, <1>5 DEF Sup!StartOne

LEMMA SupervisorStepsStep ==
  ASSUME Shapes, NEW k \in Caller, SupervisorSteps(k)
  PROVE  Shapes'
  <1>1. /\ SupTypes /\ CallOK(call[k]) /\ call[k] \in Sup!Call
        /\ registry \in [{Fcon} -> Runtime \cup {NoRuntime}]
    BY DEF Shapes, SupTypes
  <1>2. call[k].at # "idle" => up
    BY RequestIsServed DEF Sup!Idle, Sup!At
  <1>3. UNCHANGED <<row, edited, req, ford, history>>
    BY DEF SupervisorSteps
  <1>4. CASE Sup!SignalStop(k) /\ UNCHANGED poller
    <2>1. PICK x : CallOK(x) /\ x.at # "starting" /\ call' = [call EXCEPT ![k] = x]
      BY <1>1, <1>4, AfterStopOK, JoiningOK DEF Sup!SignalStop
    <2>2. call[k].at = "stopping" /\ UNCHANGED <<up, registry, job>>
      BY <1>4 DEF Sup!SignalStop
    <2>3. QED
      BY <1>1, <1>2, <1>3, <1>4, <2>1, <2>2, SupervisorMoves
  <1>5. CASE Sup!Joined(k) /\ UNCHANGED poller
    <2>1. /\ CallOK(Sup!AfterStop(k)) /\ Sup!AfterStop(k).at # "starting"
          /\ call' = [call EXCEPT ![k] = Sup!AfterStop(k)]
      BY <1>1, <1>5, AfterStopOK DEF Sup!Joined
    <2>2. call[k].at = "joining" /\ UNCHANGED <<up, registry, job>>
      BY <1>5 DEF Sup!Joined
    <2>3. QED
      BY <1>1, <1>2, <1>3, <1>5, <2>1, <2>2, SupervisorMoves
  <1>6. CASE Sup!LoadRow(k) /\ UNCHANGED poller
    <2>1. call[k].at = "loading" /\ call[k].config = Fcon /\ UNCHANGED <<up, registry, job>>
      BY <1>1, <1>6 DEF Sup!LoadRow, CallOK
    <2>2. \/ row \in Row /\ call' = [call EXCEPT ![k] = Sup!Starting(Fcon, row)]
          \/ call' = [call EXCEPT ![k] = Sup!Idle]
      BY <1>6, <2>1 DEF Sup!LoadRow
    <2>3. QED
      BY <1>1, <1>2, <1>3, <1>6, <2>1, <2>2, SupervisorMoves, StartingOK, IdleOK,
         FordConnectAssumption
  <1>7. CASE Sup!SweepNext(k) /\ UNCHANGED poller
    <2>1. call[k].at = "sweeping" /\ call[k].todo \in SUBSET {Fcon} /\ UNCHANGED <<up, job>>
      BY <1>1, <1>7 DEF Sup!SweepNext, Sup!Call
    <2>2. PICK c \in call[k].todo :
             /\ registry' = [registry EXCEPT ![c] = NoRuntime]
             /\ call' = [call EXCEPT ![k] =
                   Sup!StopOf("stopAll", c, call[k].todo \ {c}, Sup!Sweeping(call[k].todo \ {c}))]
      BY <1>7 DEF Sup!SweepNext
    <2>3. c = Fcon /\ call[k].todo \ {c} \in SUBSET {Fcon}
      BY <2>1
    <2>. DEFINE rest == call[k].todo \ {c}
                x == Sup!StopOf("stopAll", Fcon, rest, Sup!Sweeping(rest))
    <2>4. CallOK(x) /\ x.at # "starting"
      BY <1>1, <2>3, SweepingOK, StopOfOK
    <2>5. registry' \in [{Fcon} -> Runtime \cup {NoRuntime}]
      BY <1>1, <2>2
    <2>6. QED
      BY <1>2, <1>3, <1>7, <2>1, <2>2, <2>3, <2>4, <2>5, SupervisorMoves
  <1>8. CASE Sup!StartOne(k) /\ Builds
    <2>. DEFINE v == call[k].seen
                j == [config |-> Fcon, value |-> v]
                p == BuiltPoller(v.tok)
    <2>1. PICK r \in Runtime :
             /\ job[r] = NoJob /\ v \in Row /\ v.tok \in Tok
             /\ j \in Sup!Job /\ j # NoJob /\ j.value = v
             /\ registry' = [registry EXCEPT ![Fcon] = r]
             /\ job' = [job EXCEPT ![r] = j]
             /\ call' = [call EXCEPT ![k] = Sup!Idle]
             /\ UNCHANGED up
             /\ poller' = [poller EXCEPT ![r] = p]
      BY <1>8, StartOneStarts
    <2>2. up /\ row # NoRow
      BY <1>2, <1>8 DEF Sup!StartOne, Shapes, WorksWithRow
    <2>3. /\ \A s \in Runtime : job'[s] = IF s = r THEN j ELSE job[s]
          /\ \A s \in Runtime : poller'[s] = IF s = r THEN p ELSE poller[s]
      BY <2>1 DEF Shapes, TypeOK, SupTypes
    <2>4. /\ p \in [at : PollerAt, tok : Tok, base : Row \cup {NoRow}]
          /\ p.at \in {"asking", "declining"} /\ PollerOK(p)
      BY <2>1, BuiltPollerShape
    <2>5. /\ \A i \in Caller : CallOK(call'[i])
          /\ call' \in [Caller -> Sup!Call]
          /\ \A i \in Caller : call'[i].at = "starting" => call[i].at = "starting"
      BY <1>1, <2>1, IdleOK DEF SupTypes, CallOK
    <2>6. TypeOK'
      BY <1>3, <2>1, <2>3, <2>4 DEF Shapes, TypeOK, ford, history
    <2>7. SupTypes'
      BY <1>1, <2>1, <2>5 DEF SupTypes, CallOK
    <2>8. Quiet'
      BY <2>1, <2>2 DEF Quiet
    <2>9. WorksWithRow'
      BY <1>3, <2>1, <2>2, <2>3, <2>4, <2>5 DEF Shapes, WorksWithRow, PollerOK
    <2>10. QED
      BY <1>3, <2>6, <2>7, <2>8, <2>9 DEF Shapes, RequestOK
  <1>9. QED
    BY <1>4, <1>5, <1>6, <1>7, <1>8 DEF SupervisorSteps

\* The process ends: nothing goes on.
LEMMA ProcessEndsStep ==
  ASSUME Shapes, ProcessEnds
  PROVE  Shapes'
  <1>1. /\ up' = FALSE /\ registry' = [c \in {Fcon} |-> NoRuntime]
        /\ job' = [r \in Runtime |-> NoJob] /\ call' = [k \in Caller |-> Sup!Idle]
        /\ poller' = [r \in Runtime |-> NoPoller]
        /\ req' = [k \in Caller |-> NoRequest]
        /\ UNCHANGED <<row, edited, issuer, revoked, rotated, refused, history>>
        /\ lost' \subseteq Token
    BY DEF ProcessEnds, Sup!ProcessEnds, LosesStored, Shapes, TypeOK
  <1>2. /\ NoPoller \in [at : PollerAt, tok : Tok, base : Row \cup {NoRow}]
        /\ NoPoller.at = "off" /\ PollerOK(NoPoller)
    BY PollerShapes DEF NoPoller, PollerOK
  <1>3. NoRequest \in Request /\ RequestOK(NoRequest) /\ NoRequest.at = "idle" /\ NoRequest.seen = NoRow
    BY NoRequestShape DEF NoRequest
  <1>4. TypeOK'
    BY <1>1, <1>2, <1>3 DEF Shapes, TypeOK, history
  <1>5. SupTypes'
    BY <1>1, IdleOK DEF SupTypes, CallOK
  <1>6. Quiet'
    BY <1>1 DEF Quiet
  <1>7. WorksWithRow'
    BY <1>1, <1>2, <1>3, IdleOK DEF WorksWithRow, PollerOK
  <1>8. QED
    BY <1>1, <1>3, <1>4, <1>5, <1>6, <1>7 DEF Shapes, RequestOK

\* The application starts: one task at most, for a row that is there.
LEMMA StartAllStarts ==
  ASSUME Shapes, StartAll
  PROVE  \E S \in SUBSET Runtime :
            LET j == [config |-> Fcon, value |-> row] IN
            /\ S # {} => row \in Row /\ j \in Sup!Job /\ j # NoJob /\ j.value = row
            /\ \A r \in Runtime : job'[r] = IF r \in S THEN j ELSE NoJob
            /\ \A r \in Runtime : job[r] = NoJob
            /\ job' \in [Runtime -> Sup!Job \cup {NoJob}]
            /\ registry' \in [{Fcon} -> Runtime \cup {NoRuntime}]
            /\ \A r \in S : registry'[Fcon] = r
            /\ poller' = [r \in Runtime |->
                  IF r \in S THEN BuiltPoller(row.tok) ELSE poller[r]]
  <1>. DEFINE j == [config |-> Fcon, value |-> row]
              D == {c \in {Fcon} : [d \in {Fcon} |-> row][c] \in Row}
  <1>1. \A r \in Runtime : job[r] = NoJob
    BY DEF StartAll, Sup!StartAll, Shapes, Quiet
  <1>2. PICK f \in [D -> Runtime] :
           /\ registry' = [c \in {Fcon} |-> IF c \in D THEN f[c] ELSE NoRuntime]
           /\ job' = [r \in Runtime |->
                 IF \E c \in D : f[c] = r
                 THEN LET c == CHOOSE c \in D : f[c] = r
                      IN  [config |-> c, value |-> [d \in {Fcon} |-> row][c]]
                 ELSE NoJob]
    BY DEF StartAll, Sup!StartAll
  <1>. DEFINE S == {r \in Runtime : \E c \in D : f[c] = r}
  <1>3. S # {} => row \in Row /\ j \in Sup!Job /\ j # NoJob /\ j.value = row
    <2>1. SUFFICES ASSUME S # {} PROVE row \in Row /\ j \in Sup!Job /\ j # NoJob /\ j.value = row
      OBVIOUS
    <2>2. row \in Row
      BY <2>1
    <2>3. QED
      BY <2>2, FordConnectAssumption DEF Sup!Job
  <1>4. \A r \in Runtime : job'[r] = IF r \in S THEN j ELSE NoJob
    <2>1. TAKE r \in Runtime
    <2>2. CASE r \in S
      <3>1. (CHOOSE c \in D : f[c] = r) = Fcon
        BY <2>2
      <3>2. QED
        BY <1>2, <2>2, <3>1
    <2>3. CASE r \notin S
      BY <1>2, <2>3
    <2>4. QED
      BY <2>2, <2>3
  <1>5. /\ job' \in [Runtime -> Sup!Job \cup {NoJob}]
        /\ registry' \in [{Fcon} -> Runtime \cup {NoRuntime}]
    <2>1. DOMAIN job' = Runtime /\ job' = [r \in Runtime |-> job'[r]]
      BY <1>2
    <2>2. \A r \in Runtime : job'[r] \in Sup!Job \cup {NoJob}
      BY <1>3, <1>4
    <2>3. registry' \in [{Fcon} -> Runtime \cup {NoRuntime}]
      BY <1>2
    <2>4. QED
      BY <2>1, <2>2, <2>3
  <1>6. poller' = [r \in Runtime |-> IF r \in S THEN BuiltPoller(row.tok) ELSE poller[r]]
    BY <1>1, <1>3, <1>4 DEF StartAll, Builds
  <1>7. \A r \in S : registry'[Fcon] = r
    BY <1>2
  <1>8. QED
    BY <1>1, <1>3, <1>4, <1>5, <1>6, <1>7

LEMMA StartAllStep ==
  ASSUME Shapes, StartAll
  PROVE  Shapes'
  <1>. DEFINE j == [config |-> Fcon, value |-> row]
  <1>1. /\ ~up /\ up' = TRUE
        /\ UNCHANGED <<row, call, req, ford, history>> /\ edited' = {}
        /\ \A k \in Caller : call[k] = Sup!Idle /\ req[k] = NoRequest
    BY DEF StartAll, Sup!StartAll, Shapes, Quiet
  <1>2. PICK S \in SUBSET Runtime :
           /\ S # {} => row \in Row /\ j \in Sup!Job /\ j # NoJob /\ j.value = row
           /\ \A r \in Runtime : job'[r] = IF r \in S THEN j ELSE NoJob
           /\ \A r \in Runtime : job[r] = NoJob
           /\ job' \in [Runtime -> Sup!Job \cup {NoJob}]
           /\ registry' \in [{Fcon} -> Runtime \cup {NoRuntime}]
           /\ poller' = [r \in Runtime |->
                 IF r \in S THEN BuiltPoller(row.tok) ELSE poller[r]]
    BY StartAllStarts
  <1>3. S # {} => /\ BuiltPoller(row.tok) \in [at : PollerAt, tok : Tok, base : Row \cup {NoRow}]
                  /\ BuiltPoller(row.tok).at \in {"asking", "declining"}
                  /\ PollerOK(BuiltPoller(row.tok))
                  /\ row # NoRow
    BY <1>2, BuiltPollerShape, FordConnectAssumption DEF Row
  <1>4. TypeOK'
    <2>1. poller' \in [Runtime -> [at : PollerAt, tok : Tok, base : Row \cup {NoRow}]]
      BY <1>2, <1>3 DEF Shapes, TypeOK
    <2>2. \A r \in Runtime : job'[r] # NoJob <=> poller'[r].at \notin {"off", "declined"}
      BY <1>2, <1>3 DEF Shapes, TypeOK
    <2>3. QED
      BY <1>1, <2>1, <2>2 DEF Shapes, TypeOK, ford, history
  <1>5. SupTypes'
    BY <1>1, <1>2 DEF Shapes, SupTypes, CallOK
  <1>6. Quiet'
    BY <1>1 DEF Quiet
  <1>7. WorksWithRow'
    BY <1>1, <1>2, <1>3 DEF Shapes, WorksWithRow, PollerOK
  <1>8. QED
    BY <1>1, <1>4, <1>5, <1>6, <1>7 DEF Shapes, RequestOK

LEMMA StopAllStep ==
  ASSUME Shapes, NEW k \in Caller, StopAll(k)
  PROVE  Shapes'
  <1>1. /\ up /\ UNCHANGED <<up, job, row, edited, poller, req, ford, history, registry>>
        /\ call' = [call EXCEPT ![k] = Sup!Sweeping(Sup!Registered)]
        /\ Sup!Registered \in SUBSET {Fcon}
    BY DEF StopAll, Sup!StopAll, Sup!Registered
  <1>2. QED
    BY <1>1, SweepingOK, SupervisorMoves DEF Shapes, SupTypes

LEMMA InitShapes == Init => Shapes
  <1>. SUFFICES ASSUME Init PROVE Shapes
    OBVIOUS
  <1>1. /\ NoPoller \in [at : PollerAt, tok : Tok, base : Row \cup {NoRow}]
        /\ NoPoller.at = "off" /\ PollerOK(NoPoller)
    BY PollerShapes DEF NoPoller, PollerOK
  <1>2. NoRequest \in Request /\ RequestOK(NoRequest) /\ NoRequest.at = "idle" /\ NoRequest.seen = NoRow
    BY NoRequestShape DEF NoRequest
  <1>3. TypeOK
    BY <1>1, <1>2 DEF Init, TypeOK
  <1>4. SupTypes /\ Quiet
    BY IdleOK DEF Init, SupTypes, Quiet, CallOK
  <1>5. WorksWithRow
    BY <1>1, <1>2, IdleOK DEF Init, WorksWithRow
  <1>6. QED
    BY <1>2, <1>3, <1>4, <1>5 DEF Init, Shapes

LEMMA NextShapes == Shapes /\ [Next]_vars => Shapes'
  <1>. SUFFICES ASSUME Shapes, [Next]_vars PROVE Shapes'
    OBVIOUS
  <1>1. CASE StartAll
    BY <1>1, StartAllStep
  <1>2. CASE Crash
    BY <1>2, ProcessEndsStep DEF Crash
  <1>3. ASSUME NEW k \in Caller,
               \/ RequestBegins(k) \/ RequestSteps(k) \/ SupervisorSteps(k)
               \/ StopAll(k) \/ Exit(k)
        PROVE  Shapes'
    BY <1>3, RequestBeginsStep, RequestStepsStep, SupervisorStepsStep, StopAllStep,
       ProcessEndsStep DEF Exit
  <1>4. ASSUME NEW r \in Runtime, PollerSteps(r) \/ Unwinds(r)
        PROVE  Shapes'
    BY <1>4, StepsOfThePoller, UnwindsStep
  <1>5. ASSUME NEW t \in Token, Revoke(t)
        PROVE  Shapes'
    <2>1. /\ UNCHANGED <<supervisorVars, row, edited, poller, req, issuer, rotated, refused,
                         lost, history>>
          /\ revoked' = revoked \cup {t}
      BY <1>5 DEF Revoke
    <2>2. TypeOK'
      BY <2>1 DEF Shapes, TypeOK, supervisorVars, history
    <2>3. SupTypes' /\ Quiet' /\ WorksWithRow' /\ \A k \in Caller : RequestOK(req[k])'
      BY <2>1 DEF Shapes, SupTypes, CallOK, Quiet, WorksWithRow, PollerOK, supervisorVars
    <2>4. QED
      BY <2>2, <2>3 DEF Shapes
  <1>6. CASE UNCHANGED vars
    <2>1. TypeOK'
      BY <1>6 DEF Shapes, TypeOK, vars, supervisorVars, ford, history
    <2>2. SupTypes' /\ Quiet' /\ WorksWithRow' /\ \A k \in Caller : RequestOK(req[k])'
      BY <1>6 DEF Shapes, SupTypes, CallOK, Quiet, WorksWithRow, PollerOK, vars, supervisorVars
    <2>3. QED
      BY <2>1, <2>2 DEF Shapes
  <1>7. QED
    BY <1>1, <1>2, <1>3, <1>4, <1>5, <1>6 DEF Next

(***************************************************************************)
(* Type correctness.  A runtime's task lives exactly as long as its poller *)
(* has a place in the loop, whatever the supervisor, the handlers and Ford *)
(* do meanwhile.                                                           *)
(***************************************************************************)
LEMMA ShapesHold == Spec => []Shapes
  BY InitShapes, NextShapes, PTL DEF Spec

THEOREM FordTypeCorrect == Spec => []TypeOK
  <1>1. Shapes => TypeOK
    BY DEF Shapes
  <1>2. QED
    BY <1>1, ShapesHold, PTL

-----------------------------------------------------------------------------
(***************************************************************************)
(* The user's credentials on SQLite.                                       *)
(***************************************************************************)

\* Only two steps write the row, and only the handlers' records what was saved.
LEMMA WhoWritesTheRow ==
  [Next]_vars => \/ UNCHANGED <<row, saved>>
                 \/ \E r \in Runtime : PersistCommit(r)
                 \/ \E k \in Caller : Commit(k)
  <1>. SUFFICES ASSUME [Next]_vars, \A r \in Runtime : ~PersistCommit(r),
                       \A k \in Caller : ~Commit(k)
                PROVE  UNCHANGED <<row, saved>>
    OBVIOUS
  <1>1. CASE StartAll
    BY <1>1 DEF StartAll, history
  <1>2. CASE ProcessEnds
    BY <1>2 DEF ProcessEnds, history
  <1>3. ASSUME NEW k \in Caller, RequestBegins(k)
        PROVE  UNCHANGED <<row, saved>>
    BY <1>3 DEF RequestBegins, SaveBegins, ConsentBegins, FinishBegins, DisconnectBegins, Begins
  <1>4. ASSUME NEW k \in Caller, RequestSteps(k)
        PROVE  UNCHANGED <<row, saved>>
    BY <1>4 DEF RequestSteps, TakeBase, Exchanged, ExchangeFails, CommitFails, RestartBegins,
       history
  <1>5. ASSUME NEW k \in Caller, SupervisorSteps(k) \/ StopAll(k)
        PROVE  UNCHANGED <<row, saved>>
    BY <1>5 DEF SupervisorSteps, StopAll, history
  <1>6. ASSUME NEW r \in Runtime, PollerSteps(r) \/ Unwinds(r)
        PROVE  UNCHANGED <<row, saved>>
    BY <1>6 DEF PollerSteps, Declines, UseAccess, RefreshBegins, RefreshGranted, RefreshRejected,
       RefreshFails, PersistRead, PersistFails, GetAnswers, Unwinds, history
  <1>7. ASSUME NEW t \in Token, Revoke(t)
        PROVE  UNCHANGED <<row, saved>>
    BY <1>7 DEF Revoke, history
  <1>8. CASE UNCHANGED vars
    BY <1>8 DEF vars, history
  <1>9. QED
    BY <1>1, <1>2, <1>3, <1>4, <1>5, <1>6, <1>7, <1>8 DEF Next, Crash, Exit

LEMMA CommitKeepsCredentials ==
  ASSUME Snapshot, Shapes, CredentialsSurvive, NEW k \in Caller, Commit(k)
  PROVE  CredentialsSurvive'
  <1>. DEFINE q == req[k]
  <1>1. /\ q \in Request /\ RequestOK(q) /\ q.at = "committing"
        /\ row = BaseOf(q) /\ row' = Merged(q)
        /\ saved' = IF q.op = "save" THEN q.app ELSE saved
    BY RequestShape DEF Commit, MayCommit
  <1>2. /\ q.op \in {"save", "consent", "finish", "disconnect"}
        /\ q.op \in {"consent", "finish", "disconnect"} => q.seen \in Row
        /\ q.op \in {"save", "consent"} /\ q.seen # NoRow => q.base \in Row
    BY <1>1 DEF Request, RequestOK
  <1>3. NoRow \notin Row
    BY FordConnectAssumption
  <1>4. CASE q.op = "save"
    <2>1. SavedOver(q).app = q.app
      BY <1>2, <1>4 DEF SavedOver, Row
    <2>2. QED
      BY <1>1, <1>4, <2>1 DEF Merged, CredentialsSurvive
  <1>5. CASE q.op = "consent"
    <2>1. q.base \in Row /\ row = q.base
      BY <1>1, <1>2, <1>3, <1>5 DEF BaseOf
    <2>2. [q.base EXCEPT !.tok.pending = TRUE].app = q.base.app
      BY <2>1 DEF Row
    <2>3. QED
      BY <1>1, <1>3, <1>5, <2>1, <2>2 DEF Merged, CredentialsSurvive
  <1>6. CASE q.op = "finish"
    <2>1. q.seen \in Row /\ row = q.seen
      BY <1>1, <1>2, <1>6 DEF BaseOf
    <2>2. [q.seen EXCEPT !.tok = WithToken(q.got)].app = q.seen.app
      BY <2>1 DEF Row
    <2>3. QED
      BY <1>1, <1>3, <1>6, <2>1, <2>2 DEF Merged, CredentialsSurvive
  <1>7. CASE q.op = "disconnect"
    <2>1. q.seen \in Row /\ row = q.seen
      BY <1>1, <1>2, <1>7 DEF BaseOf
    <2>2. [q.seen EXCEPT !.tok = NoTokens].app = q.seen.app
      BY <2>1 DEF Row
    <2>3. QED
      BY <1>1, <1>3, <1>7, <2>1, <2>2 DEF Merged, CredentialsSurvive
  <1>8. QED
    BY <1>2, <1>4, <1>5, <1>6, <1>7

LEMMA PersistKeepsCredentials ==
  ASSUME Snapshot, Shapes, CredentialsSurvive, NEW r \in Runtime, PersistCommit(r)
  PROVE  CredentialsSurvive'
  <1>1. poller[r].base \in Row /\ row = poller[r].base
    BY PollerShape DEF PersistCommit, MayCommit, PollerOK
  <1>2. Persisted(poller[r]).app = row.app
    BY <1>1 DEF Persisted, Row
  <1>3. row # NoRow
    BY <1>1, FordConnectAssumption
  <1>4. QED
    BY <1>2, <1>3 DEF PersistCommit, CredentialsSurvive, history

(***************************************************************************)
(* On SQLite the stored credentials are the ones saved last, for every     *)
(* number of settings requests and pollers at once: a commit that goes     *)
(* through was merged over the row as it still stood.                      *)
(***************************************************************************)
THEOREM CredentialsAreKept ==
  ASSUME Snapshot
  PROVE  Spec => []CredentialsSurvive
  <1>1. Init => CredentialsSurvive
    BY DEF Init, CredentialsSurvive
  <1>2. Shapes /\ CredentialsSurvive /\ [Next]_vars => CredentialsSurvive'
    <2>. SUFFICES ASSUME Shapes, CredentialsSurvive, [Next]_vars PROVE CredentialsSurvive'
      OBVIOUS
    <2>1. CASE UNCHANGED <<row, saved>>
      BY <2>1 DEF CredentialsSurvive
    <2>2. QED
      BY <2>1, WhoWritesTheRow, PersistKeepsCredentials, CommitKeepsCredentials
  <1>3. QED
    BY <1>1, <1>2, ShapesHold, PTL DEF Spec

-----------------------------------------------------------------------------
(***************************************************************************)
(* The re-authorization flag.  The row is copied into requests, calls and  *)
(* pollers and written back from there; the flag is justified in each copy.*)
(***************************************************************************)
Justified(tok) == tok.needs => tok.refresh \in refused

RowJustified(x) == x # NoRow => Justified(x.tok)

CopiesJustified ==
    /\ RowJustified(row)
    /\ \A r \in Runtime : Justified(poller[r].tok)
    /\ \A k \in Caller : RowJustified(req[k].seen) /\ RowJustified(req[k].base)
    /\ \A k \in Caller : call[k].at = "starting" => RowJustified(call[k].seen)

\* Ford's refusals are not forgotten.
LEMMA RefusedGrows == [Next]_vars => refused \subseteq refused'
  <1>. SUFFICES ASSUME [Next]_vars PROVE refused \subseteq refused'
    OBVIOUS
  <1>1. ASSUME NEW r \in Runtime, PollerSteps(r) \/ Unwinds(r)
        PROVE  refused \subseteq refused'
    BY <1>1 DEF PollerSteps, Declines, UseAccess, RefreshBegins, RefreshGranted, RefreshRejected,
       RefreshFails, PersistRead, PersistCommit, PersistFails, GetAnswers, Unwinds, ford
  <1>2. ASSUME NEW k \in Caller,
               \/ RequestBegins(k) \/ RequestSteps(k) \/ SupervisorSteps(k) \/ StopAll(k)
        PROVE  refused \subseteq refused'
    BY <1>2 DEF RequestBegins, SaveBegins, ConsentBegins, FinishBegins, DisconnectBegins, Begins,
       RequestSteps, TakeBase, Exchanged, ExchangeFails, Commit, CommitFails, RestartBegins,
       SupervisorSteps, StopAll, ford
  <1>3. CASE StartAll \/ ProcessEnds \/ UNCHANGED vars \/ \E t \in Token : Revoke(t)
    BY <1>3 DEF StartAll, ProcessEnds, Revoke, vars, ford
  <1>4. QED
    BY <1>1, <1>2, <1>3 DEF Next, Crash, Exit

\* The poller's copies.
LEMMA PollersJustified ==
  ASSUME Shapes, CopiesJustified, [Next]_vars, refused \subseteq refused',
         NEW r \in Runtime
  PROVE  Justified(poller[r].tok)'
  <1>. DEFINE Good(tok) == tok.needs => tok.refresh \in refused'
  <1>1. Good(poller[r].tok) /\ Good(NoTokens) /\ \A t : Good(WithToken(t))
    BY DEF CopiesJustified, Justified, NoTokens, WithToken
  <1>2. \A s \in Runtime : poller[s] \in [at : PollerAt, tok : Tok, base : Row \cup {NoRow}]
    BY PollerShape
  <1>3. SUFFICES Good(poller'[r].tok)
    BY DEF Justified
  <1>4. CASE UNCHANGED poller
    BY <1>1, <1>4
  <1>5. ASSUME NEW s \in Runtime, PollerSteps(s) \/ Unwinds(s)
        PROVE  Good(poller'[r].tok)
    <2>1. ASSUME NEW p, poller' = [poller EXCEPT ![s] = p], Good(p.tok)
          PROVE  Good(poller'[r].tok)
      BY <1>1, <2>1 DEF Shapes, TypeOK
    <2>2. CASE \E at \in PollerAt : Moves(s, at)
      BY <1>2, <1>1, <2>2 DEF Moves, Shapes, TypeOK
    <2>3. CASE RefreshGranted(s)
      BY <1>1, <2>1, <2>3 DEF RefreshGranted
    <2>4. CASE RefreshRejected(s)
      <3>. DEFINE p == [poller[s] EXCEPT !.at = "reading", !.tok.needs = TRUE]
      <3>1. poller[s].tok \in Tok
        BY <1>2
      <3>2. p.tok = [poller[s].tok EXCEPT !.needs = TRUE]
        BY <1>2
      <3>3. p.tok.refresh = poller[s].tok.refresh
        BY <3>1, <3>2 DEF Tok
      <3>4. poller' = [poller EXCEPT ![s] = p] /\ poller[s].tok.refresh \in refused'
        BY <2>4 DEF RefreshRejected
      <3>. HIDE DEF p
      <3>5. QED
        BY <2>1, <3>3, <3>4
    <2>5. CASE PersistRead(s)
      <3>1. [poller[s] EXCEPT !.at = "writing", !.base = row].tok = poller[s].tok
        BY <1>2
      <3>2. Good(poller[s].tok)
        BY DEF CopiesJustified, Justified
      <3>3. QED
        BY <2>1, <2>5, <3>1, <3>2 DEF PersistRead
    <2>6. CASE PersistCommit(s)
      <3>1. \A at : [poller[s] EXCEPT !.at = at, !.base = NoRow].tok = poller[s].tok
        BY <1>2
      <3>2. Good(poller[s].tok)
        BY DEF CopiesJustified, Justified
      <3>3. QED
        BY <2>1, <2>6, <3>1, <3>2 DEF PersistCommit
    <2>7. CASE Declines(s) \/ PersistFails(s) \/ Unwinds(s)
      <3>1. NoPoller.tok = NoTokens /\ DeclinedPoller.tok = NoTokens
        BY DEF NoPoller, DeclinedPoller
      <3>2. QED
        BY <1>1, <2>1, <2>7, <3>1 DEF Declines, PersistFails, Unwinds
    <2>8. QED
      BY <1>5, <2>2, <2>3, <2>4, <2>5, <2>6, <2>7 DEF PollerSteps, UseAccess, RefreshBegins,
         RefreshFails, GetAnswers, PollerAt
  <1>6. CASE StartAll
    <2>1. PICK S \in SUBSET Runtime :
             /\ S # {} => row \in Row
             /\ poller' = [s \in Runtime |->
                   IF s \in S THEN BuiltPoller(row.tok) ELSE poller[s]]
      BY <1>6, StartAllStarts
    <2>2. r \in S => BuiltPoller(row.tok).tok = row.tok /\ Good(row.tok)
      BY <2>1, BuiltPollerShape, FordConnectAssumption DEF CopiesJustified, RowJustified, Justified, Row
    <2>3. QED
      BY <1>1, <2>1, <2>2
  <1>7. ASSUME NEW k \in Caller, Sup!StartOne(k), Builds
        PROVE  Good(poller'[r].tok)
    <2>. DEFINE v == call[k].seen
    <2>1. PICK s \in Runtime : /\ v \in Row /\ v.tok \in Tok
                               /\ poller' = [poller EXCEPT ![s] = BuiltPoller(v.tok)]
      BY <1>7, StartOneStarts
    <2>2. BuiltPoller(v.tok).tok = v.tok /\ Good(v.tok)
      BY <1>7, <2>1, BuiltPollerShape, FordConnectAssumption
         DEF Sup!StartOne, CopiesJustified, RowJustified, Justified
    <2>3. QED
      BY <1>1, <2>1, <2>2 DEF Shapes, TypeOK
  <1>8. CASE ProcessEnds
    BY <1>1, <1>8 DEF ProcessEnds, NoPoller
  <1>9. UNCHANGED poller \/ StartAll \/ ProcessEnds
        \/ (\E s \in Runtime : PollerSteps(s) \/ Unwinds(s))
        \/ (\E k \in Caller : Sup!StartOne(k) /\ Builds)
    BY DEF Next, Crash, Exit, RequestBegins, SaveBegins, ConsentBegins, FinishBegins,
       DisconnectBegins, Begins, RequestSteps, TakeBase, Exchanged, ExchangeFails, Commit,
       CommitFails, RestartBegins, SupervisorSteps, StopAll, Revoke, vars
  <1>10. QED
    BY <1>4, <1>5, <1>6, <1>7, <1>8, <1>9

\* The row itself.
LEMMA StoredRowJustified ==
  ASSUME Shapes, CopiesJustified, [Next]_vars, refused \subseteq refused'
  PROVE  RowJustified(row)'
  <1>. DEFINE Good(tok) == tok.needs => tok.refresh \in refused'
  <1>1. CASE UNCHANGED row
    BY <1>1 DEF CopiesJustified, RowJustified, Justified
  <1>2. ASSUME NEW r \in Runtime, PersistCommit(r)
        PROVE  RowJustified(row)'
    <2>1. Persisted(poller[r]).tok = poller[r].tok
      BY <1>2, PollerShape DEF PersistCommit, PollerOK, Persisted, Row
    <2>2. QED
      BY <1>2, <2>1 DEF PersistCommit, CopiesJustified, RowJustified, Justified
  <1>3. ASSUME NEW k \in Caller, Commit(k)
        PROVE  RowJustified(row)'
    <2>. DEFINE q == req[k]
    <2>1. /\ q \in Request /\ RequestOK(q) /\ q.at = "committing" /\ row' = Merged(q)
          /\ RowJustified(q.base)
      BY <1>3, RequestShape DEF Commit, CopiesJustified
    <2>2. /\ q.op \in {"save", "consent", "finish", "disconnect"}
          /\ q.op \in {"consent", "finish", "disconnect"} => q.seen \in Row
          /\ q.op \in {"save", "consent"} /\ q.seen # NoRow
             => q.base \in Row /\ Good(q.base.tok)
      BY <2>1, FordConnectAssumption DEF Request, RequestOK, RowJustified, Justified
    <2>3. Good(NoTokens) /\ \A t : Good(WithToken(t))
      BY DEF NoTokens, WithToken
    <2>4. NoRow \notin Row
      BY FordConnectAssumption
    <2>5. Good(row'.tok)
      <3>1. CASE q.op = "save"
        <4>1. CASE q.seen # NoRow /\ q.seen.app = q.app
          <5>1. [q.base EXCEPT !.app = q.app].tok = q.base.tok
            BY <2>2, <3>1, <4>1 DEF Row
          <5>2. QED
            BY <2>1, <2>2, <3>1, <4>1, <5>1 DEF Merged, SavedOver
        <4>2. CASE ~(q.seen # NoRow /\ q.seen.app = q.app)
          <5>1. row' = [app |-> q.app, tok |-> NoTokens]
            BY <2>1, <3>1, <4>2 DEF Merged, SavedOver
          <5>2. QED
            BY <2>3, <5>1
        <4>3. QED
          BY <4>1, <4>2
      <3>2. CASE q.op = "consent"
        <4>. DEFINE x == [q.base EXCEPT !.tok.pending = TRUE]
        <4>1. q.base \in Row /\ Good(q.base.tok)
          BY <2>2, <2>4, <3>2
        <4>2. x.tok.needs = q.base.tok.needs /\ x.tok.refresh = q.base.tok.refresh
          BY <4>1 DEF Row, Tok
        <4>3. row' = x
          BY <2>1, <3>2 DEF Merged
        <4>4. QED
          BY <4>1, <4>2, <4>3
      <3>3. CASE q.op = "finish"
        <4>1. [q.seen EXCEPT !.tok = WithToken(q.got)].tok = WithToken(q.got)
          BY <2>2, <3>3 DEF Row
        <4>2. QED
          BY <2>1, <2>3, <3>3, <4>1 DEF Merged
      <3>4. CASE q.op = "disconnect"
        <4>1. [q.seen EXCEPT !.tok = NoTokens].tok = NoTokens
          BY <2>2, <3>4 DEF Row
        <4>2. QED
          BY <2>1, <2>3, <3>4, <4>1 DEF Merged
      <3>5. QED
        BY <2>2, <3>1, <3>2, <3>3, <3>4
    <2>6. QED
      BY <2>5 DEF RowJustified, Justified
  <1>4. QED
    BY <1>1, <1>2, <1>3, WhoWritesTheRow

LEMMA BegunCopies ==
  ASSUME NEW op, NEW at, NEW seen, NEW app
  PROVE  /\ Begun(op, at, seen, app).seen = seen
         /\ Begun(op, at, seen, app).base = NoRow
  <1>1. NoRequest \in Request /\ NoRequest.base = NoRow
    BY NoRequestShape DEF NoRequest
  <1>2. QED
    BY <1>1 DEF Begun, Request

LEMMA AfterCommitCopies ==
  ASSUME NEW q
  PROVE  AfterCommit(q).seen = NoRow /\ AfterCommit(q).base = NoRow
  <1>1. NoRequest \in Request /\ NoRequest.seen = NoRow /\ NoRequest.base = NoRow
    BY NoRequestShape DEF NoRequest
  <1>2. QED
    BY <1>1 DEF AfterCommit, Request

\* The copies that requests hold.
LEMMA RequestsJustified ==
  ASSUME Shapes, CopiesJustified, [Next]_vars, refused \subseteq refused',
         NEW j \in Caller
  PROVE  (RowJustified(req[j].seen) /\ RowJustified(req[j].base))'
  <1>. DEFINE Good(x) == x # NoRow => (x.tok.needs => x.tok.refresh \in refused')
  <1>1. Good(row) /\ Good(req[j].seen) /\ Good(req[j].base) /\ Good(NoRow)
    BY DEF CopiesJustified, RowJustified, Justified
  <1>2. SUFFICES Good(req'[j].seen) /\ Good(req'[j].base)
    BY DEF RowJustified, Justified
  <1>3. ASSUME NEW k \in Caller, NEW q, Proceeds(k, q),
               k = j => Good(q.seen) /\ Good(q.base)
        PROVE  Good(req'[j].seen) /\ Good(req'[j].base)
    BY <1>1, <1>3 DEF Proceeds, Shapes, TypeOK
  <1>4. NoRequest.seen = NoRow /\ NoRequest.base = NoRow
    BY DEF NoRequest
  <1>5. CASE UNCHANGED req
    BY <1>1, <1>5
  <1>6. CASE ProcessEnds
    BY <1>1, <1>4, <1>6 DEF ProcessEnds
  <1>7. ASSUME NEW k \in Caller, NEW op, NEW at, NEW app, Begins(k, op, at, app)
        PROVE  Good(req'[j].seen) /\ Good(req'[j].base)
    <2>1. Begun(op, at, row, app).seen = row /\ Begun(op, at, row, app).base = NoRow
      BY BegunCopies
    <2>2. Proceeds(k, Begun(op, at, row, app))
      BY <1>7 DEF Begins, Begun, Proceeds
    <2>3. QED
      BY <1>1, <1>3, <2>1, <2>2
  <1>8. ASSUME NEW k \in Caller, TakeBase(k)
        PROVE  Good(req'[j].seen) /\ Good(req'[j].base)
    <2>. DEFINE p == [req[k] EXCEPT !.at = "committing",
                                    !.base = IF Snapshot THEN req[k].seen ELSE row]
    <2>1. p.seen = req[k].seen /\ p.base \in {req[k].seen, row}
      BY RequestShape DEF Request
    <2>2. Proceeds(k, p)
      BY <1>8 DEF TakeBase
    <2>. HIDE DEF p
    <2>3. QED
      BY <1>1, <1>3, <2>1, <2>2
  <1>9. ASSUME NEW k \in Caller, Exchanged(k)
        PROVE  Good(req'[j].seen) /\ Good(req'[j].base)
    <2>1. PICK t \in Unissued : Proceeds(k, [req[k] EXCEPT !.at = "committing", !.got = t])
      BY <1>9 DEF Exchanged
    <2>. DEFINE p == [req[k] EXCEPT !.at = "committing", !.got = t]
    <2>2. p.seen = req[k].seen /\ p.base = req[k].base
      BY RequestShape DEF Request
    <2>. HIDE DEF p
    <2>3. QED
      BY <1>1, <1>3, <2>1, <2>2 DEF p
  <1>10. ASSUME NEW k \in Caller,
                Commit(k) \/ CommitFails(k) \/ ExchangeFails(k) \/ RestartBegins(k)
         PROVE  Good(req'[j].seen) /\ Good(req'[j].base)
    <2>1. AfterCommit(req[k]).seen = NoRow /\ AfterCommit(req[k]).base = NoRow
      BY AfterCommitCopies
    <2>2. Proceeds(k, NoRequest) \/ Proceeds(k, AfterCommit(req[k]))
      BY <1>10 DEF Commit, CommitFails, ExchangeFails, RestartBegins
    <2>3. QED
      BY <1>1, <1>3, <1>4, <2>1, <2>2
  <1>11. \/ UNCHANGED req
         \/ ProcessEnds
         \/ \E k \in Caller :
               \/ \E op, at, app : Begins(k, op, at, app)
               \/ TakeBase(k) \/ Exchanged(k) \/ Commit(k) \/ CommitFails(k)
               \/ ExchangeFails(k) \/ RestartBegins(k)
    <2>1. ASSUME NEW k \in Caller, RequestBegins(k)
          PROVE  \E op, at, app : Begins(k, op, at, app)
      BY <2>1 DEF RequestBegins, SaveBegins, ConsentBegins, FinishBegins, DisconnectBegins
    <2>2. ASSUME NEW r \in Runtime, PollerSteps(r) \/ Unwinds(r)
          PROVE  UNCHANGED req
      BY <2>2 DEF PollerSteps, Declines, UseAccess, RefreshBegins, RefreshGranted,
         RefreshRejected, RefreshFails, PersistRead, PersistCommit, PersistFails, GetAnswers,
         Unwinds
    <2>3. ASSUME NEW k \in Caller, SupervisorSteps(k) \/ StopAll(k)
          PROVE  UNCHANGED req
      BY <2>3 DEF SupervisorSteps, StopAll
    <2>4. CASE StartAll \/ UNCHANGED vars \/ \E t \in Token : Revoke(t)
      BY <2>4 DEF StartAll, Revoke, vars
    <2>5. QED
      BY <2>1, <2>2, <2>3, <2>4 DEF Next, Crash, Exit, RequestSteps
  <1>12. QED
    BY <1>5, <1>6, <1>7, <1>8, <1>9, <1>10, <1>11

\* The copies that calls on the supervisor hold: a row just loaded.
LEMMA CallsJustified ==
  ASSUME Shapes, CopiesJustified, [Next]_vars, refused \subseteq refused',
         NEW j \in Caller
  PROVE  (call[j].at = "starting" => RowJustified(call[j].seen))'
  <1>. DEFINE Good(x) == x # NoRow => (x.tok.needs => x.tok.refresh \in refused')
              Fine(c) == c.at = "starting" => Good(c.seen)
  <1>1. Good(row) /\ Fine(call[j])
    BY DEF CopiesJustified, RowJustified, Justified
  <1>2. SUFFICES Fine(call'[j])
    BY DEF RowJustified, Justified
  <1>3. SupTypes
    BY DEF Shapes
  <1>4. ASSUME NEW k \in Caller, NEW x, call' = [call EXCEPT ![k] = x], Fine(x)
        PROVE  Fine(call'[j])
    BY <1>1, <1>3, <1>4 DEF SupTypes
  <1>5. ASSUME NEW k \in Caller, SupervisorSteps(k)
        PROVE  Fine(call'[j])
    <2>1. CASE Sup!LoadRow(k)
      <3>1. call[k].config = Fcon
        BY <1>3, <2>1 DEF Sup!LoadRow, SupTypes, CallOK
      <3>2. \/ call' = [call EXCEPT ![k] = Sup!Starting(Fcon, row)]
            \/ call' = [call EXCEPT ![k] = Sup!Idle]
        BY <2>1, <3>1 DEF Sup!LoadRow
      <3>3. Fine(Sup!Starting(Fcon, row)) /\ Fine(Sup!Idle)
        BY <1>1 DEF Sup!Starting, Sup!Idle, Sup!At
      <3>4. QED
        BY <1>4, <3>2, <3>3
    <2>2. CASE Sup!SignalStop(k) \/ Sup!Joined(k)
      <3>1. PICK x : call' = [call EXCEPT ![k] = x] /\ x.at # "starting"
        BY <1>3, <2>2, AfterStopOK, JoiningOK DEF Sup!SignalStop, Sup!Joined
      <3>2. QED
        BY <1>4, <3>1
    <2>3. CASE Sup!SweepNext(k)
      <3>1. call[k].todo \in SUBSET {Fcon}
        BY <1>3 DEF SupTypes, Sup!Call
      <3>2. PICK c \in call[k].todo : call' = [call EXCEPT ![k] =
               Sup!StopOf("stopAll", c, call[k].todo \ {c}, Sup!Sweeping(call[k].todo \ {c}))]
        BY <2>3 DEF Sup!SweepNext
      <3>. DEFINE rest == call[k].todo \ {c}
                  x == Sup!StopOf("stopAll", Fcon, rest, Sup!Sweeping(rest))
      <3>3. c = Fcon /\ rest \in SUBSET {Fcon}
        BY <3>1
      <3>4. x.at # "starting"
        BY <1>3, <3>3, SweepingOK, StopOfOK
      <3>5. call' = [call EXCEPT ![k] = x]
        BY <3>2, <3>3
      <3>. HIDE DEF x
      <3>6. QED
        BY <1>4, <3>4, <3>5
    <2>4. CASE Sup!StartOne(k)
      <3>1. call' = [call EXCEPT ![k] = Sup!Idle] /\ Sup!Idle.at # "starting"
        BY <2>4, IdleOK DEF Sup!StartOne
      <3>2. QED
        BY <1>4, <3>1
    <2>5. QED
      BY <1>5, <2>1, <2>2, <2>3, <2>4 DEF SupervisorSteps
  <1>6. ASSUME NEW k \in Caller, DisconnectBegins(k) \/ RestartBegins(k)
        PROVE  Fine(call'[j])
    <2>1. PICK x : call' = [call EXCEPT ![k] = x] /\ x.at # "starting"
      <3>1. CASE Sup!StopRuntime(k, Fcon)
        BY <1>3, <3>1, StopOfOK, IdleOK DEF Sup!StopRuntime
      <3>2. CASE Sup!RestartRuntime(k, Fcon)
        BY <1>3, <3>2, StopOfOK, LoadingOK DEF Sup!RestartRuntime
      <3>3. QED
        BY <1>6, <3>1, <3>2 DEF DisconnectBegins, RestartBegins
    <2>2. QED
      BY <1>4, <2>1
  <1>7. ASSUME NEW k \in Caller, StopAll(k)
        PROVE  Fine(call'[j])
    BY <1>4, <1>7 DEF StopAll, Sup!StopAll, Sup!Sweeping, Sup!At
  <1>8. CASE ProcessEnds
    BY <1>8, IdleOK DEF ProcessEnds, Sup!ProcessEnds
  <1>9. CASE UNCHANGED call
    BY <1>1, <1>9
  <1>10. \/ UNCHANGED call
         \/ ProcessEnds
         \/ \E k \in Caller : SupervisorSteps(k) \/ DisconnectBegins(k) \/ RestartBegins(k) \/ StopAll(k)
    BY DEF Next, Crash, Exit, StartAll, Sup!StartAll, RequestBegins, SaveBegins, ConsentBegins,
       FinishBegins, RequestSteps, TakeBase, Exchanged, ExchangeFails, Commit, CommitFails,
       PollerSteps, Declines, UseAccess, RefreshBegins, RefreshGranted, RefreshRejected,
       RefreshFails, PersistRead, PersistCommit, PersistFails, GetAnswers, Unwinds, Sup!EndTask,
       Revoke, vars, supervisorVars
  <1>11. QED
    BY <1>5, <1>6, <1>7, <1>8, <1>9, <1>10

(***************************************************************************)
(* "Re-authorization required" is only ever stored for a token that Ford   *)
(* has refused: on both databases, and whichever of the row's copies is    *)
(* written back last.                                                      *)
(***************************************************************************)
THEOREM ConsentFlagIsTrue == Spec => []ConsentFlagIsJustified
  <1>1. Init => CopiesJustified
    BY IdleOK DEF Init, CopiesJustified, RowJustified, Justified, NoPoller, NoTokens, NoRequest
  <1>2. Shapes /\ CopiesJustified /\ [Next]_vars => CopiesJustified'
    BY RefusedGrows, StoredRowJustified, PollersJustified, RequestsJustified, CallsJustified
       DEF CopiesJustified
  <1>3. CopiesJustified => ConsentFlagIsJustified
    BY DEF CopiesJustified, RowJustified, Justified, ConsentFlagIsJustified
  <1>4. QED
    BY <1>1, <1>2, <1>3, ShapesHold, PTL DEF Spec

-----------------------------------------------------------------------------
(***************************************************************************)
(* FordConnect runs under the supervisor of Supervisor: a step of the      *)
(* composition is a step of the supervisor, a task's end, a commit of the  *)
(* row, or none of its business.                                           *)
(***************************************************************************)
SupervisorStep == Sup!Next \/ UNCHANGED Sup!vars

LEMMA NoneOfItsBusiness ==
  ASSUME UNCHANGED <<supervisorVars, row, edited>>
  PROVE  SupervisorStep
  BY DEF SupervisorStep, Sup!vars, Sup!supervisorVars, supervisorVars

LEMMA CommitIsSaveRow ==
  ASSUME Shapes, up, row' \in Row, edited' = {Fcon}, UNCHANGED supervisorVars
  PROVE  SupervisorStep
  <1>1. edited' = edited \cup {Fcon}
    BY DEF Shapes, TypeOK
  <1>2. [c \in {Fcon} |-> row]' = [[c \in {Fcon} |-> row] EXCEPT ![Fcon] = row']
    OBVIOUS
  <1>3. Sup!SaveRow(Fcon, row')
    BY <1>1, <1>2 DEF Sup!SaveRow, Sup!supervisorVars, supervisorVars
  <1>4. QED
    BY <1>3 DEF SupervisorStep, Sup!Next

LEMMA StepImplements ==
  ASSUME Shapes, [Next]_vars
  PROVE  SupervisorStep
  <1>1. CASE StartAll
    BY <1>1 DEF StartAll, SupervisorStep, Sup!Next
  <1>2. CASE Crash
    <2>1. Sup!Crash /\ UNCHANGED <<row, edited>>
      BY <1>2 DEF Crash, ProcessEnds, Sup!Crash
    <2>2. QED
      BY <2>1 DEF SupervisorStep, Sup!Next
  <1>3. ASSUME NEW k \in Caller, RequestBegins(k)
        PROVE  SupervisorStep
    <2>1. CASE DisconnectBegins(k)
      <3>1. Sup!StopRuntime(k, Fcon) /\ UNCHANGED <<row, edited>>
        BY <2>1 DEF DisconnectBegins, Begins
      <3>2. QED
        BY <3>1 DEF SupervisorStep, Sup!Next, Sup!CallBegins
    <2>2. CASE ~DisconnectBegins(k)
      BY <1>3, <2>2, NoneOfItsBusiness DEF RequestBegins, SaveBegins, ConsentBegins, FinishBegins,
         Begins
    <2>3. QED
      BY <2>1, <2>2
  <1>4. ASSUME NEW k \in Caller, RequestSteps(k)
        PROVE  SupervisorStep
    <2>1. CASE Commit(k)
      <3>1. up
        BY <2>1, RequestIsServed, NoRequestShape DEF Commit
      <3>2. QED
        BY <2>1, <3>1, CommitShape, CommitIsSaveRow DEF Commit
    <2>2. CASE RestartBegins(k)
      <3>1. /\ Sup!RestartRuntime(k, Fcon) /\ UNCHANGED row
            /\ edited' = edited \ {Fcon}
        BY <2>2 DEF RestartBegins, Shapes, TypeOK
      <3>2. QED
        BY <3>1 DEF SupervisorStep, Sup!Next, Sup!CallBegins
    <2>3. CASE TakeBase(k) \/ Exchanged(k) \/ ExchangeFails(k) \/ CommitFails(k)
      BY <2>3, NoneOfItsBusiness DEF TakeBase, Exchanged, ExchangeFails, CommitFails
    <2>4. QED
      BY <1>4, <2>1, <2>2, <2>3 DEF RequestSteps
  <1>5. ASSUME NEW k \in Caller, SupervisorSteps(k) \/ Exit(k)
        PROVE  SupervisorStep
    <2>1. Sup!CallSteps(k)
      BY <1>5 DEF SupervisorSteps, Exit, ProcessEnds, Sup!Exit, Sup!CallSteps
    <2>2. QED
      BY <2>1 DEF SupervisorStep, Sup!Next
  <1>6. ASSUME NEW k \in Caller, StopAll(k)
        PROVE  SupervisorStep
    <2>1. Sup!CallBegins(k)
      BY <1>6 DEF StopAll, Sup!CallBegins
    <2>2. QED
      BY <2>1 DEF SupervisorStep, Sup!Next
  <1>7. ASSUME NEW r \in Runtime, PollerSteps(r)
        PROVE  SupervisorStep
    <2>1. CASE PersistCommit(r)
      <3>1. up
        BY <2>1 DEF PersistCommit, Shapes, TypeOK, Quiet
      <3>2. row' \in Row
        BY <2>1, PollerShape DEF PersistCommit, PollerOK, Persisted, Row
      <3>3. QED
        BY <2>1, <3>1, <3>2, CommitIsSaveRow DEF PersistCommit
    <2>2. CASE Declines(r) \/ PersistFails(r)
      <3>1. Sup!TaskSteps(r)
        BY <2>2 DEF Declines, PersistFails, Runs, Sup!TaskSteps, Sup!TaskEnds
      <3>2. QED
        BY <3>1 DEF SupervisorStep, Sup!Next
    <2>3. CASE ~(PersistCommit(r) \/ Declines(r) \/ PersistFails(r))
      BY <1>7, <2>3, NoneOfItsBusiness DEF PollerSteps, UseAccess, RefreshBegins, RefreshGranted,
         RefreshRejected, RefreshFails, PersistRead, GetAnswers
    <2>4. QED
      BY <2>1, <2>2, <2>3
  <1>8. ASSUME NEW r \in Runtime, Unwinds(r)
        PROVE  SupervisorStep
    <2>1. Sup!TaskSteps(r)
      BY <1>8 DEF Unwinds, Sup!TaskSteps, Sup!TaskUnwinds
    <2>2. QED
      BY <2>1 DEF SupervisorStep, Sup!Next
  <1>9. ASSUME NEW t \in Token, Revoke(t)
        PROVE  SupervisorStep
    BY <1>9, NoneOfItsBusiness DEF Revoke
  <1>10. CASE UNCHANGED vars
    BY <1>10, NoneOfItsBusiness DEF vars
  <1>11. QED
    BY <1>1, <1>2, <1>3, <1>4, <1>5, <1>6, <1>7, <1>8, <1>9, <1>10 DEF Next

(***************************************************************************)
(* The composition implements the supervisor, for every number of          *)
(* runtimes, callers and tokens.                                           *)
(***************************************************************************)
THEOREM RunsUnderTheSupervisor == Spec => ImplementsSupervisor
  <1>1. Init => Sup!Init
    BY DEF Init, Sup!Init
  <1>2. Shapes /\ [Next]_vars => [Sup!Next]_Sup!vars
    BY StepImplements DEF SupervisorStep
  <1>3. QED
    BY <1>1, <1>2, ShapesHold, PTL DEF Spec, ImplementsSupervisor, Sup!Spec
-----------------------------------------------------------------------------
(***************************************************************************)
(* The tokens, as long as settings requests are served one at a time.      *)
(* Solo is what that gives: one poller at most, which the registry or the  *)
(* caller that is stopping it refers to, and a row that nobody changes     *)
(* while it is loaded.  From it follow that a disconnect sticks (Silenced) *)
(* and, on SQLite, that a rotated token reaches the row (TokensTracked).   *)
(***************************************************************************)
Working(r) == job[r] # NoJob

\* Caller k has taken runtime r out of the registry, and waits for its task.
Awaits(x, r) == x.at \in {"stopping", "joining"} /\ x.rt = r

Alone == \A j, k \in Caller : Busy(j) /\ Busy(k) => j = k

OneTask ==
    /\ \A r, s \in Runtime : Working(r) /\ Working(s) => r = s
    /\ \A r \in Runtime : Working(r) =>
          registry[Fcon] = r \/ \E k \in Caller : Awaits(call[k], r)

\* What a caller relies on, given its call on the supervisor and its request.
CallerOK(x, q, reg, stored) ==
    /\ x.op \in {"restart", "stop"} => reg[Fcon] = NoRuntime
    /\ q.op = "disconnect" => reg[Fcon] = NoRuntime /\ x.op \in {"none", "stop"}
    /\ q # NoRequest /\ q.op # "disconnect" => x = Sup!Idle
    /\ x.at = "starting" => x.seen = stored
    /\ x.at = "sweeping" => x.op = "stopAll"

Solo ==
    /\ Alone
    /\ OneTask
    /\ \A k \in Caller : CallerOK(call[k], req[k], registry, row)

-----------------------------------------------------------------------------
(***************************************************************************)
(* The calls and requests of an idle caller, and what follows from Solo.   *)
(***************************************************************************)
LEMMA IdleFields ==
  /\ Sup!Idle \in Sup!Call
  /\ Sup!Idle.op = "none" /\ Sup!Idle.at = "idle" /\ Sup!Idle.rt = NoRuntime
  /\ NoRequest \in Request
  /\ NoRequest.op = "none" /\ NoRequest.at = "idle" /\ NoRequest.got = NoToken
  /\ NoRequest.seen = NoRow /\ NoRequest.base = NoRow
  <1>1. Sup!Idle \in Sup!Call /\ Sup!Idle.op = "none" /\ Sup!Idle.at = "idle" /\ Sup!Idle.rt = NoRuntime
    BY IdleOK DEF CallOK, Sup!Idle, Sup!At
  <1>2. QED
    BY <1>1, NoRequestShape DEF NoRequest

LEMMA OthersIdle ==
  ASSUME Solo, NEW k \in Caller, Busy(k), NEW j \in Caller, j # k
  PROVE  call[j] = Sup!Idle /\ req[j] = NoRequest
  BY DEF Solo, Alone, Busy

\* Once a restart has stopped the old task, and once a disconnect may commit,
\* no task runs.
LEMMA NobodyWorks ==
  ASSUME Shapes, Solo, NEW k \in Caller,
         \/ call[k].at \in {"loading", "starting"}
         \/ req[k].op = "disconnect" /\ call[k] = Sup!Idle
  PROVE  /\ \A r \in Runtime : ~Working(r)
         /\ registry[Fcon] = NoRuntime
  <1>1. CallOK(call[k]) /\ CallerOK(call[k], req[k], registry, row)
    BY DEF Shapes, SupTypes, Solo
  <1>2. registry[Fcon] = NoRuntime /\ Busy(k)
    BY <1>1, IdleFields DEF CallOK, CallerOK, Busy
  <1>3. ASSUME NEW r \in Runtime, Working(r)
        PROVE  FALSE
    <2>1. PICK j \in Caller : Awaits(call[j], r)
      BY <1>2, <1>3, FordConnectAssumption DEF Solo, OneTask
    <2>2. j = k
      BY <1>2, <2>1, OthersIdle, IdleFields DEF Awaits
    <2>3. QED
      BY <2>1, <2>2, IdleFields DEF Awaits
  <1>4. QED
    BY <1>2, <1>3

\* One caller takes a step; nobody else is busy.
LEMMA CallerMoves ==
  ASSUME Shapes, Solo, NEW k \in Caller, \A j \in Caller \ {k} : ~Busy(j),
         NEW x, NEW q,
         call' = [call EXCEPT ![k] = x], req' = [req EXCEPT ![k] = q],
         UNCHANGED job,
         CallerOK(x, q, registry', row'),
         \A r \in Runtime :
            Working(r) /\ (registry[Fcon] = r \/ Awaits(call[k], r))
            => registry'[Fcon] = r \/ Awaits(x, r)
  PROVE  Solo'
  <1>1. \A j \in Caller : /\ call'[j] = IF j = k THEN x ELSE call[j]
                          /\ req'[j] = IF j = k THEN q ELSE req[j]
    BY DEF Shapes, SupTypes, TypeOK
  <1>2. \A j \in Caller \ {k} : call'[j] = Sup!Idle /\ req'[j] = NoRequest
    BY <1>1 DEF Busy
  <1>3. Alone'
    BY <1>2 DEF Alone, Busy
  <1>4. ASSUME NEW r \in Runtime, Working(r)
        PROVE  registry'[Fcon] = r \/ \E j \in Caller : Awaits(call'[j], r)
    <2>1. \A j \in Caller \ {k} : ~Awaits(call[j], r)
      BY IdleFields DEF Awaits, Busy
    <2>2. registry[Fcon] = r \/ Awaits(call[k], r)
      BY <1>4, <2>1 DEF Solo, OneTask
    <2>3. QED
      BY <1>1, <1>4, <2>2
  <1>5. OneTask'
    BY <1>4 DEF OneTask, Solo, Working, Awaits
  <1>6. \A j \in Caller : CallerOK(call'[j], req'[j], registry', row')
    <2>1. \A j \in Caller \ {k} : CallerOK(call'[j], req'[j], registry', row')
      BY <1>2, IdleFields DEF CallerOK
    <2>2. QED
      BY <1>1, <2>1
  <1>7. QED
    BY <1>3, <1>5, <1>6 DEF Solo, CallerOK

\* The callers stay where they are; tasks may end, and a poller write the row.
LEMMA SoloKept ==
  ASSUME Shapes, Solo, UNCHANGED <<call, registry, req>>,
         \A r \in Runtime : Working(r)' => Working(r),
         UNCHANGED row \/ \E r \in Runtime : Working(r)
  PROVE  Solo'
  <1>1. Alone'
    BY DEF Solo, Alone, Busy
  <1>2. OneTask'
    BY DEF Solo, OneTask, Awaits, Working
  <1>3. ASSUME NEW k \in Caller
        PROVE  CallerOK(call[k], req[k], registry, row')
    <2>1. CallerOK(call[k], req[k], registry, row)
      BY DEF Solo
    <2>2. UNCHANGED row \/ call[k].at # "starting"
      BY NobodyWorks
    <2>3. QED
      BY <2>1, <2>2 DEF CallerOK
  <1>4. QED
    BY <1>1, <1>2, <1>3 DEF Solo, CallerOK

\* What a poller's step leaves alone.
LEMMA PollerEffects ==
  ASSUME Shapes, NEW r \in Runtime, PollerSteps(r) \/ Unwinds(r)
  PROVE  /\ UNCHANGED <<call, registry, req, crossed, disconnected>>
         /\ Working(r)
         /\ job' = job \/ job' = [job EXCEPT ![r] = NoJob]
         /\ \A s \in Runtime : Working(s)' => Working(s)
         /\ \A s \in Runtime \ {r} : job'[s] = job[s] /\ poller'[s] = poller[s]
  <1>1. Working(r)
    <2>1. poller[r].at = "writing" => Working(r)
      BY DEF Shapes, TypeOK, Working
    <2>2. QED
      BY <2>1 DEF PollerSteps, Unwinds, Declines, UseAccess, RefreshBegins, RefreshGranted,
         RefreshRejected, RefreshFails, PersistRead, PersistCommit, PersistFails, GetAnswers,
         Sup!EndTask, Sup!Live, Runs, Working
  <1>2. /\ UNCHANGED <<call, registry, req, crossed, disconnected>>
        /\ job' = job \/ job' = [job EXCEPT ![r] = NoJob]
    BY DEF PollerSteps, Unwinds, Declines, UseAccess, RefreshBegins, RefreshGranted,
       RefreshRejected, RefreshFails, PersistRead, PersistCommit, PersistFails, GetAnswers,
       Sup!EndTask, supervisorVars, history
  <1>3. \E p : poller' = [poller EXCEPT ![r] = p]
    BY DEF PollerSteps, Unwinds, Declines, UseAccess, RefreshBegins, RefreshGranted,
       RefreshRejected, RefreshFails, PersistRead, PersistCommit, PersistFails, GetAnswers, Moves
  <1>4. /\ \A s \in Runtime \ {r} : job'[s] = job[s] /\ poller'[s] = poller[s]
        /\ job'[r] = job[r] \/ job'[r] = NoJob
    BY <1>2, <1>3 DEF Shapes, SupTypes, TypeOK
  <1>5. \A s \in Runtime : Working(s)' => Working(s)
    BY <1>4 DEF Working
  <1>6. QED
    BY <1>1, <1>2, <1>4, <1>5

\* stop_runtime's and restart_runtime's first step: the runtime leaves the
\* registry, and the caller goes to stop it.
LEMMA TakesOver ==
  ASSUME Shapes, NEW op \in {"restart", "stop", "stopAll"}, NEW todo, NEW otherwise,
         registry' = [registry EXCEPT ![Fcon] = NoRuntime]
  PROVE  LET x == Sup!StopOf(op, Fcon, todo, otherwise) IN
         /\ registry'[Fcon] = NoRuntime
         /\ \A r \in Runtime : registry[Fcon] = r => Awaits(x, r)
         /\ x = otherwise \/ (x.op = op /\ x.at = "stopping")
  <1>1. registry'[Fcon] = NoRuntime
    BY DEF Shapes, SupTypes
  <1>2. QED
    BY <1>1, FordConnectAssumption DEF Sup!StopOf, Sup!Stopping, Sup!At, Awaits

LEMMA OneAtATime ==
  ASSUME Shapes, NEW k \in Caller, NEW op, NEW at, NEW app, Begins(k, op, at, app), ~crossed'
  PROVE  /\ \A j \in Caller \ {k} : ~Busy(j)
         /\ ~Busy(k) /\ call[k] = Sup!Idle
         /\ req' = [req EXCEPT ![k] = Begun(op, at, row, app)]
  BY DEF Begins, Begun, Busy

LEMMA BeginsSolo ==
  ASSUME Shapes, Solo, ~crossed', NEW k \in Caller, RequestBegins(k)
  PROVE  Solo'
  <1>1. row \in Row \cup {NoRow}
    BY DEF Shapes, TypeOK
  <1>2. ASSUME NEW op \in {"save", "consent", "finish"}, NEW at \in {"merging", "exchanging"},
               NEW app \in App \cup {NoApp}, Begins(k, op, at, app), UNCHANGED supervisorVars
        PROVE  Solo'
    <2>. DEFINE q == Begun(op, at, row, app)
    <2>1. /\ \A j \in Caller \ {k} : ~Busy(j)
          /\ call[k] = Sup!Idle /\ req' = [req EXCEPT ![k] = q]
          /\ UNCHANGED <<job, registry, row, call>>
      <3>1. UNCHANGED <<job, registry, row, call>>
        BY <1>2 DEF Begins, supervisorVars
      <3>2. QED
        BY <1>2, <3>1, OneAtATime
    <2>2. q.op = op
      BY <1>1, BegunShape
    <2>3. call' = [call EXCEPT ![k] = Sup!Idle]
      BY <2>1 DEF Shapes, SupTypes
    <2>4. CallerOK(Sup!Idle, q, registry', row')
      BY <2>2, IdleFields DEF CallerOK
    <2>. HIDE DEF q
    <2>5. QED
      BY <2>1, <2>3, <2>4, CallerMoves
  <1>3. CASE DisconnectBegins(k)
    <2>. DEFINE q == Begun("disconnect", "committing", row, NoApp)
                x == Sup!StopOf("stop", Fcon, {}, Sup!Idle)
    <2>1. /\ \A j \in Caller \ {k} : ~Busy(j)
          /\ call[k] = Sup!Idle /\ req' = [req EXCEPT ![k] = q]
          /\ call' = [call EXCEPT ![k] = x]
          /\ registry' = [registry EXCEPT ![Fcon] = NoRuntime]
          /\ UNCHANGED <<job, row>>
      <3>1. Begins(k, "disconnect", "committing", NoApp) /\ Sup!StopRuntime(k, Fcon)
        BY <1>3 DEF DisconnectBegins
      <3>2. /\ call' = [call EXCEPT ![k] = x]
            /\ registry' = [registry EXCEPT ![Fcon] = NoRuntime]
            /\ UNCHANGED <<job, row>>
        BY <3>1 DEF Begins, Sup!StopRuntime
      <3>3. QED
        BY <3>1, <3>2, OneAtATime
    <2>2. q.op = "disconnect"
      BY <1>1, BegunShape
    <2>3. /\ registry'[Fcon] = NoRuntime
          /\ \A r \in Runtime : registry[Fcon] = r => Awaits(x, r)
          /\ x = Sup!Idle \/ (x.op = "stop" /\ x.at = "stopping")
      BY <2>1, TakesOver
    <2>4. CallerOK(x, q, registry', row')
      BY <2>2, <2>3, IdleFields DEF CallerOK
    <2>5. \A r \in Runtime : ~Awaits(call[k], r)
      BY <2>1, IdleFields DEF Awaits
    <2>. HIDE DEF q, x
    <2>6. QED
      BY <2>1, <2>3, <2>4, <2>5, CallerMoves
  <1>4. QED
    BY <1>2, <1>3 DEF RequestBegins, SaveBegins, ConsentBegins, FinishBegins

LEMMA RequestStepsSolo ==
  ASSUME Shapes, Solo, NEW k \in Caller, RequestSteps(k)
  PROVE  Solo'
  <1>. DEFINE q == req[k]
  <1>1. /\ q \in Request /\ RequestOK(q)
        /\ q = NoRequest <=> q.at = "idle"
        /\ CallerOK(call[k], q, registry, row)
    BY RequestShape DEF Solo
  <1>2. q.at # "idle" => \A j \in Caller \ {k} : ~Busy(j)
    BY <1>1, OthersIdle DEF Busy
  <1>3. ASSUME q.at # "idle", NEW p, req' = [req EXCEPT ![k] = p],
               UNCHANGED <<call, job, registry>>,
               UNCHANGED row \/ call[k] = Sup!Idle,
               p = NoRequest \/ p.op = q.op \/ (p.op # "disconnect" /\ call[k] = Sup!Idle)
        PROVE  Solo'
    <2>1. call' = [call EXCEPT ![k] = call[k]]
      BY <1>3 DEF Shapes, SupTypes
    <2>2. CallerOK(call[k], p, registry', row')
      BY <1>1, <1>3, IdleFields DEF CallerOK
    <2>3. QED
      BY <1>2, <1>3, <2>1, <2>2, CallerMoves
  <1>4. CASE TakeBase(k)
    <2>. DEFINE p == [q EXCEPT !.at = "committing", !.base = IF Snapshot THEN q.seen ELSE row]
    <2>1. p.op = q.op
      BY <1>1 DEF Request
    <2>2. /\ q.at = "merging" /\ req' = [req EXCEPT ![k] = p]
          /\ UNCHANGED <<call, job, registry, row>>
      BY <1>4 DEF TakeBase, Proceeds, supervisorVars
    <2>. HIDE DEF p
    <2>3. QED
      BY <1>3, <2>1, <2>2
  <1>5. CASE Exchanged(k)
    <2>1. PICK t : req' = [req EXCEPT ![k] = [q EXCEPT !.at = "committing", !.got = t]]
      BY <1>5 DEF Exchanged, Proceeds
    <2>2. [q EXCEPT !.at = "committing", !.got = t].op = q.op
      BY <1>1 DEF Request
    <2>3. q.at = "exchanging" /\ UNCHANGED <<call, job, registry, row>>
      BY <1>5 DEF Exchanged, supervisorVars
    <2>4. QED
      BY <1>3, <2>1, <2>2, <2>3
  <1>6. CASE ExchangeFails(k) \/ CommitFails(k)
    BY <1>3, <1>6 DEF ExchangeFails, CommitFails, Proceeds, supervisorVars
  <1>7. CASE Commit(k)
    <2>1. /\ q.at = "committing" /\ req' = [req EXCEPT ![k] = AfterCommit(q)]
          /\ call[k] = Sup!Idle
          /\ UNCHANGED <<call, job, registry>>
      BY <1>7 DEF Commit, Proceeds, supervisorVars
    <2>2. AfterCommit(q).op # "disconnect"
      <3>1. \A op \in {"save", "finish"} :
               [NoRequest EXCEPT !.op = op, !.at = "restarting"].op = op
        BY IdleFields DEF Request
      <3>2. QED
        BY <3>1, IdleFields DEF AfterCommit
    <2>3. QED
      BY <1>3, <2>1, <2>2
  <1>8. CASE RestartBegins(k)
    <2>. DEFINE x == Sup!StopOf("restart", Fcon, {}, Sup!Loading(Fcon))
    <2>1. /\ q.at = "restarting" /\ req' = [req EXCEPT ![k] = NoRequest]
          /\ call[k] = Sup!Idle
          /\ call' = [call EXCEPT ![k] = x]
          /\ registry' = [registry EXCEPT ![Fcon] = NoRuntime]
          /\ UNCHANGED <<job, row>>
      BY <1>8 DEF RestartBegins, Proceeds, Sup!RestartRuntime
    <2>2. /\ registry'[Fcon] = NoRuntime
          /\ \A r \in Runtime : registry[Fcon] = r => Awaits(x, r)
          /\ x = Sup!Loading(Fcon) \/ (x.op = "restart" /\ x.at = "stopping")
      BY <2>1, TakesOver
    <2>3. x.at \notin {"starting", "sweeping"} /\ \A r \in Runtime : ~Awaits(call[k], r)
      BY <2>1, <2>2, IdleFields DEF Awaits, Sup!Loading, Sup!At
    <2>4. CallerOK(x, NoRequest, registry', row')
      BY <2>2, <2>3, IdleFields DEF CallerOK
    <2>. HIDE DEF x
    <2>5. QED
      BY <1>2, <2>1, <2>2, <2>3, <2>4, CallerMoves
  <1>9. QED
    BY <1>4, <1>5, <1>6, <1>7, <1>8 DEF RequestSteps

\* Where a call goes when its runtime has ended.
LEMMA AfterStopFields ==
  ASSUME NEW k \in Caller
  PROVE  LET x == Sup!AfterStop(k) IN
         /\ x = Sup!Idle \/ x.op = call[k].op
         /\ x.at # "starting"
         /\ x.at = "sweeping" => x.op = "stopAll"
  BY DEF Sup!AfterStop, Sup!Loading, Sup!Sweeping, Sup!Idle, Sup!At

LEMMA SupervisorStepsSolo ==
  ASSUME Shapes, Solo, NEW k \in Caller, SupervisorSteps(k)
  PROVE  Solo'
  <1>1. /\ CallOK(call[k]) /\ call[k] \in Sup!Call
        /\ CallerOK(call[k], req[k], registry, row)
        /\ UNCHANGED <<req, row>>
    BY DEF Shapes, SupTypes, Solo, SupervisorSteps
  <1>2. call[k].at # "idle"
    BY DEF SupervisorSteps, Sup!SignalStop, Sup!Joined, Sup!LoadRow, Sup!SweepNext, Sup!StartOne
  <1>3. call[k] # Sup!Idle /\ Busy(k) /\ \A j \in Caller \ {k} : ~Busy(j)
    BY <1>2, IdleFields, OthersIdle DEF Busy
  <1>4. ASSUME NEW x, call' = [call EXCEPT ![k] = x], UNCHANGED job,
               x = Sup!Idle \/ x.op = call[k].op,
               registry'[Fcon] \in {registry[Fcon], NoRuntime},
               x.at = "starting" => x.seen = row,
               x.at = "sweeping" => x.op = "stopAll",
               \A r \in Runtime :
                  Working(r) /\ (registry[Fcon] = r \/ Awaits(call[k], r))
                  => registry'[Fcon] = r \/ Awaits(x, r)
        PROVE  Solo'
    <2>1. req' = [req EXCEPT ![k] = req[k]]
      BY <1>1 DEF Shapes, TypeOK
    <2>2. CallerOK(x, req[k], registry', row')
      BY <1>1, <1>3, <1>4, IdleFields DEF CallerOK
    <2>3. QED
      BY <1>3, <1>4, <2>1, <2>2, CallerMoves
  <1>5. CASE Sup!SignalStop(k) /\ Working(call[k].rt)
    <2>. DEFINE x == Sup!Joining(call[k].op, call[k].config, call[k].rt, call[k].todo)
    <2>1. call' = [call EXCEPT ![k] = x] /\ UNCHANGED <<job, registry>>
      BY <1>5 DEF Sup!SignalStop, Sup!Live, Working
    <2>2. x.op = call[k].op /\ x.at = "joining" /\ x.rt = call[k].rt
      BY DEF Sup!Joining, Sup!At
    <2>. HIDE DEF x
    <2>3. QED
      BY <1>4, <2>1, <2>2 DEF Awaits
  <1>6. CASE Sup!Joined(k) \/ (Sup!SignalStop(k) /\ ~Working(call[k].rt))
    <2>. DEFINE x == Sup!AfterStop(k)
    <2>1. /\ call' = [call EXCEPT ![k] = x] /\ UNCHANGED <<job, registry>>
          /\ ~Working(call[k].rt)
      BY <1>6 DEF Sup!SignalStop, Sup!Joined, Sup!Live, Working
    <2>2. /\ x = Sup!Idle \/ x.op = call[k].op
          /\ x.at # "starting"
          /\ x.at = "sweeping" => x.op = "stopAll"
      BY AfterStopFields
    <2>. HIDE DEF x
    <2>3. QED
      BY <1>4, <2>1, <2>2 DEF Awaits
  <1>7. CASE Sup!LoadRow(k)
    <2>1. /\ call[k].at = "loading" /\ call[k].config = Fcon /\ call[k].op = "restart"
          /\ UNCHANGED <<registry, job>>
      BY <1>1, <1>7 DEF Sup!LoadRow, CallOK
    <2>2. PICK x \in {Sup!Starting(Fcon, row), Sup!Idle} : call' = [call EXCEPT ![k] = x]
      BY <1>7, <2>1 DEF Sup!LoadRow
    <2>3. /\ x = Sup!Idle \/ x.op = call[k].op
          /\ x.at = "starting" => x.seen = row
          /\ x.at # "sweeping"
      BY <2>1, <2>2, IdleFields DEF Sup!Starting, Sup!At
    <2>4. \A r \in Runtime : ~Awaits(call[k], r)
      BY <2>1 DEF Awaits
    <2>5. QED
      BY <1>4, <2>1, <2>2, <2>3, <2>4, NobodyWorks
  <1>8. CASE Sup!SweepNext(k)
    <2>1. /\ call[k].at = "sweeping" /\ call[k].todo \in SUBSET {Fcon} /\ UNCHANGED job
      BY <1>1, <1>8 DEF Sup!SweepNext, Sup!Call
    <2>2. PICK c \in call[k].todo :
             /\ registry' = [registry EXCEPT ![c] = NoRuntime]
             /\ call' = [call EXCEPT ![k] =
                   Sup!StopOf("stopAll", c, call[k].todo \ {c}, Sup!Sweeping(call[k].todo \ {c}))]
      BY <1>8 DEF Sup!SweepNext
    <2>3. c = Fcon
      BY <2>1
    <2>. DEFINE y == Sup!Sweeping(call[k].todo \ {c})
                x == Sup!StopOf("stopAll", Fcon, call[k].todo \ {c}, y)
    <2>4. /\ registry'[Fcon] = NoRuntime
          /\ \A r \in Runtime : registry[Fcon] = r => Awaits(x, r)
          /\ x = y \/ (x.op = "stopAll" /\ x.at = "stopping")
      BY <2>2, <2>3, TakesOver
    <2>5. y.op = "stopAll" /\ y.at = "sweeping"
      BY DEF Sup!Sweeping, Sup!At
    <2>6. \A r \in Runtime : ~Awaits(call[k], r)
      BY <2>1 DEF Awaits
    <2>7. x.op = "stopAll" /\ x.at # "starting" /\ call' = [call EXCEPT ![k] = x]
      BY <2>2, <2>3, <2>4, <2>5
    <2>. HIDE DEF x, y
    <2>8. call[k].op = "stopAll" /\ registry'[Fcon] \in {registry[Fcon], NoRuntime}
      BY <1>1, <2>1, <2>4 DEF CallerOK
    <2>9. QED
      BY <1>4, <2>1, <2>4, <2>6, <2>7, <2>8
  <1>9. CASE Sup!StartOne(k) /\ Builds
    <2>. DEFINE v == call[k].seen
                j == [config |-> Fcon, value |-> v]
    <2>1. PICK r \in Runtime :
             /\ registry' = [registry EXCEPT ![Fcon] = r]
             /\ job' = [job EXCEPT ![r] = j]
             /\ call' = [call EXCEPT ![k] = Sup!Idle]
      BY <1>9, StartOneStarts
    <2>2. /\ call[k].at = "starting" /\ \A s \in Runtime : ~Working(s)
          /\ req[k] = NoRequest
      <3>1. call[k].at = "starting" /\ call[k].op = "restart"
        BY <1>1, <1>9 DEF Sup!StartOne, CallOK
      <3>2. req[k] = NoRequest
        BY <1>1, <1>3, <3>1 DEF CallerOK
      <3>3. QED
        BY <3>1, <3>2, NobodyWorks
    <2>3. /\ \A s \in Runtime : Working(s)' => s = r
          /\ registry'[Fcon] = r
          /\ \A i \in Caller : call'[i] = Sup!Idle /\ req'[i] = NoRequest
      BY <1>1, <1>3, <2>1, <2>2 DEF Shapes, SupTypes, Working, Busy
    <2>4. Alone'
      BY <2>3 DEF Alone, Busy
    <2>5. OneTask'
      BY <2>3 DEF OneTask
    <2>6. \A i \in Caller : CallerOK(call'[i], req'[i], registry', row')
      BY <2>3, IdleFields DEF CallerOK
    <2>7. QED
      BY <2>4, <2>5, <2>6 DEF Solo, CallerOK
  <1>10. QED
    BY <1>5, <1>6, <1>7, <1>8, <1>9 DEF SupervisorSteps

\* Everybody is idle before the application starts and after it has ended.
LEMMA NobodyIsBusy ==
  ASSUME NEW calls, NEW reqs, \A k \in Caller : calls[k] = Sup!Idle /\ reqs[k] = NoRequest
  PROVE  \A k \in Caller : \A reg, stored : CallerOK(calls[k], reqs[k], reg, stored)
  BY IdleFields DEF CallerOK

LEMMA ProcessSolo ==
  ASSUME Shapes, Solo, ProcessEnds \/ StartAll \/ \E k \in Caller : StopAll(k)
  PROVE  Solo'
  <1>1. CASE ProcessEnds
    <2>1. /\ \A k \in Caller : call'[k] = Sup!Idle /\ req'[k] = NoRequest
          /\ \A r \in Runtime : ~Working(r)'
      BY <1>1 DEF ProcessEnds, Sup!ProcessEnds, Working
    <2>2. \A k \in Caller : CallerOK(call'[k], req'[k], registry', row')
      BY <2>1, NobodyIsBusy
    <2>3. QED
      BY <2>1, <2>2 DEF Solo, Alone, OneTask, Busy, CallerOK
  <1>2. CASE StartAll
    <2>. DEFINE j == [config |-> Fcon, value |-> row]
    <2>1. PICK S \in SUBSET Runtime :
             /\ \A r \in Runtime : job'[r] = IF r \in S THEN j ELSE NoJob
             /\ \A r \in S : registry'[Fcon] = r
      BY <1>2, StartAllStarts
    <2>2. \A k \in Caller : call'[k] = Sup!Idle /\ req'[k] = NoRequest
      BY <1>2 DEF StartAll, Sup!StartAll, Shapes, Quiet
    <2>3. \A r \in Runtime : Working(r)' => registry'[Fcon] = r
      BY <2>1 DEF Working
    <2>4. \A k \in Caller : CallerOK(call'[k], req'[k], registry', row')
      BY <2>2, NobodyIsBusy
    <2>5. QED
      BY <2>2, <2>3, <2>4 DEF Solo, Alone, OneTask, Busy, CallerOK
  <1>3. ASSUME NEW k \in Caller, StopAll(k)
        PROVE  Solo'
    <2>. DEFINE x == Sup!Sweeping(Sup!Registered)
    <2>1. /\ call' = [call EXCEPT ![k] = x] /\ UNCHANGED <<job, registry, req, row>>
          /\ \A i \in Caller : ~Busy(i)
      BY <1>3 DEF StopAll, Sup!StopAll
    <2>2. x.op = "stopAll" /\ x.at = "sweeping"
      BY DEF Sup!Sweeping, Sup!At
    <2>3. /\ req' = [req EXCEPT ![k] = NoRequest]
          /\ \A r \in Runtime : ~Awaits(call[k], r)
      BY <2>1, IdleFields DEF Shapes, TypeOK, Busy, Awaits
    <2>. HIDE DEF x
    <2>4. CallerOK(x, NoRequest, registry', row')
      BY <2>2, IdleFields DEF CallerOK
    <2>5. QED
      BY <2>1, <2>3, <2>4, CallerMoves
  <1>4. QED
    BY <1>1, <1>2, <1>3

\* Two requests that have been served at once are not forgotten.
LEMMA CrossedStays == Shapes /\ [Next]_vars /\ crossed => crossed'
  <1>. SUFFICES ASSUME Shapes, [Next]_vars, crossed PROVE crossed'
    OBVIOUS
  <1>1. ASSUME NEW k \in Caller, RequestBegins(k)
        PROVE  crossed'
    BY <1>1 DEF RequestBegins, SaveBegins, ConsentBegins, FinishBegins, DisconnectBegins, Begins
  <1>2. ASSUME NEW k \in Caller, RequestSteps(k)
        PROVE  crossed'
    BY <1>2 DEF RequestSteps, TakeBase, Exchanged, ExchangeFails, Commit, CommitFails,
       RestartBegins, history
  <1>3. ASSUME NEW k \in Caller, SupervisorSteps(k) \/ StopAll(k)
        PROVE  crossed'
    BY <1>3 DEF SupervisorSteps, StopAll, history
  <1>4. ASSUME NEW r \in Runtime, PollerSteps(r) \/ Unwinds(r)
        PROVE  crossed'
    BY <1>4, PollerEffects
  <1>5. CASE StartAll \/ ProcessEnds \/ UNCHANGED vars \/ \E t \in Token : Revoke(t)
    BY <1>5 DEF StartAll, ProcessEnds, Revoke, vars, history
  <1>6. QED
    BY <1>1, <1>2, <1>3, <1>4, <1>5 DEF Next, Crash, Exit

LEMMA NextSolo == Shapes /\ Solo /\ ~crossed' /\ [Next]_vars => Solo'
  <1>. SUFFICES ASSUME Shapes, Solo, ~crossed', [Next]_vars PROVE Solo'
    OBVIOUS
  <1>1. CASE StartAll \/ ProcessEnds
    BY <1>1, ProcessSolo
  <1>2. ASSUME NEW k \in Caller,
               RequestBegins(k) \/ RequestSteps(k) \/ SupervisorSteps(k) \/ StopAll(k)
        PROVE  Solo'
    BY <1>2, BeginsSolo, RequestStepsSolo, SupervisorStepsSolo, ProcessSolo
  <1>3. ASSUME NEW r \in Runtime, PollerSteps(r) \/ Unwinds(r)
        PROVE  Solo'
    <2>1. UNCHANGED <<call, registry, req>> /\ Working(r) /\ \A s \in Runtime : Working(s)' => Working(s)
      BY <1>3, PollerEffects
    <2>2. QED
      BY <2>1, SoloKept
  <1>4. CASE UNCHANGED vars \/ \E t \in Token : Revoke(t)
    <2>1. UNCHANGED <<call, registry, req, job, row>>
      BY <1>4 DEF Revoke, vars, supervisorVars
    <2>2. QED
      BY <2>1, SoloKept DEF Working
  <1>5. QED
    BY <1>1, <1>2, <1>3, <1>4 DEF Next, Crash, Exit

SoloInv == crossed \/ Solo

(***************************************************************************)
(* One request at a time means one poller at a time.                       *)
(***************************************************************************)
LEMMA SoloHolds == Spec => []SoloInv
  <1>1. Init => SoloInv
    <2>1. Init => \A k \in Caller : CallerOK(call[k], req[k], registry, row)
      BY NobodyIsBusy DEF Init
    <2>2. QED
      BY <2>1 DEF Init, SoloInv, Solo, Alone, OneTask, Busy, Working
  <1>2. Shapes /\ SoloInv /\ [Next]_vars => SoloInv'
    BY NextSolo, CrossedStays DEF SoloInv
  <1>3. QED
    BY <1>1, <1>2, ShapesHold, PTL DEF Spec

-----------------------------------------------------------------------------
(***************************************************************************)
(* A disconnect sticks.  After it neither the row, nor a request, nor a    *)
(* poller has a token to bring back: the poller that had one was stopped   *)
(* before the row was cleared.                                             *)
(***************************************************************************)
Gone(x) == x # NoRow => x.tok.refresh = NoToken

Silenced ==
    /\ Gone(row)
    /\ \A r \in Runtime : Working(r) => poller[r].at = "declining"
    /\ \A k \in Caller : Gone(req[k].seen) /\ Gone(req[k].base)

DisconnectInv == crossed \/ ~disconnected \/ Silenced

LEMMA RequestSilent ==
  ASSUME Shapes, NEW k \in Caller, NEW q, Gone(q.seen), Gone(q.base),
         \A j \in Caller \ {k} : Gone(req[j].seen) /\ Gone(req[j].base),
         \A r \in Runtime : Working(r) => poller[r].at = "declining",
         req' = [req EXCEPT ![k] = q], UNCHANGED <<poller, job>>, Gone(row')
  PROVE  Silenced'
  <1>1. \A j \in Caller : req'[j] = IF j = k THEN q ELSE req[j]
    BY DEF Shapes, TypeOK
  <1>2. \A j \in Caller : Gone(req'[j].seen) /\ Gone(req'[j].base)
    BY <1>1
  <1>3. QED
    BY <1>2 DEF Silenced, Gone, Working

\* What a commit leaves in the row unless it connects.
LEMMA CommitSilent ==
  ASSUME Shapes, NEW k \in Caller, Commit(k), req[k].op # "finish",
         req[k].op = "disconnect" \/ Gone(req[k].base)
  PROVE  Gone(row')
  <1>. DEFINE q == req[k]
  <1>1. /\ q \in Request /\ RequestOK(q) /\ q.at = "committing" /\ row' = Merged(q)
    BY RequestShape DEF Commit
  <1>2. /\ q.op \in {"save", "consent", "disconnect"}
        /\ q.op \in {"consent", "disconnect"} => q.seen \in Row
        /\ q.op \in {"save", "consent"} /\ q.seen # NoRow
           => q.base \in Row /\ Gone(q.base)
    BY <1>1 DEF Request, RequestOK
  <1>3. NoRow \notin Row /\ NoTokens.refresh = NoToken
    BY FordConnectAssumption DEF NoTokens
  <1>4. CASE q.op = "save"
    <2>1. CASE q.seen # NoRow /\ q.seen.app = q.app
      <3>1. [q.base EXCEPT !.app = q.app].tok = q.base.tok
        BY <1>2, <1>4, <2>1 DEF Row
      <3>2. QED
        BY <1>1, <1>2, <1>3, <1>4, <2>1, <3>1 DEF Merged, SavedOver, Gone
    <2>2. CASE ~(q.seen # NoRow /\ q.seen.app = q.app)
      <3>1. row' = [app |-> q.app, tok |-> NoTokens]
        BY <1>1, <1>4, <2>2 DEF Merged, SavedOver
      <3>2. QED
        BY <1>3, <3>1 DEF Gone
    <2>3. QED
      BY <2>1, <2>2
  <1>5. CASE q.op = "consent"
    <2>. DEFINE x == [q.base EXCEPT !.tok.pending = TRUE]
    <2>1. q.base \in Row /\ Gone(q.base)
      BY <1>2, <1>3, <1>5
    <2>2. x.tok.refresh = q.base.tok.refresh
      BY <2>1 DEF Row, Tok
    <2>3. row' = x
      BY <1>1, <1>5 DEF Merged
    <2>4. QED
      BY <1>3, <2>1, <2>2, <2>3 DEF Gone
  <1>6. CASE q.op = "disconnect"
    <2>1. [q.seen EXCEPT !.tok = NoTokens].tok = NoTokens
      BY <1>2, <1>6 DEF Row
    <2>2. QED
      BY <1>1, <1>3, <1>6, <2>1 DEF Merged, Gone
  <1>7. QED
    BY <1>2, <1>4, <1>5, <1>6

LEMMA RequestStepsSilent ==
  ASSUME Shapes, Solo, NEW k \in Caller, RequestSteps(k), disconnected', disconnected => Silenced
  PROVE  Silenced'
  <1>. DEFINE q == req[k]
  <1>1. q \in Request /\ RequestOK(q)
    BY RequestShape
  <1>2. CASE Commit(k)
    <2>1. /\ q.at = "committing" /\ call[k] = Sup!Idle
          /\ req' = [req EXCEPT ![k] = AfterCommit(q)]
          /\ UNCHANGED <<poller, job>>
          /\ q.op # "finish" /\ (disconnected \/ q.op = "disconnect")
      BY <1>2 DEF Commit, Proceeds, supervisorVars
    <2>2. AfterCommit(q).seen = NoRow /\ AfterCommit(q).base = NoRow
      BY AfterCommitCopies
    <2>3. Gone(row')
      BY <1>2, <2>1, CommitSilent DEF Silenced
    <2>4. \A j \in Caller \ {k} : req[j] = NoRequest
      BY <2>1, OthersIdle, IdleFields DEF Busy
    <2>5. \A r \in Runtime : Working(r) => poller[r].at = "declining"
      BY <2>1, NobodyWorks DEF Silenced
    <2>6. QED
      BY <2>1, <2>2, <2>3, <2>4, <2>5, IdleFields, RequestSilent DEF Gone
  <1>3. CASE ~Commit(k)
    <2>1. disconnected /\ Silenced
      BY <1>3 DEF RequestSteps, TakeBase, Exchanged, ExchangeFails, CommitFails, RestartBegins,
         history
    <2>2. UNCHANGED <<row, poller, job>>
      BY <1>3 DEF RequestSteps, TakeBase, Exchanged, ExchangeFails, CommitFails, RestartBegins,
         Sup!RestartRuntime, supervisorVars
    <2>3. Gone(q.seen) /\ Gone(q.base) /\ Gone(row)
      BY <2>1 DEF Silenced
    <2>4. PICK p : req' = [req EXCEPT ![k] = p] /\ Gone(p.seen) /\ Gone(p.base)
      <3>1. CASE TakeBase(k)
        <4>. DEFINE p == [q EXCEPT !.at = "committing",
                                   !.base = IF Snapshot THEN q.seen ELSE row]
        <4>1. p.seen = q.seen /\ p.base \in {q.seen, row}
          BY <1>1 DEF Request
        <4>2. req' = [req EXCEPT ![k] = p]
          BY <3>1 DEF TakeBase, Proceeds
        <4>. HIDE DEF p
        <4>3. QED
          BY <2>3, <4>1, <4>2
      <3>2. CASE Exchanged(k)
        <4>1. PICK t : req' = [req EXCEPT ![k] = [q EXCEPT !.at = "committing", !.got = t]]
          BY <3>2 DEF Exchanged, Proceeds
        <4>. DEFINE p == [q EXCEPT !.at = "committing", !.got = t]
        <4>2. p.seen = q.seen /\ p.base = q.base
          BY <1>1 DEF Request
        <4>. HIDE DEF p
        <4>3. QED
          BY <2>3, <4>1, <4>2 DEF p
      <3>3. CASE ExchangeFails(k) \/ CommitFails(k) \/ RestartBegins(k)
        BY <3>3, IdleFields DEF ExchangeFails, CommitFails, RestartBegins, Proceeds, Gone
      <3>4. QED
        BY <1>3, <3>1, <3>2, <3>3 DEF RequestSteps
    <2>5. QED
      BY <2>1, <2>2, <2>3, <2>4, RequestSilent DEF Silenced
  <1>4. QED
    BY <1>2, <1>3

\* A poller that is built without a token declines.
LEMMA BuiltSilent ==
  ASSUME NEW tok \in Tok, tok.refresh = NoToken
  PROVE  BuiltPoller(tok).at = "declining"
  BY BuiltPollerShape DEF Connected

LEMMA NextSilenced ==
  ASSUME Shapes, Solo, ~crossed', [Next]_vars, disconnected', disconnected => Silenced
  PROVE  Silenced'
  <1>1. ASSUME NEW k \in Caller, RequestSteps(k)
        PROVE  Silenced'
    BY <1>1, RequestStepsSilent
  <1>2. ASSUME NEW k \in Caller, RequestBegins(k)
        PROVE  Silenced'
    <2>1. /\ disconnected /\ Silenced /\ UNCHANGED <<row, poller, job>>
      BY <1>2 DEF RequestBegins, SaveBegins, ConsentBegins, FinishBegins, DisconnectBegins,
         Begins, Sup!StopRuntime, supervisorVars
    <2>2. PICK op, at, app : req' = [req EXCEPT ![k] = Begun(op, at, row, app)]
      BY <1>2 DEF RequestBegins, SaveBegins, ConsentBegins, FinishBegins, DisconnectBegins,
         Begins, Begun
    <2>3. /\ Begun(op, at, row, app).seen = row
          /\ Begun(op, at, row, app).base = NoRow
      BY BegunCopies
    <2>4. QED
      BY <2>1, <2>2, <2>3, RequestSilent DEF Silenced, Gone
  <1>3. ASSUME NEW k \in Caller, SupervisorSteps(k)
        PROVE  Silenced'
    <2>1. disconnected /\ Silenced /\ UNCHANGED <<row, req>>
      BY <1>3 DEF SupervisorSteps, history
    <2>2. CASE UNCHANGED <<poller, job>>
      BY <2>1, <2>2 DEF Silenced, Working
    <2>3. CASE Sup!StartOne(k) /\ Builds
      <3>. DEFINE v == call[k].seen
                  j == [config |-> Fcon, value |-> v]
      <3>1. PICK r \in Runtime :
               /\ v \in Row /\ v.tok \in Tok
               /\ job' = [job EXCEPT ![r] = j]
               /\ poller' = [poller EXCEPT ![r] = BuiltPoller(v.tok)]
        BY <2>3, StartOneStarts
      <3>2. v = row
        BY <2>3 DEF Solo, CallerOK, Sup!StartOne
      <3>3. BuiltPoller(v.tok).at = "declining"
        BY <2>1, <3>1, <3>2, BuiltSilent, FordConnectAssumption DEF Silenced, Gone
      <3>4. \A s \in Runtime \ {r} : job'[s] = job[s] /\ poller'[s] = poller[s]
        BY <3>1 DEF Shapes, SupTypes, TypeOK
      <3>5. poller'[r] = BuiltPoller(v.tok)
        BY <3>1 DEF Shapes, TypeOK
      <3>. HIDE DEF v
      <3>6. \A s \in Runtime : Working(s)' => poller'[s].at = "declining"
        BY <2>1, <3>3, <3>4, <3>5 DEF Silenced, Working
      <3>7. QED
        BY <2>1, <3>6 DEF Silenced, Gone
    <2>4. QED
      BY <1>3, <2>2, <2>3 DEF SupervisorSteps, Sup!SignalStop, Sup!Joined, Sup!LoadRow,
         Sup!SweepNext
  <1>4. CASE StartAll
    <2>. DEFINE j == [config |-> Fcon, value |-> row]
    <2>1. disconnected /\ Silenced /\ UNCHANGED <<row, req>>
      BY <1>4 DEF StartAll, history
    <2>2. PICK S \in SUBSET Runtime :
             /\ S # {} => row \in Row
             /\ \A r \in Runtime : job'[r] = IF r \in S THEN j ELSE NoJob
             /\ poller' = [r \in Runtime |->
                   IF r \in S THEN BuiltPoller(row.tok) ELSE poller[r]]
      BY <1>4, StartAllStarts
    <2>3. S # {} => BuiltPoller(row.tok).at = "declining"
      <3>1. row \in Row => row.tok \in Tok /\ row # NoRow
        BY FordConnectAssumption DEF Row
      <3>2. QED
        BY <2>1, <2>2, <3>1, BuiltSilent DEF Silenced, Gone
    <2>4. \A r \in Runtime : Working(r)' => poller'[r].at = "declining"
      BY <2>2, <2>3 DEF Working
    <2>5. QED
      BY <2>1, <2>4 DEF Silenced, Gone
  <1>5. CASE ProcessEnds
    <2>1. /\ disconnected /\ Silenced /\ UNCHANGED row
          /\ \A k \in Caller : req'[k] = NoRequest
          /\ \A r \in Runtime : ~Working(r)'
      BY <1>5 DEF ProcessEnds, Sup!ProcessEnds, history, Working
    <2>2. QED
      BY <2>1, IdleFields DEF Silenced, Gone
  <1>6. ASSUME NEW r \in Runtime, PollerSteps(r) \/ Unwinds(r)
        PROVE  Silenced'
    <2>1. /\ disconnected /\ Silenced /\ UNCHANGED req /\ Working(r)
          /\ \A s \in Runtime : Working(s)' => Working(s)
          /\ \A s \in Runtime \ {r} : poller'[s] = poller[s]
      BY <1>6, PollerEffects
    <2>2. poller[r].at = "declining"
      BY <2>1 DEF Silenced
    <2>3. Declines(r) \/ Unwinds(r)
      BY <1>6, <2>2 DEF PollerSteps, UseAccess, RefreshBegins, RefreshGranted, RefreshRejected,
         RefreshFails, PersistRead, PersistCommit, PersistFails, GetAnswers, Runs
    <2>4. UNCHANGED row /\ ~Working(r)'
      BY <2>3 DEF Declines, Unwinds, Sup!EndTask, Shapes, SupTypes, Working
    <2>5. QED
      BY <2>1, <2>4 DEF Silenced, Gone
  <1>7. ASSUME NEW k \in Caller, StopAll(k)
        PROVE  Silenced'
    <2>1. disconnected /\ Silenced /\ UNCHANGED <<row, req, poller, job>>
      BY <1>7 DEF StopAll, Sup!StopAll, history
    <2>2. QED
      BY <2>1 DEF Silenced, Working, Gone
  <1>8. CASE UNCHANGED vars \/ \E t \in Token : Revoke(t)
    <2>1. disconnected /\ Silenced /\ UNCHANGED <<row, req, poller, job>>
      BY <1>8 DEF Revoke, vars, history, supervisorVars
    <2>2. QED
      BY <2>1 DEF Silenced, Working, Gone
  <1>9. QED
    BY <1>1, <1>2, <1>3, <1>4, <1>5, <1>6, <1>7, <1>8 DEF Next, Crash, Exit

(***************************************************************************)
(* After a disconnect no token comes back until the user connects again,   *)
(* on either database, as long as requests do not overlap: disconnect      *)
(* waits for the poller before it clears the row.                          *)
(***************************************************************************)
THEOREM DisconnectsStick == Spec => []DisconnectSticks
  <1>1. Init => DisconnectInv
    BY DEF Init, DisconnectInv
  <1>2. Shapes /\ SoloInv /\ DisconnectInv /\ [Next]_vars => DisconnectInv'
    <2>. SUFFICES ASSUME Shapes, SoloInv, DisconnectInv, [Next]_vars, ~crossed', disconnected'
                  PROVE  Silenced'
      BY DEF DisconnectInv
    <2>1. Solo /\ (disconnected => Silenced)
      BY CrossedStays DEF SoloInv, DisconnectInv
    <2>2. QED
      BY <2>1, NextSilenced
  <1>3. DisconnectInv => DisconnectSticks
    BY DEF DisconnectInv, Silenced, Gone, DisconnectSticks
  <1>4. QED
    BY <1>1, <1>2, <1>3, ShapesHold, SoloHolds, PTL DEF Spec

-----------------------------------------------------------------------------
(***************************************************************************)
(* A rotated token reaches the row (SQLite).  Every refresh token in use   *)
(* has been issued, and has not been rotated away unless its successor was *)
(* lost; the one an exchange has just brought is known to its request      *)
(* only.                                                                   *)
(***************************************************************************)
Issued(t) == t # NoToken => issuer[t] # NoApp

Stale(t) == t \in rotated \ lost

\* Known to its request only, so far.
FreshlyGot(t) ==
    t # NoToken => /\ issuer[t] # NoApp /\ t \notin rotated
                   /\ \A r \in Runtime : Working(r) => poller[r].tok.refresh # t

OnItsWay ==
    row # NoRow /\ Stale(row.tok.refresh)
    => \E r \in Runtime : Working(r) /\ poller[r].at \in {"reading", "writing"}

TokensTracked ==
    /\ \A t \in rotated : issuer[t] # NoApp
    /\ row # NoRow => Issued(row.tok.refresh)
    /\ \A r \in Runtime :
          Working(r) => Issued(poller[r].tok.refresh) /\ ~Stale(poller[r].tok.refresh)
    /\ \A k \in Caller : FreshlyGot(req[k].got)
    /\ OnItsWay

RotationInv == crossed \/ TokensTracked

\* The one poller takes a step.
LEMMA PollerTracks ==
  ASSUME Shapes, Solo, TokensTracked, NEW r \in Runtime, Working(r),
         \A s \in Runtime \ {r} : job'[s] = job[s],
         UNCHANGED req,
         \A t \in Token : issuer[t] # NoApp => issuer'[t] # NoApp,
         rotated' \subseteq rotated \cup {poller[r].tok.refresh}, rotated' \subseteq Token,
         Working(r)' => \/ poller'[r].tok.refresh = poller[r].tok.refresh
                        \/ /\ poller'[r].tok.refresh \in Unissued
                           /\ issuer'[poller'[r].tok.refresh] # NoApp,
         Working(r)' => ~Stale(poller[r].tok.refresh)',
         UNCHANGED row \/ row'.tok.refresh = poller[r].tok.refresh,
         row' # NoRow /\ Stale(row.tok.refresh)'
            => Working(r)' /\ poller'[r].at \in {"reading", "writing"}
  PROVE  TokensTracked'
  <1>. DEFINE old == poller[r].tok.refresh
              new == poller'[r].tok.refresh
  <1>1. /\ old \in Token \cup {NoToken} /\ NoToken \notin Token
        /\ row # NoRow => row.tok.refresh \in Token \cup {NoToken}
        /\ rotated \subseteq Token
    <2>1. row # NoRow => row.tok.refresh \in Token \cup {NoToken}
      BY DEF Shapes, TypeOK, Row, Tok
    <2>2. old \in Token \cup {NoToken}
      BY PollerShape DEF Tok
    <2>3. QED
      BY <2>1, <2>2, FordConnectAssumption DEF Shapes, TypeOK
  <1>2. Issued(old) /\ ~Stale(old)
    BY DEF TokensTracked
  <1>3. \A s \in Runtime \ {r} : ~Working(s)'
    BY DEF Solo, OneTask, Working
  <1>4. \A t \in rotated' : issuer'[t] # NoApp
    <2>1. \A t \in rotated' : issuer[t] # NoApp
      BY <1>1, <1>2 DEF TokensTracked, Issued
    <2>2. QED
      BY <2>1
  <1>5. row' # NoRow => Issued(row.tok.refresh)'
    <2>1. CASE UNCHANGED row
      BY <1>1, <2>1 DEF TokensTracked, Issued
    <2>2. CASE row'.tok.refresh = old
      BY <1>1, <1>2, <2>2 DEF Issued
    <2>3. QED
      BY <2>1, <2>2
  <1>6. Working(r)' => Issued(poller[r].tok.refresh)'
    BY <1>1, <1>2 DEF Issued
  <1>7. ASSUME NEW k \in Caller, req[k].got # NoToken
        PROVE  /\ issuer'[req[k].got] # NoApp /\ req[k].got \notin rotated'
               /\ Working(r)' => new # req[k].got
    <2>1. /\ req[k].got \in Token /\ issuer[req[k].got] # NoApp
          /\ req[k].got \notin rotated /\ old # req[k].got
      BY <1>7, RequestShape DEF TokensTracked, FreshlyGot, Request
    <2>2. QED
      BY <2>1 DEF Unissued
  <1>8. \A k \in Caller : FreshlyGot(req[k].got)'
    BY <1>3, <1>7 DEF FreshlyGot
  <1>9. OnItsWay'
    BY DEF OnItsWay
  <1>10. QED
    BY <1>3, <1>4, <1>5, <1>6, <1>8, <1>9 DEF TokensTracked

\* A request takes a step; the pollers do not.
LEMMA RequestTracks ==
  ASSUME Shapes, TokensTracked, NEW k \in Caller, NEW q, req' = [req EXCEPT ![k] = q],
         UNCHANGED <<poller, job, rotated, lost>>,
         \A t \in Token : issuer[t] # NoApp => issuer'[t] # NoApp,
         \/ q.got \in {NoToken, req[k].got}
         \/ q.got \in Unissued /\ issuer'[q.got] # NoApp,
         \/ UNCHANGED row
         \/ row'.tok.refresh \in {NoToken, req[k].got}
         \/ row # NoRow /\ row'.tok.refresh = row.tok.refresh
  PROVE  TokensTracked'
  <1>1. /\ NoToken \notin Token /\ rotated \subseteq Token
        /\ row # NoRow => row.tok.refresh \in Token \cup {NoToken}
        /\ \A r \in Runtime : poller[r].tok.refresh \in Token \cup {NoToken}
        /\ \A j \in Caller : req[j].got \in Token \cup {NoToken}
    <2>1. row # NoRow => row.tok.refresh \in Token \cup {NoToken}
      BY DEF Shapes, TypeOK, Row, Tok
    <2>2. \A r \in Runtime : poller[r].tok.refresh \in Token \cup {NoToken}
      BY PollerShape DEF Tok
    <2>3. \A j \in Caller : req[j].got \in Token \cup {NoToken}
      BY RequestShape DEF Request
    <2>4. QED
      BY <2>1, <2>2, <2>3, FordConnectAssumption DEF Shapes, TypeOK
  <1>2. \A t \in rotated' : issuer'[t] # NoApp
    BY <1>1 DEF TokensTracked
  <1>3. \A r \in Runtime :
           Working(r)' => Issued(poller[r].tok.refresh)' /\ ~Stale(poller[r].tok.refresh)'
    BY <1>1 DEF TokensTracked, Issued, Stale, Working
  <1>. DEFINE StillFresh(t) ==
                 t # NoToken => /\ issuer'[t] # NoApp /\ t \notin rotated'
                                /\ \A r \in Runtime : Working(r)' => poller'[r].tok.refresh # t
  <1>4. \A j \in Caller : StillFresh(req[j].got)
    BY <1>1 DEF TokensTracked, FreshlyGot, Working
  <1>5. StillFresh(q.got)
    <2>1. CASE q.got \in {NoToken, req[k].got}
      BY <1>4, <2>1
    <2>2. CASE q.got \in Unissued /\ issuer'[q.got] # NoApp
      BY <1>1, <2>2 DEF TokensTracked, Issued, Unissued, Working
    <2>3. QED
      BY <2>1, <2>2
  <1>6. \A j \in Caller : FreshlyGot(req[j].got)'
    <2>1. \A j \in Caller : req'[j] = IF j = k THEN q ELSE req[j]
      BY DEF Shapes, TypeOK
    <2>. HIDE DEF StillFresh
    <2>2. \A j \in Caller : StillFresh(req'[j].got)
      BY <1>4, <1>5, <2>1
    <2>3. QED
      BY <2>2 DEF FreshlyGot, StillFresh
  <1>7. /\ row' # NoRow => Issued(row.tok.refresh)'
        /\ OnItsWay'
    <2>1. CASE UNCHANGED row
      BY <1>1, <2>1 DEF TokensTracked, Issued, OnItsWay, Stale, Working
    <2>2. CASE row'.tok.refresh \in {NoToken, req[k].got}
      <3>1. row'.tok.refresh # NoToken
            => issuer[req[k].got] # NoApp /\ req[k].got \notin rotated /\ req[k].got \in Token
        BY <1>1, <2>2 DEF TokensTracked, FreshlyGot
      <3>2. QED
        BY <1>1, <2>2, <3>1 DEF Issued, OnItsWay, Stale
    <2>3. CASE row # NoRow /\ row'.tok.refresh = row.tok.refresh
      BY <1>1, <2>3 DEF TokensTracked, Issued, OnItsWay, Stale, Working
    <2>4. QED
      BY <2>1, <2>2, <2>3
  <1>8. QED
    BY <1>2, <1>3, <1>6, <1>7 DEF TokensTracked

\* While another place in the loop is taken, the row is not waiting for it.
LEMMA NothingOnItsWay ==
  ASSUME Solo, TokensTracked, NEW r \in Runtime, Working(r),
         poller[r].at \notin {"reading", "writing"}, row # NoRow
  PROVE  ~Stale(row.tok.refresh)
  BY DEF Solo, OneTask, TokensTracked, OnItsWay

\* The record a step leaves in a poller's place.
LEMMA PollerIs ==
  ASSUME Shapes, NEW r \in Runtime, NEW p, poller' = [poller EXCEPT ![r] = p]
  PROVE  poller'[r] = p
  BY DEF Shapes, TypeOK

\* The task ends, and the successor of the stored token is lost with it.
LEMMA EndTracks ==
  ASSUME Shapes, Shapes', Solo, TokensTracked, NEW r \in Runtime, Sup!EndTask(r),
         UNCHANGED <<row, req, issuer>>,
         \/ LosesStored /\ UNCHANGED rotated
         \/ poller[r].at \notin {"reading", "writing"} /\ UNCHANGED <<rotated, lost>>
         \/ poller[r].at = "refreshing" /\ RotatesUnheard(r)
  PROVE  TokensTracked'
  <1>1. /\ Working(r) /\ ~Working(r)'
        /\ \A s \in Runtime \ {r} : job'[s] = job[s]
    BY DEF Sup!EndTask, Sup!Live, Shapes, SupTypes, Working
  <1>2. /\ rotated' \subseteq rotated \cup {poller[r].tok.refresh}
        /\ rotated' \subseteq Token
    BY DEF LosesStored, RotatesUnheard, Shapes, TypeOK
  <1>3. row # NoRow => ~(row.tok.refresh \in rotated' \ lost')
    <2>1. CASE LosesStored /\ UNCHANGED rotated
      BY <2>1 DEF LosesStored
    <2>2. CASE poller[r].at \notin {"reading", "writing"} /\ UNCHANGED <<rotated, lost>>
      BY <1>1, <2>2, NothingOnItsWay DEF Stale
    <2>3. CASE poller[r].at = "refreshing" /\ RotatesUnheard(r)
      BY <1>1, <2>3, NothingOnItsWay DEF Stale, RotatesUnheard
    <2>4. QED
      BY <2>1, <2>2, <2>3
  <1>4. QED
    BY <1>1, <1>2, <1>3, PollerTracks DEF Stale

\* The task goes on with the token it had, and no token has been rotated, or
\* one with its successor lost.
LEMMA MovesTrack ==
  ASSUME Shapes, Shapes', Solo, TokensTracked, NEW r \in Runtime, Working(r),
         UNCHANGED <<job, row, req, issuer>>,
         poller'[r].tok.refresh = poller[r].tok.refresh,
         \/ UNCHANGED <<rotated, lost>>
         \/ RotatesUnheard(r),
         \/ poller[r].at \notin {"reading", "writing"}
         \/ poller'[r].at \in {"reading", "writing"}
  PROVE  TokensTracked'
  <1>1. /\ rotated' \subseteq rotated \cup {poller[r].tok.refresh}
        /\ rotated' \subseteq Token
    BY DEF RotatesUnheard, Shapes, TypeOK
  <1>2. ~(poller'[r].tok.refresh \in rotated' \ lost')
    BY DEF TokensTracked, RotatesUnheard, Stale
  <1>3. row # NoRow /\ row.tok.refresh \in rotated' \ lost'
        => poller'[r].at \in {"reading", "writing"}
    BY NothingOnItsWay DEF RotatesUnheard, Stale
  <1>4. QED
    BY <1>1, <1>2, <1>3, PollerTracks DEF Stale, Working

LEMMA PollerStepsTracked ==
  ASSUME Shapes, Shapes', Solo, TokensTracked, NEW r \in Runtime, PollerSteps(r) \/ Unwinds(r)
  PROVE  TokensTracked'
  <1>. DEFINE p == poller[r]
              old == p.tok.refresh
  <1>1. /\ p \in [at : PollerAt, tok : Tok, base : Row \cup {NoRow}] /\ PollerOK(p)
        /\ Working(r) /\ UNCHANGED req
        /\ rotated' \subseteq Token
        /\ job[r].value \in Row
    BY PollerShape, PollerEffects DEF Shapes, TypeOK, Working
  <1>2. ASSUME NEW at, Moves(r, at), at \in PollerAt
        PROVE  poller'[r].tok.refresh = old /\ poller'[r].at = at
    <2>1. poller' = [poller EXCEPT ![r] = [p EXCEPT !.at = at]]
      BY <1>2 DEF Moves
    <2>2. [p EXCEPT !.at = at].tok = p.tok /\ [p EXCEPT !.at = at].at = at
      BY <1>1
    <2>3. QED
      BY <2>1, <2>2, PollerIs
  <1>3. CASE UseAccess(r) \/ RefreshBegins(r) \/ GetAnswers(r)
    <2>1. /\ UNCHANGED <<job, row, req, issuer, rotated, lost>>
          /\ p.at \in {"asking", "spent", "getting"}
          /\ \E at \in PollerAt : Moves(r, at)
      BY <1>3 DEF UseAccess, RefreshBegins, GetAnswers, Runs, supervisorVars, ford, PollerAt
    <2>2. QED
      BY <1>1, <1>2, <2>1, MovesTrack
  <1>4. CASE RefreshFails(r)
    <2>1. /\ UNCHANGED <<job, row, req, issuer>>
          /\ p.at = "refreshing"
          /\ Moves(r, "spent") /\ "spent" \in PollerAt
          /\ UNCHANGED <<rotated, lost>> \/ RotatesUnheard(r)
      BY <1>4 DEF RefreshFails, Runs, supervisorVars, PollerAt
    <2>2. QED
      BY <1>1, <1>2, <2>1, MovesTrack
  <1>5. CASE RefreshRejected(r)
    <2>. DEFINE q == [p EXCEPT !.at = "reading", !.tok.needs = TRUE]
    <2>1. p.tok \in Tok
      BY <1>1
    <2>2. q.tok = [p.tok EXCEPT !.needs = TRUE] /\ q.at = "reading"
      BY <1>1
    <2>3. q.tok.refresh = old
      BY <2>1, <2>2 DEF Tok
    <2>4. poller' = [poller EXCEPT ![r] = q] /\ UNCHANGED <<job, row, req, issuer, rotated, lost>>
      BY <1>5 DEF RefreshRejected, supervisorVars
    <2>. HIDE DEF q
    <2>5. QED
      BY <1>1, <2>2, <2>3, <2>4, PollerIs, MovesTrack
  <1>6. CASE PersistRead(r)
    <2>. DEFINE q == [p EXCEPT !.at = "writing", !.base = row]
    <2>1. q.tok = p.tok /\ q.at = "writing"
      BY <1>1
    <2>2. poller' = [poller EXCEPT ![r] = q] /\ UNCHANGED <<job, row, req, issuer, rotated, lost>>
      BY <1>6 DEF PersistRead, supervisorVars, ford
    <2>. HIDE DEF q
    <2>3. QED
      BY <1>1, <2>1, <2>2, PollerIs, MovesTrack
  <1>7. CASE Declines(r) \/ PersistFails(r) \/ Unwinds(r)
    <2>1. /\ Sup!EndTask(r) /\ UNCHANGED <<row, req, issuer>>
          /\ \/ LosesStored /\ UNCHANGED rotated
             \/ p.at \notin {"reading", "writing"} /\ UNCHANGED <<rotated, lost>>
             \/ p.at = "refreshing" /\ RotatesUnheard(r)
      BY <1>7 DEF Declines, PersistFails, Unwinds, Runs, ford
    <2>2. QED
      BY <2>1, EndTracks
  <1>8. CASE PersistCommit(r)
    <2>. DEFINE q == [p EXCEPT !.at = IF p.tok.needs THEN "declining" ELSE "getting",
                               !.base = NoRow]
    <2>1. p.at = "writing" /\ poller' = [poller EXCEPT ![r] = q]
          /\ UNCHANGED <<job, req, issuer, rotated, lost>> /\ row' = Persisted(p)
      BY <1>8 DEF PersistCommit, supervisorVars, ford
    <2>2. q.tok = p.tok
      BY <1>1
    <2>3. p.base \in Row
      BY <1>1, <2>1 DEF PollerOK
    <2>4. Persisted(p).tok = p.tok
      BY <2>3 DEF Persisted, Row
    <2>5. ~(old \in rotated \ lost)
      BY <1>1 DEF TokensTracked, Stale
    <2>. HIDE DEF q
    <2>6. poller'[r].tok.refresh = old /\ row'.tok.refresh = old
      BY <2>1, <2>2, <2>4, PollerIs
    <2>7. QED
      BY <1>1, <2>1, <2>5, <2>6, PollerTracks DEF Stale, Working
  <1>9. CASE RefreshGranted(r)
    <2>. DEFINE q(t) == [at |-> "reading", tok |-> WithToken(t), base |-> NoRow]
    <2>1. /\ UNCHANGED <<job, row, req, lost>> /\ p.at = "refreshing"
      BY <1>9 DEF RefreshGranted, Runs, supervisorVars
    <2>2. /\ \A t : q(t).tok.refresh = t /\ q(t).at = "reading"
          /\ job[r].value.app # NoApp
      BY <1>1, FordConnectAssumption DEF WithToken, Row
    <2>3. CASE poller' = [poller EXCEPT ![r] = q(old)] /\ UNCHANGED <<issuer, rotated>>
      <3>. HIDE DEF q
      <3>1. poller'[r].tok.refresh = old /\ poller'[r].at = "reading"
        BY <2>2, <2>3, PollerIs
      <3>2. QED
        BY <1>1, <2>1, <2>3, <3>1, MovesTrack
    <2>4. ASSUME NEW t \in Unissued,
                 poller' = [poller EXCEPT ![r] = q(t)],
                 issuer' = [issuer EXCEPT ![t] = job[r].value.app],
                 rotated' = rotated \cup {old}
          PROVE  TokensTracked'
      <3>. HIDE DEF q
      <3>1. poller'[r].tok.refresh = t /\ poller'[r].at = "reading"
        BY <2>2, <2>4, PollerIs
      <3>2. /\ \A u \in Token : issuer[u] # NoApp => issuer'[u] # NoApp
            /\ issuer'[t] # NoApp
        BY <2>2, <2>4 DEF Unissued, Shapes, TypeOK
      <3>3. t \notin rotated'
        <4>1. t \notin rotated /\ t # NoToken /\ issuer[t] = NoApp
          BY FordConnectAssumption DEF Unissued, TokensTracked
        <4>2. old # t
          BY <1>1, <4>1 DEF TokensTracked, Issued
        <4>3. QED
          BY <2>4, <4>1, <4>2
      <3>4. QED
        BY <1>1, <2>1, <2>4, <3>1, <3>2, <3>3, PollerTracks DEF Stale, Working
    <2>5. QED
      BY <1>9, <2>3, <2>4 DEF RefreshGranted
  <1>10. QED
    BY <1>3, <1>4, <1>5, <1>6, <1>7, <1>8, <1>9 DEF PollerSteps

\* On SQLite a commit that goes through keeps the stored token, or writes none,
\* or the one its request has just got.
LEMMA CommitWritesToken ==
  ASSUME Snapshot, Shapes, NEW k \in Caller, Commit(k)
  PROVE  \/ row'.tok.refresh \in {NoToken, req[k].got}
         \/ row # NoRow /\ row'.tok.refresh = row.tok.refresh
  <1>. DEFINE q == req[k]
  <1>1. /\ q \in Request /\ RequestOK(q) /\ q.at = "committing"
        /\ row = BaseOf(q) /\ row' = Merged(q)
    BY RequestShape DEF Commit, MayCommit
  <1>2. /\ q.op \in {"save", "consent", "finish", "disconnect"}
        /\ q.op \in {"consent", "finish", "disconnect"} => q.seen \in Row
        /\ q.op \in {"save", "consent"} /\ q.seen # NoRow => q.base \in Row
    BY <1>1 DEF Request, RequestOK
  <1>3. NoRow \notin Row /\ NoTokens.refresh = NoToken /\ WithToken(q.got).refresh = q.got
    BY FordConnectAssumption DEF NoTokens, WithToken
  <1>4. CASE q.op = "save"
    <2>1. CASE q.seen # NoRow /\ q.seen.app = q.app
      <3>1. [q.base EXCEPT !.app = q.app].tok = q.base.tok
        BY <1>2, <1>4, <2>1 DEF Row
      <3>2. row = q.base /\ q.base \in Row /\ row' = [q.base EXCEPT !.app = q.app]
        BY <1>1, <1>2, <1>4, <2>1 DEF Merged, SavedOver, BaseOf
      <3>3. QED
        BY <1>3, <3>1, <3>2
    <2>2. CASE ~(q.seen # NoRow /\ q.seen.app = q.app)
      <3>1. row' = [app |-> q.app, tok |-> NoTokens]
        BY <1>1, <1>4, <2>2 DEF Merged, SavedOver
      <3>2. QED
        BY <1>3, <3>1
    <2>3. QED
      BY <2>1, <2>2
  <1>5. CASE q.op = "consent"
    <2>. DEFINE x == [q.base EXCEPT !.tok.pending = TRUE]
    <2>1. q.base \in Row /\ row = q.base
      BY <1>1, <1>2, <1>3, <1>5 DEF BaseOf
    <2>2. x.tok.refresh = q.base.tok.refresh
      BY <2>1 DEF Row, Tok
    <2>3. row' = x
      BY <1>1, <1>5 DEF Merged
    <2>4. QED
      BY <1>3, <2>1, <2>2, <2>3
  <1>6. CASE q.op = "finish"
    <2>1. [q.seen EXCEPT !.tok = WithToken(q.got)].tok = WithToken(q.got)
      BY <1>2, <1>6 DEF Row
    <2>2. QED
      BY <1>1, <1>3, <1>6, <2>1 DEF Merged
  <1>7. CASE q.op = "disconnect"
    <2>1. [q.seen EXCEPT !.tok = NoTokens].tok = NoTokens
      BY <1>2, <1>7 DEF Row
    <2>2. QED
      BY <1>1, <1>3, <1>7, <2>1 DEF Merged
  <1>8. QED
    BY <1>2, <1>4, <1>5, <1>6, <1>7

LEMMA RequestStepsTracked ==
  ASSUME Snapshot, Shapes, TokensTracked, NEW k \in Caller, RequestSteps(k) \/ RequestBegins(k)
  PROVE  TokensTracked'
  <1>. DEFINE q == req[k]
  <1>1. q \in Request /\ RequestOK(q)
    BY RequestShape
  <1>2. CASE RequestBegins(k)
    <2>1. PICK op, at, app : req' = [req EXCEPT ![k] = Begun(op, at, row, app)]
      BY <1>2 DEF RequestBegins, SaveBegins, ConsentBegins, FinishBegins, DisconnectBegins,
         Begins, Begun
    <2>2. UNCHANGED <<poller, job, rotated, lost, issuer, row>>
      BY <1>2 DEF RequestBegins, SaveBegins, ConsentBegins, FinishBegins, DisconnectBegins,
         Begins, Sup!StopRuntime, supervisorVars, ford
    <2>3. Begun(op, at, row, app).got = NoToken
      BY IdleFields DEF Begun, Request
    <2>4. QED
      BY <2>1, <2>2, <2>3, RequestTracks
  <1>3. CASE TakeBase(k)
    <2>. DEFINE p == [q EXCEPT !.at = "committing", !.base = IF Snapshot THEN q.seen ELSE row]
    <2>1. p.got = q.got
      BY <1>1 DEF Request
    <2>2. /\ req' = [req EXCEPT ![k] = p]
          /\ UNCHANGED <<poller, job, rotated, lost, issuer, row>>
      BY <1>3 DEF TakeBase, Proceeds, supervisorVars, ford
    <2>. HIDE DEF p
    <2>3. QED
      BY <2>1, <2>2, RequestTracks
  <1>4. CASE Exchanged(k)
    <2>1. PICK t \in Unissued :
             /\ issuer' = [issuer EXCEPT ![t] = q.seen.app]
             /\ req' = [req EXCEPT ![k] = [q EXCEPT !.at = "committing", !.got = t]]
      BY <1>4 DEF Exchanged, Proceeds
    <2>. DEFINE p == [q EXCEPT !.at = "committing", !.got = t]
    <2>2. p.got = t
      BY <1>1 DEF Request
    <2>3. q.seen.app # NoApp
      BY <1>1, <1>4, FordConnectAssumption DEF Exchanged, RequestOK, Row
    <2>4. /\ \A u \in Token : issuer[u] # NoApp => issuer'[u] # NoApp
          /\ issuer'[t] # NoApp
      BY <2>1, <2>3 DEF Unissued, Shapes, TypeOK
    <2>5. UNCHANGED <<poller, job, rotated, lost, row>>
      BY <1>4 DEF Exchanged, supervisorVars
    <2>6. req' = [req EXCEPT ![k] = p]
      BY <2>1
    <2>. HIDE DEF p
    <2>7. QED
      BY <2>2, <2>4, <2>5, <2>6, RequestTracks
  <1>5. CASE ExchangeFails(k) \/ CommitFails(k) \/ RestartBegins(k)
    <2>1. /\ req' = [req EXCEPT ![k] = NoRequest]
          /\ UNCHANGED <<poller, job, rotated, lost, issuer, row>>
      BY <1>5 DEF ExchangeFails, CommitFails, RestartBegins, Proceeds, Sup!RestartRuntime,
         supervisorVars, ford
    <2>2. QED
      BY <2>1, IdleFields, RequestTracks
  <1>6. CASE Commit(k)
    <2>1. /\ req' = [req EXCEPT ![k] = AfterCommit(q)]
          /\ UNCHANGED <<poller, job, rotated, lost, issuer>>
      BY <1>6 DEF Commit, Proceeds, supervisorVars, ford
    <2>2. AfterCommit(q).got = NoToken
      BY IdleFields DEF AfterCommit, Request
    <2>3. QED
      BY <1>6, <2>1, <2>2, CommitWritesToken, RequestTracks
  <1>7. QED
    BY <1>2, <1>3, <1>4, <1>5, <1>6 DEF RequestSteps

\* A poller is built while none works and no request holds a token: it gets
\* the stored one, which has not been rotated away.
LEMMA BuildTracks ==
  ASSUME Shapes, TokensTracked, \A r \in Runtime : ~Working(r),
         UNCHANGED <<row, issuer, rotated, lost>>,
         \A k \in Caller : req'[k] = NoRequest,
         \A r \in Runtime : Working(r)' => row \in Row /\ poller'[r] = BuiltPoller(row.tok)
  PROVE  TokensTracked'
  <1>1. row \in Row => row # NoRow /\ BuiltPoller(row.tok).tok = row.tok
    BY BuiltPollerShape, FordConnectAssumption DEF Row
  <1>2. row # NoRow => ~Stale(row.tok.refresh)
    BY DEF TokensTracked, OnItsWay
  <1>3. \A k \in Caller : FreshlyGot(req[k].got)'
    BY IdleFields DEF FreshlyGot
  <1>4. OnItsWay'
    BY <1>2 DEF OnItsWay, Stale
  <1>5. \A r \in Runtime :
           Working(r)' => Issued(poller[r].tok.refresh)' /\ ~Stale(poller[r].tok.refresh)'
    BY <1>1, <1>2 DEF TokensTracked, Issued, Stale
  <1>6. QED
    BY <1>3, <1>4, <1>5 DEF TokensTracked, Issued

LEMMA NextTracked ==
  ASSUME Snapshot, Shapes, Shapes', Solo, TokensTracked, [Next]_vars
  PROVE  TokensTracked'
  <1>1. ASSUME UNCHANGED <<row, req, poller, job, issuer, rotated, lost>>
        PROVE  TokensTracked'
    BY <1>1 DEF TokensTracked, OnItsWay, FreshlyGot, Issued, Stale, Working
  <1>2. ASSUME NEW k \in Caller, SupervisorSteps(k)
        PROVE  TokensTracked'
    <2>1. UNCHANGED <<row, req, issuer, rotated, lost>>
      BY <1>2 DEF SupervisorSteps, ford
    <2>2. CASE Sup!StartOne(k) /\ Builds
      <3>. DEFINE v == call[k].seen
                  j == [config |-> Fcon, value |-> v]
      <3>1. PICK r \in Runtime :
               /\ v \in Row
               /\ job' = [job EXCEPT ![r] = j]
               /\ poller' = [poller EXCEPT ![r] = BuiltPoller(v.tok)]
        BY <2>2, StartOneStarts
      <3>2. /\ call[k].at = "starting" /\ v = row /\ call[k].op = "restart"
            /\ req[k] = NoRequest /\ call[k] # Sup!Idle
        BY <2>2, IdleFields DEF Solo, CallerOK, Sup!StartOne, Shapes, SupTypes, CallOK
      <3>3. \A i \in Caller : req'[i] = NoRequest
        BY <2>1, <3>2, OthersIdle DEF Busy
      <3>4. \A s \in Runtime : ~Working(s)
        BY <3>2, NobodyWorks
      <3>. HIDE DEF v
      <3>5. poller'[r] = BuiltPoller(row.tok)
        BY <3>1, <3>2, PollerIs
      <3>6. \A s \in Runtime \ {r} : ~Working(s)'
        BY <3>1, <3>4 DEF Shapes, SupTypes, Working
      <3>7. QED
        BY <2>1, <3>1, <3>2, <3>3, <3>4, <3>5, <3>6, BuildTracks
    <2>3. CASE UNCHANGED <<poller, job>>
      BY <1>1, <2>1, <2>3
    <2>4. QED
      BY <1>2, <2>2, <2>3 DEF SupervisorSteps, Sup!SignalStop, Sup!Joined, Sup!LoadRow,
         Sup!SweepNext
  <1>3. CASE StartAll
    <2>. DEFINE j == [config |-> Fcon, value |-> row]
    <2>1. PICK S \in SUBSET Runtime :
             /\ S # {} => row \in Row
             /\ \A r \in Runtime : job'[r] = IF r \in S THEN j ELSE NoJob
             /\ \A r \in Runtime : job[r] = NoJob
             /\ poller' = [r \in Runtime |->
                   IF r \in S THEN BuiltPoller(row.tok) ELSE poller[r]]
      BY <1>3, StartAllStarts
    <2>2. /\ UNCHANGED <<row, issuer, rotated, lost>>
          /\ \A k \in Caller : req'[k] = NoRequest
      BY <1>3 DEF StartAll, Sup!StartAll, Shapes, Quiet, ford
    <2>3. \A r \in Runtime : Working(r)' => row \in Row /\ poller'[r] = BuiltPoller(row.tok)
      BY <2>1 DEF Working
    <2>4. QED
      BY <2>1, <2>2, <2>3, BuildTracks DEF Working
  <1>4. CASE ProcessEnds
    <2>1. /\ UNCHANGED <<row, issuer, rotated>>
          /\ \A k \in Caller : req'[k] = NoRequest
          /\ \A r \in Runtime : ~Working(r)'
          /\ row # NoRow => LosesStored
      BY <1>4 DEF ProcessEnds, Sup!ProcessEnds, Working
    <2>2. OnItsWay'
      BY <2>1 DEF OnItsWay, Stale, LosesStored
    <2>3. \A k \in Caller : FreshlyGot(req[k].got)'
      BY <2>1, IdleFields DEF FreshlyGot
    <2>4. QED
      BY <2>1, <2>2, <2>3 DEF TokensTracked, Issued
  <1>5. CASE \/ UNCHANGED vars
             \/ \E t \in Token : Revoke(t)
             \/ \E k \in Caller : StopAll(k)
    BY <1>1, <1>5 DEF Revoke, StopAll, Sup!StopAll, vars, supervisorVars, ford
  <1>6. QED
    BY <1>2, <1>3, <1>4, <1>5, RequestStepsTracked, PollerStepsTracked DEF Next, Crash, Exit

(***************************************************************************)
(* On SQLite, as long as requests do not overlap, the row does not keep a  *)
(* refresh token that Ford has rotated away, unless the new one is still   *)
(* being persisted, or has been lost with a reply or a commit.             *)
(***************************************************************************)
THEOREM RotationsReachTheRow ==
  ASSUME Snapshot
  PROVE  Spec => []RotationReachesRow
  <1>1. Init => RotationInv
    BY IdleFields DEF Init, RotationInv, TokensTracked, OnItsWay, FreshlyGot, Working
  <1>2. Shapes /\ Shapes' /\ SoloInv /\ RotationInv /\ [Next]_vars => RotationInv'
    <2>. SUFFICES ASSUME Shapes, Shapes', SoloInv, RotationInv, [Next]_vars, ~crossed'
                  PROVE  TokensTracked'
      BY DEF RotationInv
    <2>1. Solo /\ TokensTracked
      BY CrossedStays DEF SoloInv, RotationInv
    <2>2. QED
      BY <2>1, NextTracked
  <1>3. RotationInv => RotationReachesRow
    BY DEF RotationInv, TokensTracked, OnItsWay, Stale, Working, RotationReachesRow
  <1>4. QED
    BY <1>1, <1>2, <1>3, ShapesHold, SoloHolds, PTL DEF Spec
=============================================================================
