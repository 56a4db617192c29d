----------------------------- MODULE FordConnect -----------------------------
(***************************************************************************)
(* The FordConnect source: one data_source_configs row holding an app's    *)
(* credentials and the tokens Ford issued to it, the poller that refreshes *)
(* those tokens (fcon_poller.py, tokens.py) and the settings handlers that *)
(* edit the row and restart the poller (routes/fcon.py, consent.py and      *)
(* config_store.py), composed with the supervisor.                         *)
(*                                                                         *)
(* Every writer reads the row, awaits, and commits the whole config_json.  *)
(* Snapshot tells the two databases apart.  On SQLite (WAL, explicit BEGIN)*)
(* a transaction that has read cannot write once another one has committed:*)
(* the commit raises.  On PostgreSQL (READ COMMITTED) it overwrites.       *)
(*                                                                         *)
(* Time is not modelled: an access token may lapse whenever it is looked   *)
(* at.  Ford (external) answers as its HTTP client expects it to.          *)
(***************************************************************************)
EXTENDS Naturals, FiniteSets

CONSTANTS
    Fcon,        \* the primary key of the row
    App,         \* Ford apps: a client id with its secret
    Token,       \* refresh tokens
    Runtime, Caller,
    Snapshot,    \* TRUE: SQLite; FALSE: PostgreSQL
    NoRow, NoApp, NoToken, NoConfig, NoRuntime, NoValue, NoJob

VARIABLES
    up, registry, needsReauth, job, cancelled, call, overlapped, \* Supervisor
    row,          \* the stored row
    edited,       \* history (Supervisor): {Fcon} once the row is committed, until
                  \* a restart
    poller,       \* each runtime's place in its poll loop, and its TokenManager
    req,          \* the settings request each caller is serving
    issuer,       \* Ford: the app each token was issued to
    revoked,      \* Ford: tokens revoked by the user, or past their 90 days
    rotated,      \* Ford: tokens exchanged for a newer one
    refused,      \* history: tokens Ford answered 4xx to
    lost,         \* history: rotated tokens whose successor was lost on the way
    saved,        \* history: the credentials saved last
    disconnected, \* history: the last of disconnect and finish was a disconnect
    crossed       \* history: two settings requests have been served at once

supervisorVars == <<up, registry, needsReauth, job, cancelled, call, overlapped>>
ford == <<issuer, revoked, rotated, refused, lost>>
history == <<saved, disconnected, crossed>>
vars == <<supervisorVars, row, edited, poller, req, ford, history>>

\* The token half of a config (TOKEN_FIELDS): always written as a unit.
Tok == [refresh : Token \cup {NoToken}, needs : BOOLEAN, pending : BOOLEAN]
Row == [app : App, tok : Tok]

ASSUME FordConnectAssumption ==
    /\ NoApp \notin App /\ NoToken \notin Token /\ NoRow \notin Row
    /\ NoConfig # Fcon /\ NoRuntime \notin Runtime
    /\ NoValue \notin Row \cup {NoRow}
    /\ NoJob \notin [config : {Fcon}, value : Row \cup {NoRow}]

NoTokens == [refresh |-> NoToken, needs |-> FALSE, pending |-> FALSE]

Sup == INSTANCE Supervisor
       WITH Config <- {Fcon}, RowValue <- Row \cup {NoRow}, Enabled <- Row,
            Startable <- Row, Unreadable <- {},
            row <- [c \in {Fcon} |-> row]

\* Has tokens that Ford has not refused (FconConfig.connected).
Connected(tok) == tok.refresh # NoToken /\ ~tok.needs

\* A fresh token response over the tokens held (FconConfig.with_token).
WithToken(t) == [refresh |-> t, needs |-> FALSE, pending |-> FALSE]

Honoured(app, t) == issuer[t] = app /\ t \notin revoked \cup rotated

Unissued == {t \in Token : issuer[t] = NoApp}

\* A successor is lost: of the stored token, if that has been rotated.
LosesStored == lost' = lost \cup ({row.tok.refresh} \cap rotated)

\* Faulty variant: a commit that has read an older row goes through.
OverwritesChanges(base) == base = NoRow => row = NoRow

\* Whether a transaction that read base may still commit.  (An insert is kept
\* unique by the index on source_name and instance_label.)
MayCommit(base) ==
    IF Snapshot \/ base = NoRow THEN row = base ELSE TRUE

-----------------------------------------------------------------------------
(***************************************************************************)
(* The poller.  Its places: declining (built without consent), asking (for *)
(* an access token), spent (the access token is gone or has lapsed),       *)
(* refreshing, reading and writing (persist_token_fields), getting.        *)
(***************************************************************************)
PollerAt == {"off", "declined", "declining", "asking", "spent", "refreshing",
             "reading", "writing", "getting"}

NoPoller == [at |-> "off", tok |-> NoTokens, base |-> NoRow]

\* Its task has ended; its health goes on saying needs_consent.
DeclinedPoller == [NoPoller EXCEPT !.at = "declined"]

BuiltPoller(tok) ==
    [at |-> IF Connected(tok) THEN "asking" ELSE "declining",
     tok |-> tok, base |-> NoRow]

\* A task steps until task.cancel(): from then on its await raises.
Runs(r, place) ==
    poller[r].at = place /\ job[r] # NoJob /\ r \notin cancelled

Moves(r, place) == poller' = [poller EXCEPT ![r].at = place]

\* The runtimes of tasks that have just been created get their config.
Builds ==
    poller' = [r \in Runtime |->
                  IF job'[r] # NoJob /\ job[r] = NoJob
                  THEN BuiltPoller(job'[r].value.tok) ELSE poller[r]]

\* start() returns: there is nothing (more) to poll with.
Declines(r) ==
    /\ Runs(r, "declining")
    /\ poller' = [poller EXCEPT ![r] = DeclinedPoller]
    /\ Sup!EndTask(r)
    /\ UNCHANGED <<row, edited, req, ford, history>>

\* access_token: the one held has not lapsed.
UseAccess(r) ==
    /\ Runs(r, "asking")
    /\ Moves(r, "getting")
    /\ UNCHANGED <<supervisorVars, row, edited, req, ford, history>>

RefreshBegins(r) ==
    /\ Runs(r, "asking") \/ Runs(r, "spent")
    /\ Moves(r, "refreshing")
    /\ UNCHANGED <<supervisorVars, row, edited, req, ford, history>>

\* Ford answers with a new access token; it may rotate the refresh token.
RefreshGranted(r) ==
    /\ Runs(r, "refreshing")
    /\ LET old == poller[r].tok.refresh
           app == job[r].value.app
       IN /\ Honoured(app, old)
          /\ \/ /\ poller' = [poller EXCEPT ![r] =
                      [at |-> "reading", tok |-> WithToken(old), base |-> NoRow]]
                /\ UNCHANGED <<issuer, rotated>>
             \/ \E t \in Unissued :
                   /\ poller' = [poller EXCEPT ![r] =
                         [at |-> "reading", tok |-> WithToken(t), base |-> NoRow]]
                   /\ issuer' = [issuer EXCEPT ![t] = app]
                   /\ rotated' = rotated \cup {old}
    /\ UNCHANGED <<supervisorVars, row, edited, req, revoked, refused, lost, history>>

\* Faulty variant: a refusal is retried like any other error.
RefreshRejectedIsRetried(r) ==
    /\ Runs(r, "refreshing")
    /\ ~Honoured(job[r].value.app, poller[r].tok.refresh)
    /\ Moves(r, "spent")
    /\ UNCHANGED <<supervisorVars, row, edited, req, ford, history>>

\* A 4xx: the grant is dead; needs_consent is persisted before it is raised.
RefreshRejected(r) ==
    /\ Runs(r, "refreshing")
    /\ ~Honoured(job[r].value.app, poller[r].tok.refresh)
    /\ poller' = [poller EXCEPT ![r].at = "reading", ![r].tok.needs = TRUE]
    /\ refused' = refused \cup {poller[r].tok.refresh}
    /\ UNCHANGED <<supervisorVars, row, edited, req, issuer, revoked, rotated, lost, history>>

\* Ford rotates the token, and nobody receives its answer.
RotatesUnheard(r) ==
    /\ Honoured(job[r].value.app, poller[r].tok.refresh)
    /\ rotated' = rotated \cup {poller[r].tok.refresh}
    /\ lost' = lost \cup {poller[r].tok.refresh}

\* 429, 5xx, or no reply.  Ford may have rotated the token all the same.
RefreshFails(r) ==
    /\ Runs(r, "refreshing")
    /\ Moves(r, "spent")
    /\ \/ UNCHANGED <<rotated, lost>>
       \/ RotatesUnheard(r)
    /\ UNCHANGED <<supervisorVars, row, edited, req, issuer, revoked, refused, history>>

PersistRead(r) ==
    /\ Runs(r, "reading")
    /\ poller' = [poller EXCEPT ![r].at = "writing", ![r].base = row]
    /\ UNCHANGED <<supervisorVars, row, edited, req, ford, history>>

\* Faulty variant: only the consent flag is written when Ford refuses.
PersistedFlagOnly(p) ==
    IF p.tok.needs THEN [p.base EXCEPT !.tok.needs = TRUE]
    ELSE [p.base EXCEPT !.tok = p.tok]

\* Faulty variant: a rotated refresh token is not written.
PersistedWithoutRotation(p) ==
    [p.base EXCEPT !.tok.needs = p.tok.needs, !.tok.pending = p.tok.pending]

\* What persist_token_fields writes: the token fields over the row it read.
Persisted(p) == [p.base EXCEPT !.tok = p.tok]

\* The database finishes a commit under way even when the task is cancelled.
\* After a refusal access_token raises ConsentRequired, which ends the loop.
PersistCommit(r) ==
    /\ poller[r].at = "writing"
    /\ MayCommit(poller[r].base)
    /\ row' = Persisted(poller[r])
    /\ edited' = {Fcon}
    /\ poller' = [poller EXCEPT
          ![r].at = IF poller[r].tok.needs THEN "declining" ELSE "getting",
          ![r].base = NoRow]
    /\ UNCHANGED <<supervisorVars, req, ford, history>>

\* The commit raises.  Nothing in tick or start catches what is no FordError:
\* the task ends with it.
PersistFails(r) ==
    /\ Runs(r, "writing")
    /\ poller' = [poller EXCEPT ![r] = NoPoller]
    /\ LosesStored
    /\ Sup!EndTask(r)
    /\ UNCHANGED <<row, edited, req, issuer, revoked, rotated, refused, history>>

\* An endpoint has answered: a sample, a 429 or an error goes on to the next
\* token request; AuthExpired invalidates the access token first.
GetAnswers(r) ==
    /\ Runs(r, "getting")
    /\ Moves(r, "asking") \/ Moves(r, "spent")
    /\ UNCHANGED <<supervisorVars, row, edited, req, ford, history>>

\* The cancellation arrives.  Ford may already have acted on the request under
\* way.
Unwinds(r) ==
    /\ r \in cancelled
    /\ \/ poller[r].at = "refreshing" /\ RotatesUnheard(r)
       \/ LosesStored /\ UNCHANGED rotated
    /\ poller' = [poller EXCEPT ![r] = NoPoller]
    /\ Sup!EndTask(r)
    /\ UNCHANGED <<row, edited, req, issuer, revoked, refused, history>>

PollerSteps(r) ==
    \/ Declines(r)
    \/ UseAccess(r)
    \/ RefreshBegins(r)
    \/ RefreshGranted(r)
    \/ RefreshRejected(r)
    \/ RefreshFails(r)
    \/ PersistRead(r)
    \/ PersistCommit(r)
    \/ PersistFails(r)
    \/ GetAnswers(r)

-----------------------------------------------------------------------------
(***************************************************************************)
(* The settings handlers.  A request has seen the row, taken the base its  *)
(* updates are merged over, and commits; saving and finishing then restart *)
(* the runtime.                                                            *)
(***************************************************************************)
NoRequest == [op |-> "none", at |-> "idle", seen |-> NoRow, base |-> NoRow,
              app |-> NoApp, got |-> NoToken]

Request == [op : {"none", "save", "consent", "finish", "disconnect"},
            at : {"idle", "merging", "exchanging", "committing", "restarting"},
            seen : Row \cup {NoRow}, base : Row \cup {NoRow},
            app : App \cup {NoApp}, got : Token \cup {NoToken}]

Busy(k) == req[k] # NoRequest \/ call[k] # Sup!Idle

Begins(k, op, at, app) ==
    /\ Sup!Serving
    /\ ~Busy(k)
    /\ req' = [req EXCEPT ![k] = [NoRequest EXCEPT !.op = op, !.at = at,
                                                   !.seen = row, !.app = app]]
    /\ crossed' = (crossed \/ \E j \in Caller \ {k} : Busy(j))
    /\ UNCHANGED <<row, edited, poller, ford, saved, disconnected>>

\* save_credentials has read what is stored.
SaveBegins(k, app) ==
    Begins(k, "save", "merging", app) /\ UNCHANGED supervisorVars

\* start_consent has read what is stored.
ConsentBegins(k) ==
    row # NoRow /\ Begins(k, "consent", "merging", NoApp) /\ UNCHANGED supervisorVars

\* finish_consent has read the row, and accepts what came back from Ford: a
\* connection is in progress.
FinishBegins(k) ==
    /\ row # NoRow /\ row.tok.pending
    /\ Begins(k, "finish", "exchanging", NoApp)
    /\ UNCHANGED supervisorVars

\* Faulty variant: the runtime goes on while the tokens are cleared.
DisconnectBeginsWithoutStop(k) ==
    /\ row # NoRow
    /\ Begins(k, "disconnect", "committing", NoApp)
    /\ UNCHANGED supervisorVars

\* disconnect has read the row, and stops the runtime before it clears it.
DisconnectBegins(k) ==
    /\ row # NoRow
    /\ Begins(k, "disconnect", "committing", NoApp)
    /\ Sup!StopRuntime(k, Fcon)

Proceeds(k, r) == req' = [req EXCEPT ![k] = r]

\* merge_into_row's own find_row, in the transaction of the first one.
TakeBase(k) ==
    /\ req[k].at = "merging"
    /\ Proceeds(k, [req[k] EXCEPT !.at = "committing",
                                  !.base = IF Snapshot THEN req[k].seen ELSE row])
    /\ UNCHANGED <<supervisorVars, row, edited, poller, ford, history>>

\* exchange_code: Ford issues a token to the app that was read.
Exchanged(k) ==
    /\ req[k].at = "exchanging"
    /\ \E t \in Unissued :
          /\ issuer' = [issuer EXCEPT ![t] = req[k].seen.app]
          /\ Proceeds(k, [req[k] EXCEPT !.at = "committing", !.got = t])
    /\ UNCHANGED <<supervisorVars, row, edited, poller, revoked, rotated, refused, lost, history>>

ExchangeFails(k) ==
    /\ req[k].at = "exchanging"
    /\ Proceeds(k, NoRequest)
    /\ UNCHANGED <<supervisorVars, row, edited, poller, ford, history>>

\* finish_consent and disconnect merge over the row they hold.
BaseOf(q) == IF q.op \in {"finish", "disconnect"} THEN q.seen ELSE q.base

\* The same credentials again keep the tokens; others drop them.
SavedOver(q) ==
    IF q.seen # NoRow /\ q.seen.app = q.app
    THEN [q.base EXCEPT !.app = q.app]
    ELSE [app |-> q.app, tok |-> NoTokens]

Merged(q) ==
    CASE q.op = "save"       -> SavedOver(q)
      [] q.op = "consent"    -> [q.base EXCEPT !.tok.pending = TRUE]
      [] q.op = "finish"     -> [q.seen EXCEPT !.tok = WithToken(q.got)]
      [] q.op = "disconnect" -> [q.seen EXCEPT !.tok = NoTokens]

\* What is left of a request once it has committed.
AfterCommit(q) ==
    IF q.op \in {"save", "finish"}
    THEN [NoRequest EXCEPT !.op = q.op, !.at = "restarting"] ELSE NoRequest

Commit(k) ==
    LET q == req[k] IN
    /\ q.at = "committing"
    /\ call[k] = Sup!Idle
    /\ MayCommit(BaseOf(q))
    /\ row' = Merged(q)
    /\ edited' = {Fcon}
    /\ Proceeds(k, AfterCommit(q))
    /\ saved' = IF q.op = "save" THEN q.app ELSE saved
    /\ disconnected' = ((disconnected \/ q.op = "disconnect") /\ q.op # "finish")
    /\ UNCHANGED <<supervisorVars, poller, ford, crossed>>

\* The commit raises: the request ends in a server error.
CommitFails(k) ==
    /\ req[k].at = "committing"
    /\ call[k] = Sup!Idle
    /\ Proceeds(k, NoRequest)
    /\ UNCHANGED <<supervisorVars, row, edited, poller, ford, history>>

\* Faulty variant: the row is loaded while the old runtime goes on.
RestartBeginsWithoutStop(k) ==
    /\ req[k].at = "restarting"
    /\ call[k] = Sup!Idle
    /\ call' = [call EXCEPT ![k] = Sup!Loading(Fcon)]
    /\ edited' = {}
    /\ Proceeds(k, NoRequest)
    /\ UNCHANGED <<up, registry, needsReauth, job, cancelled, overlapped,
                   row, poller, ford, history>>

\* _restart: what follows is the supervisor's.
RestartBegins(k) ==
    /\ req[k].at = "restarting"
    /\ Sup!RestartRuntime(k, Fcon)
    /\ edited' = {}
    /\ Proceeds(k, NoRequest)
    /\ UNCHANGED <<row, poller, ford, history>>

RequestBegins(k) ==
    \/ \E app \in App : SaveBegins(k, app)
    \/ ConsentBegins(k)
    \/ FinishBegins(k)
    \/ DisconnectBegins(k)

RequestSteps(k) ==
    \/ TakeBase(k)
    \/ Exchanged(k)
    \/ ExchangeFails(k)
    \/ Commit(k)
    \/ CommitFails(k)
    \/ RestartBegins(k)

-----------------------------------------------------------------------------
(***************************************************************************)
(* The supervisor's steps, with the poller built where a task is created,  *)
(* and the process.                                                        *)
(***************************************************************************)
SupervisorSteps(k) ==
    /\ UNCHANGED <<row, edited>>
    /\ \/ (Sup!SignalStop(k) \/ Sup!Joined(k) \/ Sup!LoadRow(k) \/ Sup!SweepNext(k))
          /\ UNCHANGED poller
       \/ Sup!StartOne(k) /\ Builds
    /\ UNCHANGED <<req, ford, history>>

ProcessEnds ==
    /\ Sup!ProcessEnds
    /\ poller' = [r \in Runtime |-> NoPoller]
    /\ req' = [k \in Caller |-> NoRequest]
    /\ IF row = NoRow THEN UNCHANGED lost ELSE LosesStored
    /\ UNCHANGED <<row, edited, issuer, revoked, rotated, refused, history>>

StartAll ==
    /\ UNCHANGED row
    /\ Sup!StartAll
    /\ Builds
    /\ UNCHANGED <<req, ford, history>>

StopAll(k) ==
    /\ \A j \in Caller : ~Busy(j)
    /\ Sup!StopAll(k)
    /\ UNCHANGED <<row, edited, poller, req, ford, history>>

Exit(k) == call[k].at = "sweeping" /\ call[k].todo = {} /\ ProcessEnds

Crash == up /\ ProcessEnds

\* The user revokes the access at Ford, or its 90 days have passed.
Revoke(t) ==
    /\ issuer[t] # NoApp /\ t \notin revoked \cup rotated
    /\ revoked' = revoked \cup {t}
    /\ UNCHANGED <<supervisorVars, row, edited, poller, req, issuer, rotated, refused, lost, history>>

Init ==
    /\ up = FALSE
    /\ registry = [c \in {Fcon} |-> NoRuntime]
    /\ needsReauth = {}
    /\ job = [r \in Runtime |-> NoJob]
    /\ cancelled = {}
    /\ call = [k \in Caller |-> Sup!Idle]
    /\ overlapped = {}
    /\ row = NoRow
    /\ edited = {}
    /\ poller = [r \in Runtime |-> NoPoller]
    /\ req = [k \in Caller |-> NoRequest]
    /\ issuer = [t \in Token |-> NoApp]
    /\ revoked = {}
    /\ rotated = {}
    /\ refused = {}
    /\ lost = {}
    /\ saved = NoApp
    /\ disconnected = FALSE
    /\ crossed = FALSE

Next ==
    \/ StartAll
    \/ Crash
    \/ \E k \in Caller :
          RequestBegins(k) \/ RequestSteps(k) \/ SupervisorSteps(k)
          \/ StopAll(k) \/ Exit(k)
    \/ \E r \in Runtime : PollerSteps(r) \/ Unwinds(r)
    \/ \E t \in Token : Revoke(t)

Spec == Init /\ [][Next]_vars

(***************************************************************************)
(* The event loop resumes what can go on.  An access token lasts twenty    *)
(* minutes, so a poller asks for a refresh again and again; and Ford does  *)
(* not answer 429 or 5xx for ever (the one assumption about Ford).         *)
(***************************************************************************)
Fairness ==
    /\ \A k \in Caller : /\ WF_vars(RequestSteps(k))
                         /\ WF_vars(SupervisorSteps(k))
                         /\ WF_vars(Exit(k))
    /\ \A r \in Runtime : /\ WF_vars(PollerSteps(r))
                          /\ WF_vars(Unwinds(r))
                          /\ SF_vars(RefreshBegins(r))
                          /\ SF_vars(RefreshRejected(r))

FairSpec == Spec /\ Fairness

-----------------------------------------------------------------------------
TypeOK ==
    /\ row \in Row \cup {NoRow}
    /\ edited \subseteq {Fcon}
    /\ poller \in [Runtime -> [at : PollerAt, tok : Tok, base : Row \cup {NoRow}]]
    /\ req \in [Caller -> Request]
    /\ issuer \in [Token -> App \cup {NoApp}]
    /\ revoked \cup rotated \cup refused \cup lost \subseteq Token
    /\ saved \in App \cup {NoApp}
    /\ disconnected \in BOOLEAN /\ crossed \in BOOLEAN
    /\ \A r \in Runtime :
          job[r] # NoJob <=> poller[r].at \notin {"off", "declined"}
    /\ \A k \in Caller : req[k] = NoRequest <=> req[k].at = "idle"

(***************************************************************************)
(* The row holds the credentials the user saved last, whatever the poller  *)
(* persists at the same time: "a runtime refreshing tokens and a settings  *)
(* save editing credentials cannot overwrite each other's fields"          *)
(* (config_store.py).  True on SQLite, where a commit over a stale read    *)
(* raises; false on PostgreSQL.                                            *)
(***************************************************************************)
CredentialsSurvive == row # NoRow => row.app = saved

(***************************************************************************)
(* "Re-authorization required" is never shown for a token that Ford has not*)
(* refused, however the poller's writes and the handlers' interleave.      *)
(***************************************************************************)
ConsentFlagIsJustified ==
    row # NoRow /\ row.tok.needs => row.tok.refresh \in refused

(***************************************************************************)
(* A refresh token that Ford has rotated away is replaced in the row, or   *)
(* its successor is still on its way there, unless the reply or the commit *)
(* was lost (or two requests were served at once).                         *)
(***************************************************************************)
RotationReachesRow ==
    (row # NoRow /\ row.tok.refresh \in rotated \ lost /\ ~crossed)
    => \E r \in Runtime : job[r] # NoJob /\ poller[r].at \in {"reading", "writing"}

(***************************************************************************)
(* After a disconnect no token comes back until the user connects again,   *)
(* although a poller was running when it was asked for.                    *)
(***************************************************************************)
DisconnectSticks ==
    row # NoRow /\ disconnected /\ ~crossed => row.tok.refresh = NoToken

\* The composition is a behaviour of the supervisor: what is proved of every
\* Supervisor holds of the one that runs FordConnect.
ImplementsSupervisor == Sup!Spec

\* The poller holds a token that Ford no longer honours.
HoldsDeadGrant(r) ==
    /\ job[r] # NoJob
    /\ poller[r].tok.refresh # NoToken
    /\ ~Honoured(job[r].value.app, poller[r].tok.refresh)

(***************************************************************************)
(* A poller does not go on for ever with a grant that Ford has ended, by   *)
(* revocation or by a rotation whose reply was lost: its task ends.        *)
(***************************************************************************)
DeadGrantIsDropped == \A r \in Runtime : HoldsDeadGrant(r) ~> ~HoldsDeadGrant(r)

\* Every settings request returns, also the disconnect that waits for a poller.
RequestsReturn == \A k \in Caller : Busy(k) ~> ~Busy(k)
=============================================================================
