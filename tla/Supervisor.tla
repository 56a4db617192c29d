----------------------------- MODULE Supervisor -----------------------------
(***************************************************************************)
(* The ingestion supervisor (web/services/ingestion/supervisor.py): one    *)
(* asyncio task per data_source_configs row, kept in two dictionaries that *)
(* are always written together (_runtimes and _tasks: here one function,   *)
(* registry).  Its coroutines run on one event loop and are interleaved at *)
(* their awaits only: `await rt.stop()`, `await task`, `await db.get(...)`.*)
(* Every action below is the code between two such awaits.                 *)
(*                                                                         *)
(* Callers are the request handlers of the settings pages, and the         *)
(* application's lifespan, which calls stop_all at shutdown.               *)
(***************************************************************************)
EXTENDS Naturals, FiniteSets

CONSTANTS
    Config,      \* primary keys of data_source_configs
    Runtime,     \* identities of IngestionRuntime objects (and their tasks)
    Caller,      \* coroutines that may be inside a supervisor method
    RowValue,    \* what a row may hold
    Enabled,     \* the values with enabled = true
    Startable,   \* ... readable, with a builder that accepts them
    Unreadable,  \* ... sealed with a key that is missing or has changed
    NoConfig, NoRuntime, NoValue, NoJob

ASSUME SupervisorAssumption ==
    /\ Startable \cup Unreadable \subseteq Enabled
    /\ Startable \cap Unreadable = {}
    /\ Enabled \subseteq RowValue
    /\ NoConfig \notin Config
    /\ NoRuntime \notin Runtime
    /\ NoValue \notin RowValue
    /\ NoJob \notin [config : Config, value : RowValue]

VARIABLES
    up,           \* the application has started and has not exited
    row,          \* the stored row of each config
    registry,     \* _runtimes (and _tasks): the runtime of each config
    needsReauth,  \* _needs_reauth: configs reported as needing authorization
    job,          \* what each runtime's task is running, NoJob once it is done
    cancelled,    \* tasks that task.cancel() was called on
    call,         \* where each caller is inside a supervisor method
    overlapped,   \* history: configs two calls have worked on at one time
    edited        \* history: configs whose row changed since their last restart

supervisorVars == <<up, registry, needsReauth, job, cancelled, call, overlapped>>
vars == <<supervisorVars, row, edited>>

Job == [config : Config, value : RowValue]

Op == {"none", "restart", "stop", "stopAll"}
Place == {"idle", "stopping", "joining", "loading", "starting", "sweeping"}

Call == [op : Op, at : Place, config : Config \cup {NoConfig},
         rt : Runtime \cup {NoRuntime}, seen : RowValue \cup {NoValue},
         todo : SUBSET Config]

\* The places a call can be at, with what it carries there.
At(op, at, c, r, v, todo) ==
    [op |-> op, at |-> at, config |-> c, rt |-> r, seen |-> v, todo |-> todo]

Idle == At("none", "idle", NoConfig, NoRuntime, NoValue, {})
Stopping(op, c, r, todo) == At(op, "stopping", c, r, NoValue, todo)
Joining(op, c, r, todo) == At(op, "joining", c, r, NoValue, todo)
Loading(c) == At("restart", "loading", c, NoRuntime, NoValue, {})
Starting(c, v) == At("restart", "starting", c, NoRuntime, v, {})
Sweeping(todo) == At("stopAll", "sweeping", NoConfig, NoRuntime, NoValue, todo)

-----------------------------------------------------------------------------
Live(r) == job[r] # NoJob

Registered == {c \in Config : registry[c] # NoRuntime}

Held(r) == \E k \in Caller : call[k].rt = r

\* A runtime object that nothing refers to: the next one to be built.
Fresh(r) == ~Live(r) /\ ~Held(r) /\ \A c \in Config : registry[c] # r

\* Bound of the model: every restart under way finds an identity to build.
RoomForRuntime ==
    Cardinality({r \in Runtime : Fresh(r)})
        > Cardinality({j \in Caller : call[j].op = "restart"})

\* The configs two calls are working on once k starts working on c.
Overlap(k, c) ==
    IF \E j \in Caller \ {k} : call[j].config = c
    THEN overlapped \cup {c} ELSE overlapped

\* Requests are accepted from the end of start_all until stop_all begins.
Serving == up /\ \A k \in Caller : call[k].op # "stopAll"

\* Where a call goes when the runtime it was stopping has ended.
AfterStop(k) ==
    IF call[k].op = "restart" THEN Loading(call[k].config)
    ELSE IF call[k].op = "stopAll" THEN Sweeping(call[k].todo) ELSE Idle

\* Where stop_runtime goes on for the call of kind op: to the runtime it took
\* out of the registry, or straight on when there is none.
StopOf(op, c, todo, otherwise) ==
    IF registry[c] # NoRuntime
    THEN Stopping(op, c, registry[c], todo) ELSE otherwise

-----------------------------------------------------------------------------
(***************************************************************************)
(* restart_runtime: stop what is registered, load the row, start again.    *)
(***************************************************************************)
RestartRuntime(k, c) ==
    /\ Serving
    /\ RoomForRuntime
    /\ call[k] = Idle
    /\ call' = [call EXCEPT ![k] = StopOf("restart", c, {}, Loading(c))]
    /\ overlapped' = Overlap(k, c)
    /\ registry' = [registry EXCEPT ![c] = NoRuntime]
    /\ needsReauth' = IF registry[c] # NoRuntime
                      THEN needsReauth \ {c} ELSE needsReauth
    /\ UNCHANGED <<up, job, cancelled>>

\* stop_runtime from a route: the registry entry goes before the first await.
StopRuntime(k, c) ==
    /\ Serving
    /\ call[k] = Idle
    /\ call' = [call EXCEPT ![k] = StopOf("stop", c, {}, Idle)]
    /\ overlapped' = Overlap(k, c)
    /\ registry' = [registry EXCEPT ![c] = NoRuntime]
    /\ needsReauth' = needsReauth \ {c}
    /\ UNCHANGED <<up, job, cancelled>>

\* Faulty variant: the task is awaited but never cancelled.
SignalStopWithoutCancel(k) ==
    /\ call[k].at = "stopping"
    /\ call' = [call EXCEPT ![k] =
          IF Live(call[k].rt)
          THEN Joining(call[k].op, call[k].config, call[k].rt, call[k].todo)
          ELSE AfterStop(k)]
    /\ UNCHANGED <<up, registry, needsReauth, job, cancelled, overlapped>>

\* rt.stop() has returned: cancel the task unless it is already done.
SignalStop(k) ==
    /\ call[k].at = "stopping"
    /\ \/ /\ Live(call[k].rt)
          /\ cancelled' = cancelled \cup {call[k].rt}
          /\ call' = [call EXCEPT ![k] =
                Joining(call[k].op, call[k].config, call[k].rt, call[k].todo)]
       \/ /\ ~Live(call[k].rt)
          /\ call' = [call EXCEPT ![k] = AfterStop(k)]
          /\ UNCHANGED cancelled
    /\ UNCHANGED <<up, registry, needsReauth, job, overlapped>>

\* Faulty variant: the cancelled task is not awaited.
JoinedWithoutWaiting(k) ==
    /\ call[k].at = "joining"
    /\ call' = [call EXCEPT ![k] = AfterStop(k)]
    /\ UNCHANGED <<up, registry, needsReauth, job, cancelled, overlapped>>

\* `await task` returns.
Joined(k) ==
    /\ call[k].at = "joining"
    /\ ~Live(call[k].rt)
    /\ call' = [call EXCEPT ![k] = AfterStop(k)]
    /\ UNCHANGED <<up, registry, needsReauth, job, cancelled, overlapped>>

\* Faulty variant: the row comes from a cache instead of the database.
LoadRowFromCache(k) ==
    /\ call[k].at = "loading"
    /\ \E v \in Enabled :
          call' = [call EXCEPT ![k] = Starting(call[k].config, v)]
    /\ UNCHANGED <<up, registry, needsReauth, job, cancelled, overlapped>>

\* `db.get` returns the row; an absent or disabled row ends the restart.
LoadRow(k) ==
    /\ call[k].at = "loading"
    /\ LET c == call[k].config IN
       \/ /\ row[c] \in Enabled
          /\ call' = [call EXCEPT ![k] = Starting(c, row[c])]
       \/ /\ row[c] \notin Enabled
          /\ call' = [call EXCEPT ![k] = Idle]
    /\ UNCHANGED <<up, registry, needsReauth, job, cancelled, overlapped>>

\* _start_one: no await, so the three outcomes are one step each.
StartOne(k) ==
    /\ call[k].at = "starting"
    /\ call' = [call EXCEPT ![k] = Idle]
    /\ LET c == call[k].config
           v == call[k].seen
       IN \/ /\ v \in Startable
             /\ needsReauth' = needsReauth \ {c}
             /\ \E r \in Runtime :
                   /\ Fresh(r)
                   /\ registry' = [registry EXCEPT ![c] = r]
                   /\ job' = [job EXCEPT ![r] = [config |-> c, value |-> v]]
          \/ /\ v \in Unreadable
             /\ needsReauth' = needsReauth \cup {c}
             /\ UNCHANGED <<registry, job>>
          \/ /\ v \notin Startable \cup Unreadable
             /\ needsReauth' = needsReauth \ {c}
             /\ UNCHANGED <<registry, job>>
    /\ UNCHANGED <<up, cancelled, overlapped>>

-----------------------------------------------------------------------------
(***************************************************************************)
(* The lifespan.  start_all runs before the first request is served, and   *)
(* _start_one does not suspend, so it is one step.  stop_all runs once the *)
(* server has drained its requests.                                        *)
(***************************************************************************)
StartAll ==
    /\ ~up
    /\ up' = TRUE
    /\ needsReauth' = {c \in Config : row[c] \in Unreadable}
    /\ \E f \in [{c \in Config : row[c] \in Startable} -> Runtime] :
          /\ \A c, d \in DOMAIN f : f[c] = f[d] => c = d
          /\ registry' = [c \in Config |->
                             IF c \in DOMAIN f THEN f[c] ELSE NoRuntime]
          /\ job' = [r \in Runtime |->
                        IF \E c \in DOMAIN f : f[c] = r
                        THEN LET c == CHOOSE c \in DOMAIN f : f[c] = r
                             IN  [config |-> c, value |-> row[c]]
                        ELSE NoJob]
    /\ edited' = {}
    /\ UNCHANGED <<row, cancelled, call, overlapped>>

StopAll(k) ==
    /\ up
    /\ \A j \in Caller : call[j] = Idle
    /\ call' = [call EXCEPT ![k] = Sweeping(Registered)]
    /\ UNCHANGED <<up, registry, needsReauth, job, cancelled, overlapped>>

\* The next config of stop_all's list goes through stop_runtime.
SweepNext(k) ==
    /\ call[k].at = "sweeping"
    /\ \E c \in call[k].todo :
          LET rest == call[k].todo \ {c} IN
          /\ needsReauth' = needsReauth \ {c}
          /\ registry' = [registry EXCEPT ![c] = NoRuntime]
          /\ call' = [call EXCEPT ![k] =
                         StopOf("stopAll", c, rest, Sweeping(rest))]
    /\ UNCHANGED <<up, job, cancelled, overlapped>>

\* The process is gone: its dictionaries, its tasks and its coroutines with it.
ProcessEnds ==
    /\ up' = FALSE
    /\ registry' = [c \in Config |-> NoRuntime]
    /\ needsReauth' = {}
    /\ job' = [r \in Runtime |-> NoJob]
    /\ cancelled' = {}
    /\ call' = [k \in Caller |-> Idle]
    /\ overlapped' = {}

Exit(k) == call[k].at = "sweeping" /\ call[k].todo = {} /\ ProcessEnds

Crash == up /\ ProcessEnds

-----------------------------------------------------------------------------
(***************************************************************************)
(* The tasks and the rows.  A task may end by itself (authentication       *)
(* refused, consent lost, an exception that escapes its loop); a cancelled *)
(* one unwinds (HaRuntime!StopEndsTask; the poller catches no cancellation)*)
(***************************************************************************)
EndTask(r) ==
    /\ Live(r)
    /\ job' = [job EXCEPT ![r] = NoJob]
    /\ cancelled' = cancelled \ {r}
    /\ UNCHANGED <<up, registry, needsReauth, call, overlapped>>

TaskEnds(r) == r \notin cancelled /\ EndTask(r)

TaskUnwinds(r) == r \in cancelled /\ EndTask(r)

\* A settings page, or a runtime persisting its tokens, commits the row; the
\* restart, if any, is another call.
SaveRow(c, v) ==
    /\ up
    /\ row' = [row EXCEPT ![c] = v]
    /\ edited' = edited \cup {c}
    /\ UNCHANGED supervisorVars

-----------------------------------------------------------------------------
Init ==
    /\ up = FALSE
    /\ row \in [Config -> RowValue]
    /\ registry = [c \in Config |-> NoRuntime]
    /\ needsReauth = {}
    /\ job = [r \in Runtime |-> NoJob]
    /\ cancelled = {}
    /\ call = [k \in Caller |-> Idle]
    /\ overlapped = {}
    /\ edited = {}

CallSteps(k) ==
    /\ \/ SignalStop(k)
       \/ Joined(k)
       \/ LoadRow(k)
       \/ StartOne(k)
       \/ SweepNext(k)
       \/ Exit(k)
    /\ UNCHANGED <<row, edited>>

CallBegins(k) ==
    \/ \E c \in Config :
          /\ RestartRuntime(k, c)
          /\ edited' = edited \ {c}
          /\ UNCHANGED row
    \/ /\ StopAll(k) \/ \E c \in Config : StopRuntime(k, c)
       /\ UNCHANGED <<row, edited>>

TaskSteps(r) ==
    /\ TaskEnds(r) \/ TaskUnwinds(r)
    /\ UNCHANGED <<row, edited>>

Next ==
    \/ StartAll
    \/ Crash /\ UNCHANGED <<row, edited>>
    \/ \E k \in Caller : CallBegins(k) \/ CallSteps(k)
    \/ \E r \in Runtime : TaskSteps(r)
    \/ \E c \in Config, v \in RowValue : SaveRow(c, v)

(***************************************************************************)
(* The event loop resumes a coroutine whose await is ready, and delivers a *)
(* cancellation.  Nothing makes a user press a button.                     *)
(***************************************************************************)
Fairness ==
    /\ \A k \in Caller : WF_vars(CallSteps(k))
    /\ \A r \in Runtime : WF_vars(TaskUnwinds(r) /\ UNCHANGED <<row, edited>>)

Spec == Init /\ [][Next]_vars
FairSpec == Spec /\ Fairness

-----------------------------------------------------------------------------
\* What a call carries at each place.
WellPlaced(x) ==
    /\ x.rt # NoRuntime <=> x.at \in {"stopping", "joining"}
    /\ x.seen # NoValue <=> x.at = "starting"
    /\ x.config = NoConfig <=> x.at \in {"idle", "sweeping"}
    /\ x.op = "none" <=> x.at = "idle"
    /\ x.at = "idle" => x = Idle
    /\ x.at \in {"loading", "starting"} => x.op = "restart"
    /\ x.at = "sweeping" => x.op = "stopAll"

TypeOK ==
    /\ up \in BOOLEAN
    /\ row \in [Config -> RowValue]
    /\ registry \in [Config -> Runtime \cup {NoRuntime}]
    /\ needsReauth \subseteq Config
    /\ job \in [Runtime -> Job \cup {NoJob}]
    /\ cancelled \subseteq Runtime
    /\ call \in [Caller -> Call]
    /\ \A k \in Caller : WellPlaced(call[k])
    /\ overlapped \subseteq Config
    /\ edited \subseteq Config

(***************************************************************************)
(* What holds instead.  As long as no two calls work on one config at the  *)
(* same time, every running task is either registered or being stopped by  *)
(* a caller that has taken it out of the registry: stop_runtime and        *)
(* stop_all reach every task there is.                                     *)
(***************************************************************************)
NoUnownedTask ==
    \A r \in Runtime : Live(r) =>
        \/ registry[job[r].config] = r
        \/ Held(r)
        \/ job[r].config \in overlapped

\* A config reported as needing authorization has no runtime (health() would
\* list it twice), unless calls overlapped.
ReauthMeansDown ==
    \A c \in needsReauth : registry[c] = NoRuntime \/ c \in overlapped

(***************************************************************************)
(* restart_runtime re-reads the row after it has stopped the old runtime:  *)
(* if the row has not been edited since the last restart was asked for, the*)
(* registered task runs on what is stored.                                 *)
(***************************************************************************)
RunsStoredRow ==
    \A c \in Config \ (overlapped \cup edited) :
        LET r == registry[c] IN
        r # NoRuntime => (Live(r) => job[r].value = row[c])

(***************************************************************************)
(* When stop_runtime returns to a route, no task of that config runs: the  *)
(* cancellation has been waited for, not only requested.                   *)
(***************************************************************************)
StopLeavesNothing ==
    [][\A k \in Caller :
          /\ call[k].op = "stop"
          /\ call'[k] = Idle
          /\ call[k].config \notin overlapped
          => \A r \in Runtime : job'[r] = NoJob \/ job'[r].config # call[k].config
      ]_vars

(***************************************************************************)
(* Every call on the supervisor returns; in particular stop_all ends, so   *)
(* shutdown is not held up by a runtime.                                   *)
(***************************************************************************)
CallsReturn == \A k \in Caller : call[k] # Idle ~> call[k] = Idle
=============================================================================
