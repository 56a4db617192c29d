--------------------------- MODULE SupervisorProofs ---------------------------
(***************************************************************************)
(* The invariants of Supervisor for every set of configs, runtimes and     *)
(* callers.  None of them is inductive alone; SupInv adds what the calls   *)
(* under way guarantee each other.                                         *)
(***************************************************************************)
EXTENDS Supervisor, TLAPS

\* A runtime is registered once or held by one caller, never both, and the
\* job of its task belongs to the config it is registered or held for.
ExclusiveRuntimes ==
    /\ \A c, d \in Config :
          registry[c] # NoRuntime /\ registry[c] = registry[d] => c = d
    /\ \A k \in Caller, c \in Config :
          call[k].rt # NoRuntime => registry[c] # call[k].rt
    /\ \A j, k \in Caller :
          call[k].rt # NoRuntime /\ call[j].rt = call[k].rt => j = k
    /\ \A c \in Config :
          registry[c] # NoRuntime /\ Live(registry[c])
          => job[registry[c]].config = c
    /\ \A k \in Caller :
          call[k].rt # NoRuntime /\ Live(call[k].rt)
          => job[call[k].rt].config = call[k].config

\* Unless its calls overlapped, one call at most works on a config, and the
\* config is out of the registry while it does.
OneCallPerConfig ==
    /\ \A j, k \in Caller :
          call[k].config # NoConfig /\ call[j].config = call[k].config
          => j = k \/ call[k].config \in overlapped
    /\ \A k \in Caller :
          call[k].config \in Config \ overlapped
          => registry[call[k].config] = NoRuntime

\* stop_all has the supervisor to itself, and nobody uses it before start_all.
QuietLifespan ==
    /\ \A j, k \in Caller : call[k].op = "stopAll" => j = k \/ call[j] = Idle
    /\ ~up => \A k \in Caller : call[k] = Idle

\* What a restart has loaded is what is stored, until somebody edits it.
LoadedIsStored ==
    \A k \in Caller :
        call[k].at = "starting" /\ call[k].config \notin overlapped \cup edited
        => call[k].seen = row[call[k].config]

SupInv ==
    /\ TypeOK
    /\ ExclusiveRuntimes
    /\ OneCallPerConfig
    /\ QuietLifespan
    /\ NoUnownedTask
    /\ ReauthMeansDown
    /\ LoadedIsStored
    /\ RunsStoredRow

-----------------------------------------------------------------------------
(***************************************************************************)
(* The shapes of a call.                                                   *)
(***************************************************************************)
LEMMA IdleShape == Idle \in Call /\ WellPlaced(Idle)
  BY SupervisorAssumption DEF Idle, At, Call, Op, Place, WellPlaced

LEMMA StopShapes ==
  ASSUME NEW op \in {"restart", "stop", "stopAll"}, NEW c \in Config,
         NEW r \in Runtime, NEW todo \in SUBSET Config
  PROVE  /\ Stopping(op, c, r, todo) \in Call /\ WellPlaced(Stopping(op, c, r, todo))
         /\ Joining(op, c, r, todo) \in Call /\ WellPlaced(Joining(op, c, r, todo))
  BY SupervisorAssumption DEF Stopping, Joining, At, Call, Op, Place, WellPlaced

LEMMA LoadingShape ==
  ASSUME NEW c \in Config
  PROVE  Loading(c) \in Call /\ WellPlaced(Loading(c))
  BY SupervisorAssumption DEF Loading, At, Call, Op, Place, WellPlaced

LEMMA StartingShape ==
  ASSUME NEW c \in Config, NEW v \in RowValue
  PROVE  Starting(c, v) \in Call /\ WellPlaced(Starting(c, v))
  BY SupervisorAssumption DEF Starting, At, Call, Op, Place, WellPlaced

LEMMA SweepShape ==
  ASSUME NEW todo \in SUBSET Config
  PROVE  Sweeping(todo) \in Call /\ WellPlaced(Sweeping(todo))
  BY SupervisorAssumption DEF Sweeping, At, Call, Op, Place, WellPlaced

\* One caller moves: the other calls are as they were.
LEMMA CallMoves ==
  ASSUME TypeOK, NEW k \in Caller, NEW x \in Call, WellPlaced(x),
         call' = [call EXCEPT ![k] = x]
  PROVE  /\ call' \in [Caller -> Call]
         /\ \A j \in Caller : WellPlaced(call'[j])
         /\ call'[k] = x
         /\ \A j \in Caller \ {k} : call'[j] = call[j]
  BY DEF TypeOK

\* A call that holds a runtime is stopping it or waiting for its task.
LEMMA HolderShape ==
  ASSUME TypeOK, NEW k \in Caller, call[k].at \in {"stopping", "joining"}
  PROVE  /\ call[k].op \in {"restart", "stop", "stopAll"}
         /\ call[k].config \in Config
         /\ call[k].rt \in Runtime
         /\ call[k].todo \in SUBSET Config
         /\ call[k].seen = NoValue
  BY SupervisorAssumption DEF TypeOK, Call, Op, WellPlaced

\* Where a call goes after a stop: it holds no runtime any more.
LEMMA AfterStopShape ==
  ASSUME TypeOK, NEW k \in Caller, call[k].at \in {"stopping", "joining"}
  PROVE  /\ AfterStop(k) \in Call
         /\ WellPlaced(AfterStop(k))
         /\ AfterStop(k).rt = NoRuntime
         /\ AfterStop(k).at # "starting"
         /\ AfterStop(k).config \in {call[k].config, NoConfig}
         /\ AfterStop(k) = Idle \/ AfterStop(k).op = call[k].op
  <1>1. CASE call[k].op = "restart"
    <2>1. AfterStop(k) = Loading(call[k].config)
      BY <1>1 DEF AfterStop
    <2>2. Loading(call[k].config) \in Call /\ WellPlaced(Loading(call[k].config))
      BY HolderShape, LoadingShape
    <2>3. QED
      BY <1>1, <2>1, <2>2, HolderShape DEF Loading, At
  <1>2. CASE call[k].op = "stopAll"
    <2>1. AfterStop(k) = Sweeping(call[k].todo)
      BY <1>2 DEF AfterStop
    <2>2. QED
      BY <1>2, <2>1, HolderShape, SweepShape DEF Sweeping, At
  <1>3. CASE call[k].op = "stop"
    BY <1>3, IdleShape DEF AfterStop, Idle, At
  <1>4. QED
    BY <1>1, <1>2, <1>3, HolderShape

\* The two ways a stop begins.
LEMMA StopOfShape ==
  ASSUME TypeOK, NEW op \in {"restart", "stop", "stopAll"}, NEW c \in Config,
         NEW todo \in SUBSET Config, NEW otherwise \in Call, WellPlaced(otherwise)
  PROVE  /\ StopOf(op, c, todo, otherwise) \in Call
         /\ WellPlaced(StopOf(op, c, todo, otherwise))
  <1>1. registry[c] # NoRuntime => registry[c] \in Runtime
    BY DEF TypeOK
  <1>2. QED
    BY <1>1, StopShapes DEF StopOf

(***************************************************************************)
(* Type correctness.                                                       *)
(***************************************************************************)
LEMMA InitTypeOK == Init => TypeOK
  BY IdleShape, SupervisorAssumption DEF Init, TypeOK

LEMMA NextTypeOK ==
  ASSUME TypeOK, [Next]_vars
  PROVE  TypeOK'
  <1>1. ASSUME NEW k \in Caller, NEW c \in Config, RestartRuntime(k, c),
               edited' = edited \ {c}, UNCHANGED row
        PROVE  TypeOK'
    <2>1. StopOf("restart", c, {}, Loading(c)) \in Call
          /\ WellPlaced(StopOf("restart", c, {}, Loading(c)))
      BY LoadingShape, StopOfShape
    <2>2. QED
      BY <1>1, <2>1, CallMoves DEF RestartRuntime, TypeOK, Overlap
  <1>2. ASSUME NEW k \in Caller, NEW c \in Config, StopRuntime(k, c),
               UNCHANGED <<row, edited>>
        PROVE  TypeOK'
    <2>1. StopOf("stop", c, {}, Idle) \in Call /\ WellPlaced(StopOf("stop", c, {}, Idle))
      BY IdleShape, StopOfShape
    <2>2. QED
      BY <1>2, <2>1, CallMoves DEF StopRuntime, TypeOK, Overlap
  <1>3. ASSUME NEW k \in Caller, StopAll(k), UNCHANGED <<row, edited>>
        PROVE  TypeOK'
    <2>1. Sweeping(Registered) \in Call /\ WellPlaced(Sweeping(Registered))
      BY SweepShape DEF Registered
    <2>2. QED
      BY <1>3, <2>1, CallMoves DEF StopAll, TypeOK
  <1>4. ASSUME NEW k \in Caller, SignalStop(k), UNCHANGED <<row, edited>>
        PROVE  TypeOK'
    <2> DEFINE joining ==
          Joining(call[k].op, call[k].config, call[k].rt, call[k].todo)
    <2>1. /\ joining \in Call /\ WellPlaced(joining)
          /\ AfterStop(k) \in Call /\ WellPlaced(AfterStop(k))
          /\ call[k].rt \in Runtime
      BY <1>4, HolderShape, StopShapes, AfterStopShape DEF SignalStop
    <2> HIDE DEF joining
    <2>2. \/ call' = [call EXCEPT ![k] = joining]
          \/ call' = [call EXCEPT ![k] = AfterStop(k)]
      BY <1>4 DEF SignalStop, joining
    <2>3. call' \in [Caller -> Call] /\ \A j \in Caller : WellPlaced(call'[j])
      BY <2>1, <2>2, CallMoves
    <2>4. QED
      BY <1>4, <2>1, <2>3 DEF SignalStop, TypeOK
  <1>5. ASSUME NEW k \in Caller, Joined(k), UNCHANGED <<row, edited>>
        PROVE  TypeOK'
    BY <1>5, AfterStopShape, CallMoves DEF Joined, TypeOK
  <1>6. ASSUME NEW k \in Caller, LoadRow(k), UNCHANGED <<row, edited>>
        PROVE  TypeOK'
    <2> DEFINE starting == Starting(call[k].config, row[call[k].config])
    <2>1. call[k].config \in Config
      BY <1>6, SupervisorAssumption DEF LoadRow, TypeOK, WellPlaced, Call
    <2>2. starting \in Call /\ WellPlaced(starting)
      BY <2>1, StartingShape DEF TypeOK
    <2> HIDE DEF starting
    <2>3. \/ call' = [call EXCEPT ![k] = starting]
          \/ call' = [call EXCEPT ![k] = Idle]
      BY <1>6 DEF LoadRow, starting
    <2>4. call' \in [Caller -> Call] /\ \A j \in Caller : WellPlaced(call'[j])
      BY <2>2, <2>3, IdleShape, CallMoves
    <2>5. QED
      BY <1>6, <2>4 DEF LoadRow, TypeOK
  <1>7. ASSUME NEW k \in Caller, StartOne(k), UNCHANGED <<row, edited>>
        PROVE  TypeOK'
    <2>1. call' \in [Caller -> Call] /\ \A j \in Caller : WellPlaced(call'[j])
      BY <1>7, IdleShape, CallMoves DEF StartOne
    <2>2. call[k].config \in Config /\ call[k].seen \in RowValue
      BY <1>7, SupervisorAssumption DEF StartOne, TypeOK, WellPlaced, Call
    <2>3. QED
      BY <1>7, <2>1, <2>2 DEF StartOne, TypeOK, Job
  <1>8. ASSUME NEW k \in Caller, SweepNext(k), UNCHANGED <<row, edited>>
        PROVE  TypeOK'
    <2>1. PICK c \in call[k].todo :
             LET rest == call[k].todo \ {c} IN
             /\ needsReauth' = needsReauth \ {c}
             /\ registry' = [registry EXCEPT ![c] = NoRuntime]
             /\ call' = [call EXCEPT ![k] = StopOf("stopAll", c, rest, Sweeping(rest))]
      BY <1>8 DEF SweepNext
    <2> DEFINE rest == call[k].todo \ {c}
               next == StopOf("stopAll", c, rest, Sweeping(rest))
    <2>2. c \in Config /\ rest \in SUBSET Config
      BY DEF TypeOK, Call
    <2> HIDE DEF rest
    <2>3. next \in Call /\ WellPlaced(next)
      BY <2>2, SweepShape, StopOfShape
    <2>4. call' = [call EXCEPT ![k] = next]
      BY <2>1 DEF rest
    <2> HIDE DEF next
    <2>5. call' \in [Caller -> Call] /\ \A j \in Caller : WellPlaced(call'[j])
      BY <2>3, <2>4, CallMoves
    <2>6. QED
      BY <1>8, <2>1, <2>2, <2>5 DEF SweepNext, TypeOK
  <1>9. ASSUME ProcessEnds, UNCHANGED <<row, edited>>
        PROVE  TypeOK'
    BY <1>9, IdleShape DEF ProcessEnds, TypeOK
  <1>10. ASSUME StartAll
         PROVE  TypeOK'
    <2>1. PICK f \in [{c \in Config : row[c] \in Startable} -> Runtime] :
             /\ registry' = [c \in Config |->
                                IF c \in DOMAIN f THEN f[c] ELSE NoRuntime]
             /\ job' = [r \in Runtime |->
                           IF \E c \in DOMAIN f : f[c] = r
                           THEN LET c == CHOOSE c \in DOMAIN f : f[c] = r
                                IN  [config |-> c, value |-> row[c]]
                           ELSE NoJob]
      BY <1>10 DEF StartAll
    <2>2. registry' \in [Config -> Runtime \cup {NoRuntime}]
      BY <2>1
    <2>3. job' \in [Runtime -> Job \cup {NoJob}]
      BY <2>1 DEF TypeOK, Job
    <2>4. QED
      BY <1>10, <2>2, <2>3 DEF StartAll, TypeOK
  <1>11. ASSUME NEW r \in Runtime, EndTask(r), UNCHANGED <<row, edited>>
         PROVE  TypeOK'
    BY <1>11 DEF EndTask, TypeOK
  <1>12. ASSUME NEW c \in Config, NEW v \in RowValue, SaveRow(c, v)
         PROVE  TypeOK'
    BY <1>12 DEF SaveRow, TypeOK, supervisorVars
  <1>13. CASE UNCHANGED vars
    BY <1>13 DEF vars, supervisorVars, TypeOK
  <1>14. QED
    BY <1>1, <1>2, <1>3, <1>4, <1>5, <1>6, <1>7, <1>8, <1>9, <1>10, <1>11,
       <1>12, <1>13
       DEF Next, CallBegins, CallSteps, TaskSteps, TaskEnds, TaskUnwinds, Exit, Crash

\* Every variable of the supervisor stays in its type.
THEOREM TypeCorrect == Spec => []TypeOK
  <1>1. QED
    BY InitTypeOK, NextTypeOK, PTL DEF Spec

(***************************************************************************)
(* Two ways a call moves.  It takes a config's runtime out of the registry *)
(* (the first half of a stop), or goes on without touching the registry.   *)
(***************************************************************************)
LEMMA StopBegins ==
  ASSUME SupInv, TypeOK', NEW k \in Caller, NEW c \in Config, NEW y \in Call,
         call[k].rt = NoRuntime,
         call' = [call EXCEPT ![k] = y],
         registry' = [registry EXCEPT ![c] = NoRuntime],
         needsReauth' \in {needsReauth, needsReauth \ {c}},
         overlapped' \in {overlapped, overlapped \cup {c}},
         edited' \in {edited, edited \ {c}},
         UNCHANGED <<up, row, job>>,
         up,
         y.rt = registry[c],
         y.rt # NoRuntime => y.config = c,
         y.config \in {c, NoConfig},
         y.at # "starting",
         \A j \in Caller \ {k} : call[j].config = c => c \in overlapped',
         \A j \in Caller \ {k} : y.op = "stopAll" => call[j] = Idle,
         \A j \in Caller \ {k} : call[j].op = "stopAll" => y = Idle
  PROVE  SupInv'
  <1> USE DEF SupInv
  <1>1. /\ \A j \in Caller \ {k} : call'[j] = call[j]
        /\ call'[k] = y
        /\ \A d \in Config \ {c} : registry'[d] = registry[d]
        /\ registry'[c] = NoRuntime
        /\ overlapped \subseteq overlapped' /\ overlapped' \subseteq overlapped \cup {c}
        /\ edited' \subseteq edited /\ edited \ {c} \subseteq edited'
        /\ needsReauth' \subseteq needsReauth
    BY DEF TypeOK
  <1>2. ExclusiveRuntimes'
    BY <1>1 DEF ExclusiveRuntimes, Live
  <1>3. OneCallPerConfig'
    BY <1>1, SupervisorAssumption DEF OneCallPerConfig
  <1>4. QuietLifespan'
    BY <1>1 DEF QuietLifespan
  <1>5. NoUnownedTask'
    <2>1. SUFFICES ASSUME NEW r \in Runtime, job[r] # NoJob
                   PROVE  \/ registry'[job[r].config] = r
                          \/ \E j \in Caller : call'[j].rt = r
                          \/ job[r].config \in overlapped'
      BY DEF NoUnownedTask, Live, Held
    <2>2. job[r].config \in Config /\ r # NoRuntime
      BY <2>1, SupervisorAssumption DEF TypeOK, Job
    <2>3. CASE registry[job[r].config] = r
      BY <1>1, <2>2, <2>3
    <2>4. CASE \E j \in Caller : call[j].rt = r
      BY <1>1, <2>2, <2>4
    <2>5. QED
      BY <1>1, <2>1, <2>3, <2>4 DEF NoUnownedTask, Live, Held
  <1>6. ReauthMeansDown'
    BY <1>1 DEF ReauthMeansDown
  <1>7. LoadedIsStored'
    BY <1>1 DEF LoadedIsStored
  <1>8. RunsStoredRow'
    BY <1>1 DEF RunsStoredRow, Live
  <1>9. QED
    BY <1>2, <1>3, <1>4, <1>5, <1>6, <1>7, <1>8

LEMMA CallAdvances ==
  ASSUME SupInv, TypeOK', NEW k \in Caller, NEW x \in Call,
         call[k] # Idle,
         call' = [call EXCEPT ![k] = x],
         UNCHANGED <<up, row, registry, needsReauth, job, overlapped, edited>>,
         \/ x.rt = call[k].rt /\ x.config = call[k].config
         \/ x.rt = NoRuntime /\ (call[k].rt # NoRuntime => ~Live(call[k].rt)),
         x.config \in {call[k].config, NoConfig},
         x = Idle \/ x.op = call[k].op,
         x.at = "starting" => x.seen = row[x.config]
  PROVE  SupInv'
  <1> USE DEF SupInv
  <1>1. /\ \A j \in Caller \ {k} : call'[j] = call[j]
        /\ call'[k] = x
    BY DEF TypeOK
  <1>2. ExclusiveRuntimes'
    BY <1>1 DEF ExclusiveRuntimes, Live
  <1>3. OneCallPerConfig'
    BY <1>1, SupervisorAssumption DEF OneCallPerConfig
  <1>4. QuietLifespan'
    <2>1. Idle.op # "stopAll"
      BY DEF Idle, At
    <2>2. QED
      BY <1>1, <2>1 DEF QuietLifespan
  <1>5. NoUnownedTask'
    <2>1. SUFFICES ASSUME NEW r \in Runtime, job[r] # NoJob
                   PROVE  \/ registry[job[r].config] = r
                          \/ \E j \in Caller : call'[j].rt = r
                          \/ job[r].config \in overlapped
      BY DEF NoUnownedTask, Live, Held
    <2>2. CASE \E j \in Caller : call[j].rt = r
      <3>1. PICK j \in Caller : call[j].rt = r
        BY <2>2
      <3>2. r # NoRuntime
        BY SupervisorAssumption
      <3>3. QED
        BY <1>1, <2>1, <3>1, <3>2 DEF Live
    <2>3. QED
      BY <2>1, <2>2 DEF NoUnownedTask, Live, Held
  <1>6. ReauthMeansDown'
    BY <1>1 DEF ReauthMeansDown
  <1>7. LoadedIsStored'
    BY <1>1 DEF LoadedIsStored
  <1>8. RunsStoredRow'
    BY <1>1 DEF RunsStoredRow, Live
  <1>9. QED
    BY <1>2, <1>3, <1>4, <1>5, <1>6, <1>7, <1>8

-----------------------------------------------------------------------------
(***************************************************************************)
(* SupInv is inductive.                                                    *)
(***************************************************************************)
LEMMA InitSupInv == Init => SupInv
  <1>1. ASSUME Init PROVE SupInv
    <2>1. TypeOK
      BY <1>1, InitTypeOK
    <2>2. \A k \in Caller : call[k] = Idle /\ call[k].rt = NoRuntime
                             /\ call[k].config = NoConfig /\ call[k].op = "none"
                             /\ call[k].at = "idle"
      BY <1>1 DEF Init, Idle, At
    <2>3. /\ \A r \in Runtime : job[r] = NoJob
          /\ \A c \in Config : registry[c] = NoRuntime
          /\ needsReauth = {}
      BY <1>1 DEF Init
    <2>4. ExclusiveRuntimes
      BY <2>2, <2>3 DEF ExclusiveRuntimes
    <2>5. OneCallPerConfig /\ QuietLifespan /\ LoadedIsStored
      BY <2>2, SupervisorAssumption
      DEF OneCallPerConfig, QuietLifespan, LoadedIsStored
    <2>6. NoUnownedTask /\ ReauthMeansDown /\ RunsStoredRow
      BY <2>3 DEF NoUnownedTask, ReauthMeansDown, RunsStoredRow, Live
    <2>7. QED
      BY <2>1, <2>4, <2>5, <2>6 DEF SupInv
  <1>2. QED
    BY <1>1

LEMMA NextSupInv ==
  ASSUME SupInv, [Next]_vars
  PROVE  SupInv'
  <1>0. TypeOK /\ TypeOK'
    BY NextTypeOK DEF SupInv
  <1> DEFINE Nobody == /\ Idle.rt = NoRuntime /\ Idle.config = NoConfig
                       /\ Idle.op = "none" /\ Idle.at = "idle"
  <1>a. Nobody
    BY DEF Idle, At
  <1>1. ASSUME NEW k \in Caller, NEW c \in Config, RestartRuntime(k, c),
               edited' = edited \ {c}, UNCHANGED row
        PROVE  SupInv'
    <2> DEFINE y == StopOf("restart", c, {}, Loading(c))
    <2>1. y \in Call
      BY <1>0, LoadingShape, StopOfShape
    <2>2. /\ y.rt = registry[c] /\ y.config = c /\ y.at # "starting"
          /\ y.op = "restart"
      BY DEF StopOf, Stopping, Loading, At
    <2> HIDE DEF y
    <2>3. call' = [call EXCEPT ![k] = y]
      BY <1>1 DEF RestartRuntime, y
    <2>4. /\ call[k].rt = NoRuntime /\ up
          /\ \A j \in Caller : call[j].op # "stopAll"
          /\ registry' = [registry EXCEPT ![c] = NoRuntime]
          /\ needsReauth' \in {needsReauth, needsReauth \ {c}}
          /\ UNCHANGED <<up, job>>
      BY <1>1, <1>a DEF RestartRuntime, Serving
    <2>5. /\ overlapped' \in {overlapped, overlapped \cup {c}}
          /\ \A j \in Caller \ {k} : call[j].config = c => c \in overlapped'
      BY <1>1 DEF RestartRuntime, Overlap
    <2>6. QED
      BY <1>0, <1>1, <2>1, <2>2, <2>3, <2>4, <2>5, StopBegins
  <1>2. ASSUME NEW k \in Caller, NEW c \in Config, StopRuntime(k, c),
               UNCHANGED <<row, edited>>
        PROVE  SupInv'
    <2> DEFINE y == StopOf("stop", c, {}, Idle)
    <2>1. y \in Call
      BY <1>0, IdleShape, StopOfShape
    <2>2. /\ y.rt = registry[c] /\ y.config \in {c, NoConfig}
          /\ y.rt # NoRuntime => y.config = c
          /\ y.at # "starting" /\ y.op # "stopAll"
      BY <1>a DEF StopOf, Stopping, At
    <2> HIDE DEF y
    <2>3. call' = [call EXCEPT ![k] = y]
      BY <1>2 DEF StopRuntime, y
    <2>4. /\ call[k].rt = NoRuntime /\ up
          /\ \A j \in Caller : call[j].op # "stopAll"
          /\ registry' = [registry EXCEPT ![c] = NoRuntime]
          /\ needsReauth' \in {needsReauth, needsReauth \ {c}}
          /\ edited' \in {edited, edited \ {c}}
          /\ UNCHANGED <<up, row, job>>
      BY <1>2, <1>a DEF StopRuntime, Serving
    <2>5. /\ overlapped' \in {overlapped, overlapped \cup {c}}
          /\ \A j \in Caller \ {k} : call[j].config = c => c \in overlapped'
      BY <1>2 DEF StopRuntime, Overlap
    <2>6. /\ \A j \in Caller \ {k} : y.op = "stopAll" => call[j] = Idle
          /\ \A j \in Caller \ {k} : call[j].op = "stopAll" => y = Idle
      BY <2>2, <2>4
    <2>7. y.config \in {c, NoConfig} /\ y.rt = registry[c]
          /\ (y.rt # NoRuntime => y.config = c) /\ y.at # "starting"
      BY <2>2
    <2>8. QED
      BY <1>0, <2>1, <2>3, <2>4, <2>5, <2>6, <2>7, StopBegins
  <1>3. ASSUME NEW k \in Caller, StopAll(k), UNCHANGED <<row, edited>>
        PROVE  SupInv'
    <2>1. /\ \A j \in Caller : call[j] = Idle
          /\ up /\ UNCHANGED <<up, row, registry, needsReauth, job, overlapped, edited>>
      BY <1>3 DEF StopAll
    <2>2. /\ \A j \in Caller \ {k} : call'[j] = Idle
          /\ call'[k].rt = NoRuntime /\ call'[k].config = NoConfig
          /\ call'[k].at = "sweeping"
      BY <1>0, <1>3 DEF StopAll, TypeOK, Sweeping, At
    <2>3. NoUnownedTask'
      BY <2>1, <2>2, <1>a, SupervisorAssumption
      DEF SupInv, NoUnownedTask, Live, Held
    <2>4. ExclusiveRuntimes' /\ OneCallPerConfig'
      BY <2>1, <2>2, <1>a, SupervisorAssumption
      DEF SupInv, ExclusiveRuntimes, OneCallPerConfig, Live
    <2>5. QuietLifespan' /\ LoadedIsStored'
      BY <2>1, <2>2, <1>a DEF QuietLifespan, LoadedIsStored
    <2>6. ReauthMeansDown' /\ RunsStoredRow'
      BY <2>1 DEF SupInv, ReauthMeansDown, RunsStoredRow, Live
    <2>7. QED
      BY <1>0, <2>3, <2>4, <2>5, <2>6 DEF SupInv
  <1>4. ASSUME NEW k \in Caller, SignalStop(k), UNCHANGED <<row, edited>>
        PROVE  SupInv'
    <2>1. /\ call[k] # Idle /\ call[k].at \in {"stopping", "joining"}
          /\ UNCHANGED <<up, row, registry, needsReauth, job, overlapped, edited>>
      BY <1>4, <1>a DEF SignalStop
    <2>2. CASE ~Live(call[k].rt) /\ call' = [call EXCEPT ![k] = AfterStop(k)]
      BY <1>0, <2>1, <2>2, AfterStopShape, CallAdvances
    <2>3. CASE call' = [call EXCEPT ![k] =
                  Joining(call[k].op, call[k].config, call[k].rt, call[k].todo)]
      <3> DEFINE x == Joining(call[k].op, call[k].config, call[k].rt, call[k].todo)
      <3>1. x \in Call
        BY <1>0, <2>1, HolderShape, StopShapes
      <3>2. /\ x.rt = call[k].rt /\ x.config = call[k].config
            /\ x.op = call[k].op /\ x.at # "starting"
        BY DEF Joining, At
      <3> HIDE DEF x
      <3>3. call' = [call EXCEPT ![k] = x]
        BY <2>3 DEF x
      <3>4. QED
        BY <1>0, <2>1, <3>1, <3>2, <3>3, CallAdvances
    <2>4. QED
      BY <1>4, <2>2, <2>3 DEF SignalStop
  <1>5. ASSUME NEW k \in Caller, Joined(k), UNCHANGED <<row, edited>>
        PROVE  SupInv'
    <2>1. /\ call[k] # Idle /\ call[k].at \in {"stopping", "joining"}
          /\ UNCHANGED <<up, row, registry, needsReauth, job, overlapped, edited>>
          /\ ~Live(call[k].rt) /\ call' = [call EXCEPT ![k] = AfterStop(k)]
      BY <1>5, <1>a DEF Joined
    <2>2. QED
      BY <1>0, <2>1, AfterStopShape, CallAdvances
  <1>6. ASSUME NEW k \in Caller, LoadRow(k), UNCHANGED <<row, edited>>
        PROVE  SupInv'
    <2>1. /\ call[k] # Idle /\ call[k].config \in Config
          /\ call[k].op = "restart" /\ call[k].rt = NoRuntime
          /\ UNCHANGED <<up, row, registry, needsReauth, job, overlapped, edited>>
      BY <1>0, <1>6, <1>a DEF LoadRow, TypeOK, WellPlaced, Call
    <2>2. CASE call' = [call EXCEPT ![k] = Idle]
      BY <1>0, <1>a, <2>1, <2>2, IdleShape, CallAdvances
    <2>3. CASE call' = [call EXCEPT ![k] = Starting(call[k].config, row[call[k].config])]
      <3> DEFINE x == Starting(call[k].config, row[call[k].config])
      <3>1. x \in Call
        BY <1>0, <2>1, StartingShape DEF TypeOK
      <3>2. /\ x.rt = NoRuntime /\ x.config = call[k].config
            /\ x.op = "restart" /\ x.seen = row[x.config]
        BY DEF Starting, At
      <3> HIDE DEF x
      <3>3. call' = [call EXCEPT ![k] = x]
        BY <2>3 DEF x
      <3>4. QED
        BY <1>0, <2>1, <3>1, <3>2, <3>3, CallAdvances
    <2>4. QED
      BY <1>6, <2>2, <2>3 DEF LoadRow
  <1>7. ASSUME NEW k \in Caller, StartOne(k), UNCHANGED <<row, edited>>
        PROVE  SupInv'
    <2> DEFINE c == call[k].config
               v == call[k].seen
    <2>1. /\ c \in Config /\ v \in RowValue /\ call[k].rt = NoRuntime
          /\ call[k].op = "restart"
      BY <1>0, <1>7, SupervisorAssumption DEF StartOne, TypeOK, WellPlaced, Call
    <2>2. /\ \A j \in Caller \ {k} : call'[j] = call[j]
          /\ call'[k] = Idle
          /\ UNCHANGED <<up, row, overlapped, edited>>
      BY <1>0, <1>7 DEF StartOne, TypeOK
    <2>3. \A j \in Caller \ {k} : call[j].config = c => c \in overlapped
      BY <2>1, SupervisorAssumption DEF SupInv, OneCallPerConfig
    <2>4. QuietLifespan' /\ LoadedIsStored'
      BY <1>a, <2>1, <2>2 DEF SupInv, QuietLifespan, LoadedIsStored
    <2>5. CASE UNCHANGED <<registry, job>>
               /\ needsReauth' \in {needsReauth \cup {c}, needsReauth \ {c}}
      <3>1. ExclusiveRuntimes' /\ OneCallPerConfig'
        BY <1>a, <2>2, <2>5, SupervisorAssumption
        DEF SupInv, ExclusiveRuntimes, OneCallPerConfig, Live
      <3>2. NoUnownedTask'
        BY <2>1, <2>2, <2>5, SupervisorAssumption
        DEF SupInv, NoUnownedTask, Live, Held
      <3>3. ReauthMeansDown' /\ RunsStoredRow'
        BY <2>1, <2>2, <2>5
        DEF SupInv, OneCallPerConfig, ReauthMeansDown, RunsStoredRow, Live
      <3>4. QED
        BY <1>0, <2>4, <3>1, <3>2, <3>3 DEF SupInv
    <2>6. ASSUME NEW r \in Runtime, Fresh(r), needsReauth' = needsReauth \ {c},
                 registry' = [registry EXCEPT ![c] = r],
                 job' = [job EXCEPT ![r] = [config |-> c, value |-> v]]
          PROVE  SupInv'
      <3>1. /\ registry'[c] = r
            /\ \A d \in Config \ {c} : registry'[d] = registry[d]
            /\ job'[r] = [config |-> c, value |-> v]
            /\ \A s \in Runtime \ {r} : job'[s] = job[s]
        BY <1>0, <2>1, <2>6 DEF TypeOK
      <3>2. /\ \A d \in Config : registry[d] # r
            /\ \A j \in Caller : call[j].rt # r
            /\ job[r] = NoJob
        BY <2>6 DEF Fresh, Held, Live
      <3>3. /\ \A d \in Config : registry[d] # NoRuntime => registry[d] \in Runtime \ {r}
            /\ \A j \in Caller : call[j].rt # NoRuntime => call[j].rt \in Runtime \ {r}
        BY <1>0, <3>2 DEF TypeOK, Call
      <3>4. ExclusiveRuntimes'
        BY <1>a, <2>1, <2>2, <3>1, <3>2, <3>3, SupervisorAssumption
        DEF SupInv, ExclusiveRuntimes, Live
      <3>5. OneCallPerConfig'
        BY <1>a, <2>1, <2>2, <2>3, <3>1, SupervisorAssumption
        DEF SupInv, OneCallPerConfig
      <3>6. NoUnownedTask'
        <4>1. SUFFICES ASSUME NEW s \in Runtime, job'[s] # NoJob
                       PROVE  \/ registry'[job'[s].config] = s
                              \/ \E j \in Caller : call'[j].rt = s
                              \/ job'[s].config \in overlapped'
          BY DEF NoUnownedTask, Live, Held
        <4>2. CASE s = r
          BY <3>1, <4>2
        <4>3. CASE s # r
          <5>1. job[s] = job'[s] /\ job[s].config \in Config /\ s # NoRuntime
            BY <1>0, <3>1, <4>1, <4>3, SupervisorAssumption DEF TypeOK, Job
          <5>2. registry[c] = NoRuntime \/ c \in overlapped
            BY <2>1 DEF SupInv, OneCallPerConfig
          <5>3. CASE registry[job[s].config] = s
            BY <2>2, <3>1, <5>1, <5>2, <5>3
          <5>4. CASE \E j \in Caller : call[j].rt = s
            BY <2>1, <2>2, <5>1, <5>4
          <5>5. QED
            BY <2>2, <4>1, <5>1, <5>3, <5>4 DEF SupInv, NoUnownedTask, Live, Held
        <4>4. QED
          BY <4>2, <4>3
      <3>7. ReauthMeansDown'
        BY <2>1, <2>2, <2>6, <3>1 DEF SupInv, ReauthMeansDown
      <3>8. RunsStoredRow'
        <4>1. c \notin overlapped \cup edited => v = row[c]
          BY <1>7 DEF StartOne, SupInv, LoadedIsStored
        <4>2. QED
          BY <2>1, <2>2, <3>1, <3>3, <4>1 DEF SupInv, RunsStoredRow, Live
      <3>9. QED
        BY <1>0, <2>4, <3>4, <3>5, <3>6, <3>7, <3>8 DEF SupInv
    <2>7. QED
      BY <1>7, <2>5, <2>6 DEF StartOne
  <1>8. ASSUME NEW k \in Caller, SweepNext(k), UNCHANGED <<row, edited>>
        PROVE  SupInv'
    <2>1. PICK c \in call[k].todo :
             LET rest == call[k].todo \ {c} IN
             /\ needsReauth' = needsReauth \ {c}
             /\ registry' = [registry EXCEPT ![c] = NoRuntime]
             /\ call' = [call EXCEPT ![k] = StopOf("stopAll", c, rest, Sweeping(rest))]
      BY <1>8 DEF SweepNext
    <2> DEFINE rest == call[k].todo \ {c}
               y == StopOf("stopAll", c, rest, Sweeping(rest))
    <2>2. c \in Config /\ rest \in SUBSET Config
      BY <1>0 DEF TypeOK, Call
    <2>3. y \in Call
      BY <1>0, <2>2, SweepShape, StopOfShape
    <2>4. /\ y.rt = registry[c] /\ y.config \in {c, NoConfig}
          /\ (y.rt # NoRuntime => y.config = c) /\ y.at # "starting"
      BY DEF StopOf, Stopping, Sweeping, At
    <2> HIDE DEF y
    <2>5. call' = [call EXCEPT ![k] = y]
      BY <2>1 DEF y
    <2>6. call[k].op = "stopAll" /\ call[k].rt = NoRuntime
      BY <1>0, <1>8 DEF SweepNext, TypeOK, WellPlaced
    <2>7. \A j \in Caller \ {k} : call[j] = Idle
      BY <2>6 DEF SupInv, QuietLifespan
    <2>8. /\ \A j \in Caller \ {k} : call[j].config = c => c \in overlapped'
          /\ \A j \in Caller \ {k} : call[j].op = "stopAll" => y = Idle
      BY <1>a, <2>2, <2>7, SupervisorAssumption
    <2>9. /\ up /\ UNCHANGED <<up, row, job>>
          /\ needsReauth' \in {needsReauth, needsReauth \ {c}}
          /\ registry' = [registry EXCEPT ![c] = NoRuntime]
          /\ overlapped' \in {overlapped, overlapped \cup {c}}
          /\ edited' \in {edited, edited \ {c}}
      BY <1>8, <1>a, <2>1, <2>6 DEF SweepNext, SupInv, QuietLifespan
    <2>10. QED
      BY <1>0, <2>2, <2>3, <2>4, <2>5, <2>6, <2>7, <2>8, <2>9, StopBegins
  <1>9. ASSUME ProcessEnds, UNCHANGED <<row, edited>>
        PROVE  SupInv'
    <2>1. /\ \A k \in Caller : call'[k] = Idle
          /\ \A r \in Runtime : job'[r] = NoJob
          /\ \A c \in Config : registry'[c] = NoRuntime
          /\ needsReauth' = {}
      BY <1>9 DEF ProcessEnds
    <2>2. ExclusiveRuntimes' /\ OneCallPerConfig' /\ QuietLifespan' /\ LoadedIsStored'
      BY <1>a, <2>1, SupervisorAssumption
      DEF ExclusiveRuntimes, OneCallPerConfig, QuietLifespan, LoadedIsStored
    <2>3. NoUnownedTask' /\ ReauthMeansDown' /\ RunsStoredRow'
      BY <2>1 DEF NoUnownedTask, ReauthMeansDown, RunsStoredRow, Live
    <2>4. QED
      BY <1>0, <2>2, <2>3 DEF SupInv
  <1>10. ASSUME StartAll
         PROVE  SupInv'
    <2> DEFINE S == {c \in Config : row[c] \in Startable}
    <2>1. PICK f \in [S -> Runtime] :
             /\ \A c, d \in DOMAIN f : f[c] = f[d] => c = d
             /\ registry' = [c \in Config |->
                                IF c \in DOMAIN f THEN f[c] ELSE NoRuntime]
             /\ job' = [r \in Runtime |->
                           IF \E c \in DOMAIN f : f[c] = r
                           THEN LET c == CHOOSE c \in DOMAIN f : f[c] = r
                                IN  [config |-> c, value |-> row[c]]
                           ELSE NoJob]
      BY <1>10 DEF StartAll
    <2>2. /\ \A k \in Caller : call'[k] = Idle
          /\ needsReauth' = {c \in Config : row[c] \in Unreadable}
          /\ up' /\ UNCHANGED <<row, overlapped>>
      BY <1>10 DEF StartAll, SupInv, QuietLifespan
    <2>3. \A c \in Config : registry'[c] = IF c \in S THEN f[c] ELSE NoRuntime
      BY <2>1
    <2>4. ASSUME NEW c \in S
          PROVE  job'[f[c]] = [config |-> c, value |-> row[c]]
      <3>1. f[c] \in Runtime /\ \E d \in DOMAIN f : f[d] = f[c]
        BY <2>1
      <3>2. c = CHOOSE d \in DOMAIN f : f[d] = f[c]
        BY <2>1, <3>1
      <3>3. QED
        BY <2>1, <3>1, <3>2
    <2>5. ASSUME NEW r \in Runtime, job'[r] # NoJob
          PROVE  \E c \in S : f[c] = r
      BY <2>1, <2>5
    <2>6. ExclusiveRuntimes'
      BY <1>a, <2>1, <2>2, <2>3, <2>4 DEF ExclusiveRuntimes, Live
    <2>7. OneCallPerConfig' /\ QuietLifespan' /\ LoadedIsStored'
      BY <1>a, <2>2, SupervisorAssumption
      DEF OneCallPerConfig, QuietLifespan, LoadedIsStored
    <2>8. NoUnownedTask'
      <3>1. SUFFICES ASSUME NEW r \in Runtime, job'[r] # NoJob
                     PROVE  registry'[job'[r].config] = r
        BY DEF NoUnownedTask, Live
      <3>2. PICK c \in S : f[c] = r
        BY <2>5, <3>1
      <3>3. job'[f[c]] = [config |-> c, value |-> row[c]]
        BY <2>4
      <3>4. QED
        BY <2>3, <3>2, <3>3, <2>1
    <2>9. ReauthMeansDown'
      BY <2>2, <2>3, SupervisorAssumption DEF ReauthMeansDown
    <2>10. RunsStoredRow'
      <3>1. SUFFICES ASSUME NEW c \in Config, registry'[c] # NoRuntime
                     PROVE  job'[registry'[c]].value = row[c]
        BY <2>2 DEF RunsStoredRow
      <3>2. c \in S /\ registry'[c] = f[c]
        BY <2>3, <3>1
      <3>3. job'[registry'[c]] = [config |-> c, value |-> row[c]]
        BY <2>4, <3>2
      <3>4. QED
        BY <3>3
    <2>11. QED
      BY <1>0, <2>6, <2>7, <2>8, <2>9, <2>10 DEF SupInv
  <1>11. ASSUME NEW r \in Runtime, EndTask(r), UNCHANGED <<row, edited>>
         PROVE  SupInv'
    <2>1. /\ \A s \in Runtime : job'[s] \in {job[s], NoJob}
          /\ UNCHANGED <<up, row, registry, needsReauth, call, overlapped, edited>>
      BY <1>0, <1>11 DEF EndTask, TypeOK
    <2>2. \A s \in Runtime : job'[s] # NoJob => job'[s] = job[s] /\ job[s] # NoJob
      BY <2>1
    <2>3. \A c \in Config : registry[c] # NoRuntime => registry[c] \in Runtime
      BY <1>0 DEF TypeOK
    <2>4. \A k \in Caller : call[k].rt # NoRuntime => call[k].rt \in Runtime
      BY <1>0 DEF TypeOK, Call
    <2>5. ExclusiveRuntimes'
      BY <2>1, <2>2, <2>3, <2>4 DEF SupInv, ExclusiveRuntimes, Live
    <2>6. OneCallPerConfig' /\ QuietLifespan' /\ LoadedIsStored' /\ ReauthMeansDown'
      BY <2>1 DEF SupInv, OneCallPerConfig, QuietLifespan, LoadedIsStored, ReauthMeansDown
    <2>7. NoUnownedTask'
      BY <2>1, <2>2 DEF SupInv, NoUnownedTask, Live, Held
    <2>8. RunsStoredRow'
      BY <2>1, <2>2, <2>3 DEF SupInv, RunsStoredRow, Live
    <2>9. QED
      BY <1>0, <2>5, <2>6, <2>7, <2>8 DEF SupInv
  <1>12. ASSUME NEW c \in Config, NEW v \in RowValue, SaveRow(c, v)
         PROVE  SupInv'
    <2>1. /\ UNCHANGED supervisorVars /\ edited' = edited \cup {c}
          /\ \A d \in Config \ {c} : row'[d] = row[d]
      BY <1>0, <1>12 DEF SaveRow, TypeOK
    <2>2. ExclusiveRuntimes' /\ OneCallPerConfig' /\ QuietLifespan' /\ ReauthMeansDown'
      BY <2>1 DEF supervisorVars, SupInv, ExclusiveRuntimes, OneCallPerConfig,
                  QuietLifespan, ReauthMeansDown, Live
    <2>3. NoUnownedTask'
      BY <2>1 DEF supervisorVars, SupInv, NoUnownedTask, Live, Held
    <2>4. LoadedIsStored'
      BY <1>0, <2>1, SupervisorAssumption
      DEF supervisorVars, SupInv, LoadedIsStored, TypeOK, WellPlaced, Call
    <2>5. RunsStoredRow'
      BY <2>1 DEF supervisorVars, SupInv, RunsStoredRow, Live
    <2>6. QED
      BY <1>0, <2>2, <2>3, <2>4, <2>5 DEF SupInv
  <1>13. CASE UNCHANGED vars
    <2>1. ExclusiveRuntimes' /\ OneCallPerConfig' /\ QuietLifespan' /\ ReauthMeansDown'
      BY <1>13 DEF vars, supervisorVars, SupInv, ExclusiveRuntimes, OneCallPerConfig,
                   QuietLifespan, ReauthMeansDown, Live
    <2>2. NoUnownedTask' /\ LoadedIsStored' /\ RunsStoredRow'
      BY <1>13 DEF vars, supervisorVars, SupInv, NoUnownedTask, LoadedIsStored,
                   RunsStoredRow, Live, Held
    <2>3. QED
      BY <1>0, <2>1, <2>2 DEF SupInv
  <1>14. QED
    BY <1>1, <1>2, <1>3, <1>4, <1>5, <1>6, <1>7, <1>8, <1>9, <1>10, <1>11,
       <1>12, <1>13
       DEF Next, CallBegins, CallSteps, TaskSteps, TaskEnds, TaskUnwinds, Exit, Crash

LEMMA SupInvHolds == Spec => []SupInv
  <1>1. Init => SupInv
    BY InitSupInv
  <1>2. SupInv /\ [Next]_vars => SupInv'
    BY NextSupInv
  <1>3. QED
    BY <1>1, <1>2, PTL DEF Spec

-----------------------------------------------------------------------------
\* Every running task is registered or held by the call that is stopping it,
\* unless two calls have worked on its config at the same time.
THEOREM TasksAreOwned == Spec => []NoUnownedTask
  <1>1. SupInv => NoUnownedTask
    BY DEF SupInv
  <1>2. QED
    BY <1>1, SupInvHolds, PTL

\* A config that waits for authorization has no runtime.
THEOREM ReauthIsDown == Spec => []ReauthMeansDown
  <1>1. SupInv => ReauthMeansDown
    BY DEF SupInv
  <1>2. QED
    BY <1>1, SupInvHolds, PTL

\* A registered task runs on the row that is stored, until the row is edited.
THEOREM TasksRunTheStoredRow == Spec => []RunsStoredRow
  <1>1. SupInv => RunsStoredRow
    BY DEF SupInv
  <1>2. QED
    BY <1>1, SupInvHolds, PTL

(***************************************************************************)
(* What a finished stop leaves.  A stop ends in two ways: the config had no*)
(* runtime, so by NoUnownedTask it has no task; or its runtime, which was  *)
(* the only one that could run for it, has ended.                          *)
(***************************************************************************)
LEMMA StopEnds ==
  ASSUME SupInv, [Next]_vars, NEW k \in Caller, NEW r \in Runtime,
         call[k].op = "stop", call'[k] = Idle, call[k].config \notin overlapped
  PROVE  job'[r] = NoJob \/ job'[r].config # call[k].config
  <1>1. TypeOK
    BY DEF SupInv
  <1>2. Idle.op = "none" /\ Idle.at = "idle" /\ Idle.rt = NoRuntime
    BY DEF Idle, At
  <1>3. call[k].at \in {"stopping", "joining"} /\ call[k].config \in Config
    BY <1>1, SupervisorAssumption DEF TypeOK, WellPlaced, Call, Op, Place
  <1>4. ASSUME ~Live(call[k].rt), UNCHANGED job
        PROVE  job'[r] = NoJob \/ job'[r].config # call[k].config
    <2>1. registry[call[k].config] = NoRuntime
      BY <1>3 DEF SupInv, OneCallPerConfig
    <2>2. ASSUME Live(r), job[r].config = call[k].config
          PROVE  FALSE
      <3>1. r # NoRuntime
        BY SupervisorAssumption
      <3>2. PICK j \in Caller : call[j].rt = r
        BY <2>1, <2>2, <3>1 DEF SupInv, NoUnownedTask, Held
      <3>3. call[j].config = call[k].config
        BY <2>2, <3>1, <3>2 DEF SupInv, ExclusiveRuntimes
      <3>4. j = k
        BY <1>3, <3>3, SupervisorAssumption DEF SupInv, OneCallPerConfig
      <3>5. QED
        BY <1>4, <2>2, <3>2, <3>4
    <2>3. QED
      BY <1>4, <2>2 DEF Live
  <1>5. CASE SignalStop(k) \/ Joined(k)
    <2>1. call'[k] # Idle \/ (~Live(call[k].rt) /\ UNCHANGED job)
      <3>1. \A op, c, q, todo : Joining(op, c, q, todo) # Idle
        BY DEF Joining, Idle, At
      <3>2. QED
        BY <1>1, <1>5, <3>1 DEF SignalStop, Joined, TypeOK
    <2>2. QED
      BY <1>4, <2>1
  <1>6. CASE ProcessEnds
    BY <1>6 DEF ProcessEnds
  <1>7. CASE UNCHANGED call
    BY <1>2, <1>7
  <1>8. CASE \E j \in Caller : CallBegins(j) \/ CallSteps(j)
    <2>1. PICK j \in Caller : CallBegins(j) \/ CallSteps(j)
      BY <1>8
    <2>2. CASE j # k
      <3>1. ProcessEnds \/ call'[k] = call[k]
        BY <1>1, <2>1, <2>2
        DEF CallBegins, CallSteps, RestartRuntime, StopRuntime, StopAll, SignalStop,
            Joined, LoadRow, StartOne, SweepNext, Exit, TypeOK
      <3>2. QED
        BY <1>2, <1>6, <3>1
    <2>3. CASE j = k
      BY <1>2, <1>3, <1>5, <2>1, <2>3
      DEF CallBegins, CallSteps, RestartRuntime, StopRuntime, StopAll,
          LoadRow, StartOne, SweepNext, Exit
    <2>4. QED
      BY <2>2, <2>3
  <1>9. QED
    BY <1>6, <1>7, <1>8
    DEF Next, vars, supervisorVars, StartAll, Crash, TaskSteps, TaskEnds, TaskUnwinds,
        EndTask, SaveRow

\* When stop_runtime returns to a route, no task of that config is running.
THEOREM StopsAreComplete == Spec => StopLeavesNothing
  <1>1. SupInv /\ [Next]_vars =>
          [\A k \in Caller :
              /\ call[k].op = "stop"
              /\ call'[k] = Idle
              /\ call[k].config \notin overlapped
              => \A r \in Runtime :
                    job'[r] = NoJob \/ job'[r].config # call[k].config]_vars
    BY StopEnds
  <1>2. QED
    BY <1>1, SupInvHolds, PTL DEF Spec, StopLeavesNothing
=============================================================================
