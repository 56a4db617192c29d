------------------------------ MODULE HaRuntime ------------------------------
(***************************************************************************)
(* The Home Assistant runtime (web/services/ingestion/ha_websocket.py): one*)
(* task that connects, takes a snapshot of the entity states, subscribes   *)
(* and reads events, and starts over when the connection fails; and the    *)
(* stop() that the supervisor calls from another task before it cancels    *)
(* this one.  The two are interleaved at their awaits.                     *)
(*                                                                         *)
(* Home Assistant (external) holds one entity, whose states are numbered   *)
(* in the order they occur, the first being 1.  Handling a state stores it;*)
(* a handler that fails is logged and its state is not stored.             *)
(***************************************************************************)
EXTENDS Naturals, Sequences

CONSTANTS
    Socket,      \* websocket connections
    NoSocket,
    MaxState     \* bound of the model: the states of the entity

ASSUME HaRuntimeAssumption == NoSocket \notin Socket /\ MaxState \in Nat \ {0}

VARIABLES
    at,           \* where the task is
    reconnecting, \* whether it got there from _reconnect_loop
    running,      \* _running
    ws,           \* _ws
    held,         \* _entity_states: the last state it was given; 0 is none yet
    health,       \* connection_state
    stored,       \* the last state handled, or 0
    stopAt,       \* where stop() is
    closing,      \* the socket stop() is closing
    cancelled,    \* task.cancel() was called and has not been delivered
    open,         \* sockets open at both ends
    inbox,        \* events sent on the task's socket and not read yet
    subscribed,   \* there is a subscription on the task's socket
    ha,           \* the entity's state at Home Assistant
    tokenValid,   \* Home Assistant accepts the token
    steady,       \* from here on nothing fails at Home Assistant or on the way
    failed,       \* history: states whose handler failed
    gap,          \* history: states that came between a snapshot and the subscription
    missed        \* history: the state that a refused snapshot did not give

task == <<at, reconnecting, running, ws, held, health, stored>>
stopping == <<stopAt, closing, cancelled>>
home == <<open, inbox, subscribed, ha, tokenValid, steady>>
history == <<failed, gap, missed>>
vars == <<task, stopping, home, history>>

\* The places inside _connect_and_subscribe, once a socket is there.
Handshake == {"authenticating", "loading", "replaying", "subscribing"}

-----------------------------------------------------------------------------
(***************************************************************************)
(* The task.  It moves only while no cancellation is waiting for it.       *)
(***************************************************************************)
At(place) == at = place /\ ~cancelled

Start ==
    /\ At("new")
    /\ running' = TRUE
    /\ at' = "dialing"
    /\ health' = "connecting"
    /\ UNCHANGED <<reconnecting, ws, held, stored, stopping, home, history>>

\* Faulty variant: events of the old connection stay queued.
DialedKeepsQueue ==
    /\ At("dialing")
    /\ closing = NoSocket \/ closing \in open
    /\ \E s \in Socket \ {ws, closing} :
          /\ ws' = s
          /\ open' = open \cup {s}
    /\ subscribed' = FALSE
    /\ at' = "authenticating"
    /\ UNCHANGED <<reconnecting, running, held, health, stored, stopping, inbox, ha,
                   tokenValid, steady, history>>

\* websockets.connect returns; whatever _ws held before is overwritten.  A stop()
\* whose socket has closed in the meantime goes on first.  (A name of a socket that
\* nothing refers to may be used again: bound of the model.)
Dialed ==
    /\ At("dialing")
    /\ closing = NoSocket \/ closing \in open
    /\ \E s \in Socket \ {ws, closing} :
          /\ ws' = s
          /\ open' = open \cup {s}
    /\ inbox' = <<>>
    /\ subscribed' = FALSE
    /\ at' = "authenticating"
    /\ UNCHANGED <<reconnecting, running, held, health, stored, stopping, ha,
                   tokenValid, steady, history>>

\* Where a failure leads: start() and _reconnect_loop both wait and try again,
\* unless stop() has been called.
Retries ==
    /\ at' = IF running THEN "sleeping" ELSE "finishing"
    /\ reconnecting' = running
    /\ UNCHANGED <<running, held, stored, stopping, home, history>>

\* A connection error.  _reconnect_loop does not touch connection_state.
ConnectionFails ==
    /\ \/ At("dialing") /\ ~steady
       \/ ws \notin open /\ \E p \in Handshake \ {"replaying"} : At(p)
       \/ ws \notin open /\ At("listening") /\ inbox = <<>>
    /\ health' = IF reconnecting THEN health ELSE "reconnecting"
    /\ UNCHANGED ws
    /\ Retries

\* Any other exception, which start() catches without updating the health: the
\* settings write in _autopopulate_home_location fails, a frame cannot be
\* parsed, or stop() has taken the socket away (_recv_json's assertion).
UnexpectedError ==
    /\ \/ ~steady /\ (At("loading") \/ At("listening"))
       \/ ws = NoSocket /\ \E p \in Handshake \ {"replaying"} : At(p)
    /\ UNCHANGED <<ws, health>>
    /\ Retries

\* The socket the task is reading is open.
Connected(place) == At(place) /\ ws \in open

AuthOk ==
    /\ Connected("authenticating")
    /\ tokenValid
    /\ at' = "loading"
    /\ UNCHANGED <<reconnecting, running, ws, held, health, stored, stopping, home,
                   history>>

\* auth_invalid: start() gives up; raised from _reconnect_loop it is raised in
\* an except clause of start() and escapes, with the socket left as it is.
AuthInvalid ==
    /\ Connected("authenticating")
    /\ ~tokenValid
    /\ \/ /\ ~reconnecting
          /\ at' = "finishing"
          /\ running' = FALSE
          /\ health' = "disconnected"
       \/ /\ reconnecting
          /\ at' = "ended"
          /\ UNCHANGED <<running, health>>
    /\ UNCHANGED <<reconnecting, ws, held, stored, stopping, home, history>>

\* Faulty variant: the states are kept but not replayed.
SnapshotKept ==
    /\ Connected("loading")
    /\ held' = ha
    /\ gap' = {} /\ missed' = {}
    /\ at' = "subscribing"
    /\ UNCHANGED <<reconnecting, running, ws, health, stored, stopping, home, failed>>

\* get_config and get_states: what the snapshot holds is fixed here.
SnapshotTaken ==
    /\ Connected("loading")
    /\ held' = ha
    /\ gap' = {} /\ missed' = {}
    /\ at' = "replaying"
    /\ UNCHANGED <<reconnecting, running, ws, health, stored, stopping, home, failed>>

\* get_states is answered without success, which is not even logged: the states held
\* before, if any, are replayed again, and the task goes on to subscribe.
SnapshotRefused ==
    /\ Connected("loading")
    /\ at' = IF held = 0 THEN "subscribing" ELSE "replaying"
    /\ gap' = {} /\ missed' = {ha} \ {held}
    /\ UNCHANGED <<reconnecting, running, ws, held, health, stored, stopping, home,
                   failed>>

\* A state is handled, or its handler fails.
Handles ==
    \/ stored' = held /\ failed' = failed \ {held}
    \/ failed' = failed \cup {held} /\ UNCHANGED stored

Replayed ==
    /\ At("replaying")
    /\ Handles
    /\ at' = "subscribing"
    /\ UNCHANGED <<reconnecting, running, ws, held, health, stopping, home, gap, missed>>

\* Where _event_loop goes at its loop condition.
NextMessage == IF running THEN "listening" ELSE "finishing"

\* Faulty variant: _reconnect_loop does not return once it has connected.
SubscribedStaysInLoop ==
    /\ Connected("subscribing")
    /\ subscribed' \in BOOLEAN
    /\ at' = IF reconnecting /\ running THEN "sleeping" ELSE NextMessage
    /\ health' = IF reconnecting /\ running THEN "connecting" ELSE "connected"
    /\ reconnecting' = (reconnecting /\ running)
    /\ UNCHANGED <<running, ws, held, stored, stopping, open, inbox, ha, tokenValid,
                   steady, history>>

\* The subscription is answered; a refusal is logged and changes nothing else.
\* From start() the events are read; _reconnect_loop returns to start(), whose
\* loop connects once more.
Subscribed ==
    /\ Connected("subscribing")
    /\ subscribed' \in BOOLEAN
    /\ at' = IF reconnecting /\ running THEN "dialing" ELSE NextMessage
    /\ health' = IF reconnecting /\ running THEN "connecting" ELSE "connected"
    /\ reconnecting' = FALSE
    /\ UNCHANGED <<running, ws, held, stored, stopping, open, inbox, ha, tokenValid,
                   steady, history>>

\* recv: what has arrived is read even after the connection is lost.
Receives ==
    /\ At("listening")
    /\ inbox # <<>>
    /\ held' = Head(inbox)
    /\ inbox' = Tail(inbox)
    /\ at' = "handling"
    /\ UNCHANGED <<reconnecting, running, ws, health, stored, stopping, open,
                   subscribed, ha, tokenValid, steady, history>>

Handled ==
    /\ At("handling")
    /\ Handles
    /\ at' = NextMessage
    /\ UNCHANGED <<reconnecting, running, ws, held, health, stopping, home, gap, missed>>

\* _reconnect_loop's delay is over.
Wakes ==
    /\ At("sleeping")
    /\ at' = IF running THEN "reclosing" ELSE "finishing"
    /\ reconnecting' = running
    /\ UNCHANGED <<running, ws, held, health, stored, stopping, home, history>>

\* _close_ws, in _reconnect_loop and at the end of start().
Closes ==
    /\ At("reclosing") \/ At("finishing")
    /\ open' = open \ {ws}
    /\ ws' = NoSocket
    /\ at' = IF at = "reclosing" THEN "dialing" ELSE "ended"
    /\ health' = IF at = "reclosing" THEN "connecting" ELSE health
    /\ UNCHANGED <<reconnecting, running, held, stored, stopping, inbox, subscribed, ha,
                   tokenValid, steady, history>>

\* CancelledError arrives: start() breaks off and closes; _reconnect_loop's sleep
\* swallows it; in the rest of _reconnect_loop, and in a close, it escapes.
CancelDelivered ==
    /\ cancelled
    /\ at # "ended"
    /\ cancelled' = FALSE
    /\ reconnecting' = FALSE
    /\ at' = CASE at = "new" -> "ended"
               [] at = "sleeping" -> IF running THEN "dialing" ELSE "finishing"
               [] at \in {"reclosing", "finishing"} -> "ended"
               [] OTHER -> IF reconnecting THEN "ended" ELSE "finishing"
    /\ UNCHANGED <<running, ws, held, health, stored, stopAt, closing, home, history>>

TaskSteps ==
    \/ Start
    \/ Dialed
    \/ ConnectionFails
    \/ UnexpectedError
    \/ AuthOk
    \/ AuthInvalid
    \/ SnapshotTaken
    \/ SnapshotRefused
    \/ Replayed
    \/ Subscribed
    \/ Receives
    \/ Handled
    \/ Wakes
    \/ Closes

-----------------------------------------------------------------------------
(***************************************************************************)
(* stop(), and the cancellation the supervisor sends when it has returned  *)
(* (the runtime's own _task is never set).                                 *)
(***************************************************************************)
\* Faulty variant: the task is left to notice _running by itself.
StopReturnsWithoutCancel ==
    /\ health' = "disconnected"
    /\ cancelled' = FALSE
    /\ stopAt' = "done"

\* What follows the close: the health is final, and the task is cancelled.
StopReturns ==
    /\ health' = "disconnected"
    /\ cancelled' = (at # "ended")
    /\ stopAt' = "done"

StopBegins ==
    /\ stopAt = "none"
    /\ running' = FALSE
    /\ \/ /\ ws = NoSocket
          /\ StopReturns
          /\ UNCHANGED closing
       \/ /\ ws # NoSocket
          /\ stopAt' = "closing"
          /\ closing' = ws
          /\ UNCHANGED <<health, cancelled>>
    /\ UNCHANGED <<at, reconnecting, ws, held, stored, home, history>>

\* `await self._ws.close()` returns, and _ws is cleared, whatever it holds now.
StopCloses ==
    /\ stopAt = "closing"
    /\ open' = open \ {closing}
    /\ ws' = NoSocket
    /\ closing' = NoSocket
    /\ StopReturns
    /\ UNCHANGED <<at, reconnecting, running, held, stored, inbox, subscribed, ha,
                   tokenValid, steady, history>>

-----------------------------------------------------------------------------
(***************************************************************************)
(* Home Assistant.                                                         *)
(***************************************************************************)
\* The entity changes; the subscription gets the event.  Between snapshot and
\* subscription nobody tells the task.
Changes ==
    /\ ha < MaxState
    /\ ha' = ha + 1
    /\ inbox' = IF ws \in open /\ subscribed THEN Append(inbox, ha') ELSE inbox
    /\ gap' = IF at \in {"replaying", "subscribing"} THEN gap \cup {ha'} ELSE gap
    /\ UNCHANGED <<task, stopping, open, subscribed, tokenValid, steady, failed, missed>>

\* It restarts, or the network fails.
Drops(s) ==
    /\ ~steady
    /\ s \in open
    /\ open' = open \ {s}
    /\ UNCHANGED <<task, stopping, inbox, subscribed, ha, tokenValid, steady,
                   history>>

\* The user deletes the token.
TokenRevoked ==
    /\ tokenValid
    /\ tokenValid' = FALSE
    /\ UNCHANGED <<task, stopping, open, inbox, subscribed, ha, steady, history>>

\* The failures end, for as long as it matters.
Settles ==
    /\ ~steady
    /\ steady' = TRUE
    /\ UNCHANGED <<task, stopping, open, inbox, subscribed, ha, tokenValid, history>>

Init ==
    /\ at = "new"
    /\ reconnecting = FALSE
    /\ running = FALSE
    /\ ws = NoSocket
    /\ held = 0
    /\ health = "disconnected"
    /\ stored = 0
    /\ stopAt = "none"
    /\ closing = NoSocket
    /\ cancelled = FALSE
    /\ open = {}
    /\ inbox = <<>>
    /\ subscribed = FALSE
    /\ ha = 1
    /\ tokenValid = TRUE
    /\ steady = FALSE
    /\ failed = {}
    /\ gap = {}
    /\ missed = {}

\* The runtime has been stopped and nothing else happens (StopEndsTask asks for
\* what still has to).
Finished == stopAt = "done" /\ UNCHANGED vars

Next ==
    \/ TaskSteps
    \/ CancelDelivered
    \/ StopBegins
    \/ StopCloses
    \/ Changes
    \/ \E s \in Socket : Drops(s)
    \/ TokenRevoked
    \/ Settles
    \/ Finished

Spec == Init /\ [][Next]_vars

(***************************************************************************)
(* The event loop runs what can run; the delay of _reconnect_loop ends, and*)
(* a close has a timeout.  Nothing is assumed of Home Assistant.           *)
(***************************************************************************)
Fairness ==
    /\ WF_vars(TaskSteps)
    /\ WF_vars(CancelDelivered)
    /\ WF_vars(StopCloses)

FairSpec == Spec /\ Fairness

-----------------------------------------------------------------------------
\* Connected, subscribed, and every event that was sent has been handled.
Drained == at = "listening" /\ ws \in open /\ subscribed /\ inbox = <<>>

(***************************************************************************)
(* The runtime misses a change in two ways only: it came between snapshot  *)
(* and subscription, or the snapshot that would have told of it was        *)
(* refused.  Whatever else was lost with a connection, or came while there *)
(* was none, is made up for by the next snapshot (_connect_and_subscribe). *)
(***************************************************************************)
OnlyTwoGaps == Drained => stored = ha \/ ha \in failed \cup gap \cup missed

\* No connection, lost event or double snapshot puts an older state over a
\* newer one.
NeverGoesBack == [][stored' >= stored]_vars

\* A stop ends the task, although _reconnect_loop swallows a cancellation.
StopEndsTask == stopAt # "none" ~> at = "ended"

(***************************************************************************)
(* Once nothing fails any more, the task gets connected and stays so,      *)
(* unless its token is revoked or it is stopped: there is no failure from  *)
(* which it does not come back.                                            *)
(***************************************************************************)
GetsConnected ==
    [](steady => <>[](at \in {"listening", "handling"} \/ ~tokenValid \/ stopAt # "none"))
=============================================================================
