--------------------------- MODULE HaRuntimeProofs ---------------------------
(***************************************************************************)
(* The Home Assistant runtime for every number of sockets and of states.   *)
(* InOrder says that what is on its way to the table is never older than   *)
(* what is in it; UpToDate says where the entity's newest state is while   *)
(* the runtime is subscribed.                                              *)
(***************************************************************************)
EXTENDS HaRuntime, SequenceTheorems, TLAPS

Place == {"new", "dialing", "authenticating", "loading", "replaying", "subscribing",
          "listening", "handling", "sleeping", "reclosing", "finishing", "ended"}

Types ==
    /\ at \in Place
    /\ ws \in Socket \cup {NoSocket} /\ closing \in Socket \cup {NoSocket}
    /\ open \subseteq Socket
    /\ held \in Nat /\ stored \in Nat /\ ha \in Nat
    /\ ha > 0
    /\ inbox \in Seq(Nat)
    /\ subscribed \in BOOLEAN

\* A connection has no subscription, and so no events, before it asks for one.
SubscribesLast == at \in Handshake => inbox = <<>> /\ ~subscribed

\* What is on its way to the table: nothing in it is older than what comes
\* before it, nothing is newer than the entity.
InOrder ==
    /\ stored <= held /\ held <= ha
    /\ \A i \in 1 .. Len(inbox) : held <= inbox[i] /\ inbox[i] <= ha
    /\ \A i, j \in 1 .. Len(inbox) : i <= j => inbox[i] <= inbox[j]

\* The entity's newest state has been dealt with.
DealtWith == stored = ha \/ ha \in failed \cup gap \cup missed

\* Where the newest state is: in the snapshot, in the gap after it or in the snapshot
\* that was refused, then at the end of what waits on the subscription, in the
\* handler, or dealt with.
UpToDate ==
    /\ at = "replaying" => held = ha \/ ha \in gap \cup missed
    /\ at = "subscribing" => DealtWith
    /\ ws \in open /\ subscribed =>
          /\ at \in {"listening", "handling"} /\ inbox # <<>> => inbox[Len(inbox)] = ha
          /\ at = "handling" /\ inbox = <<>> => held = ha
          /\ at = "listening" /\ inbox = <<>> => DealtWith

Inv == Types /\ SubscribesLast /\ InOrder /\ UpToDate

-----------------------------------------------------------------------------
(***************************************************************************)
(* Queues.                                                                 *)
(***************************************************************************)
LEMMA EmptyQueue == <<>> \in Seq(Nat) /\ Len(<<>>) = 0
  OBVIOUS

LEMMA QueueGrows ==
  ASSUME NEW q \in Seq(Nat), NEW n \in Nat
  PROVE  /\ Append(q, n) \in Seq(Nat) /\ Append(q, n) # <<>>
         /\ Len(Append(q, n)) = Len(q) + 1 /\ Len(q) \in Nat
         /\ \A i \in 1 .. Len(q) : Append(q, n)[i] = q[i]
         /\ Append(q, n)[Len(q) + 1] = n
  OBVIOUS

LEMMA QueueShrinks ==
  ASSUME NEW q \in Seq(Nat), q # <<>>
  PROVE  /\ Head(q) \in Nat /\ Head(q) = q[1] /\ Tail(q) \in Seq(Nat)
         /\ Len(q) \in Nat /\ Len(q) > 0 /\ Len(Tail(q)) = Len(q) - 1
         /\ \A i \in 1 .. Len(Tail(q)) : Tail(q)[i] = q[i + 1]
         /\ Tail(q) = <<>> => Len(q) = 1
         /\ \A i \in 1 .. Len(q) : q[i] \in Nat
  <1>1. Len(q) \in Nat /\ Len(q) > 0
    BY EmptySeq, LenProperties
  <1>2. \A i \in 1 .. Len(q) : q[i] \in Nat
    BY ElementOfSeq
  <1>3. /\ Head(q) \in Nat /\ Tail(q) \in Seq(Nat) /\ Len(Tail(q)) = Len(q) - 1
        /\ \A i \in 1 .. Len(Tail(q)) : Tail(q)[i] = q[i + 1]
    BY HeadTailProperties
  <1>4. Head(q) = q[1]
    OBVIOUS
  <1>5. Tail(q) = <<>> => Len(Tail(q)) = 0
    BY EmptyQueue
  <1>6. QED
    BY <1>1, <1>2, <1>3, <1>4, <1>5

-----------------------------------------------------------------------------
\* Nothing waits in an empty queue, so nothing in it is out of order.
LEMMA NothingWaits ==
  ASSUME inbox = <<>>
  PROVE  /\ inbox \in Seq(Nat) /\ Len(inbox) = 0
         /\ 1 .. Len(inbox) = {}
  BY EmptyQueue

LEMMA InitInv == Init => Inv
  <1> SUFFICES ASSUME Init
               PROVE  Inv
    OBVIOUS
  <1>1. inbox \in Seq(Nat) /\ 1 .. Len(inbox) = {}
    BY NothingWaits DEF Init
  <1>2. Types
    <2>1. ha \in Nat /\ ha > 0 /\ held \in Nat /\ stored \in Nat
      BY DEF Init
    <2>2. QED
      BY <1>1, <2>1 DEF Init, Types, Place
  <1>3. SubscribesLast /\ UpToDate
    BY HaRuntimeAssumption DEF Init, SubscribesLast, Handshake, UpToDate
  <1>4. InOrder
    BY <1>1 DEF Init, InOrder
  <1>5. QED
    BY <1>2, <1>3, <1>4 DEF Inv

\* A step of the task that neither handles nor reads an event, nor subscribes.
LEMMA TaskMoves ==
  ASSUME Inv, Start \/ Dialed \/ ConnectionFails \/ UnexpectedError \/ AuthOk \/ AuthInvalid
              \/ Wakes \/ Closes \/ CancelDelivered
  PROVE  Inv'
  <1> USE HaRuntimeAssumption, EmptyQueue
          DEF Inv, Types, Place, Handshake, SubscribesLast, InOrder, UpToDate, DealtWith,
              At, stopping, home, history
  <1>1. CASE Start
    BY <1>1 DEF Start
  <1>2. CASE Dialed
    <2>1. 1 .. Len(inbox') = {} /\ inbox' \in Seq(Nat)
      BY <1>2, EmptyQueue DEF Dialed
    <2>2. Types' /\ SubscribesLast' /\ UpToDate'
      BY <1>2, <2>1 DEF Dialed
    <2>3. InOrder'
      BY <1>2, <2>1 DEF Dialed
    <2>4. QED
      BY <2>2, <2>3
  <1>3. CASE ConnectionFails \/ UnexpectedError
    BY <1>3 DEF ConnectionFails, UnexpectedError, Retries
  <1>4. CASE AuthOk
    BY <1>4 DEF AuthOk, Connected
  <1>5. CASE AuthInvalid
    BY <1>5 DEF AuthInvalid, Connected
  <1>6. CASE Wakes
    BY <1>6 DEF Wakes
  <1>7. CASE Closes
    BY <1>7 DEF Closes
  <1>8. CASE CancelDelivered
    BY <1>8 DEF CancelDelivered
  <1>9. QED
    BY <1>1, <1>2, <1>3, <1>4, <1>5, <1>6, <1>7, <1>8

\* The snapshot, its replay, the subscription and the events.
LEMMA StatesMove ==
  ASSUME Inv, SnapshotTaken \/ SnapshotRefused \/ Replayed \/ Subscribed \/ Receives \/ Handled
  PROVE  Inv'
  <1> USE HaRuntimeAssumption, EmptyQueue
          DEF Inv, Types, Place, Handshake, SubscribesLast, InOrder, UpToDate, DealtWith,
              At, stopping, home, history
  <1>1. CASE SnapshotTaken
    BY <1>1 DEF SnapshotTaken, Connected
  <1>6. CASE SnapshotRefused
    BY <1>6 DEF SnapshotRefused, Connected
  <1>2. CASE Replayed
    BY <1>2 DEF Replayed, Handles
  <1>3. CASE Subscribed
    BY <1>3 DEF Subscribed, Connected, NextMessage
  <1>4. CASE Receives
    <2>1. inbox \in Seq(Nat) /\ inbox # <<>>
      BY <1>4 DEF Receives
    <2>2. QED
      BY <1>4, <2>1, QueueShrinks DEF Receives
  <1>5. CASE Handled
    BY <1>5 DEF Handled, Handles, NextMessage
  <1>7. QED
    BY <1>1, <1>2, <1>3, <1>4, <1>5, <1>6

\* stop(), and Home Assistant.
LEMMA OthersMove ==
  ASSUME Inv, \/ StopBegins \/ StopCloses \/ Changes \/ TokenRevoked \/ Settles
              \/ \E s \in Socket : Drops(s)
  PROVE  Inv'
  <1> USE HaRuntimeAssumption
          DEF Inv, Types, Place, Handshake, SubscribesLast, InOrder, UpToDate, DealtWith,
              task, stopping, history
  <1>1. CASE StopBegins
    BY <1>1 DEF StopBegins, StopReturns, home
  <1>2. CASE StopCloses
    BY <1>2 DEF StopCloses, StopReturns
  <1>3. CASE Changes
    BY <1>3, QueueGrows DEF Changes
  <1>4. CASE TokenRevoked \/ Settles
    BY <1>4 DEF TokenRevoked, Settles
  <1>5. CASE \E s \in Socket : Drops(s)
    BY <1>5 DEF Drops
  <1>6. QED
    BY <1>1, <1>2, <1>3, <1>4, <1>5

LEMMA NextInv == Inv /\ [Next]_vars => Inv'
  <1> SUFFICES ASSUME Inv, [Next]_vars
               PROVE  Inv'
    OBVIOUS
  <1>1. CASE TaskSteps
    BY <1>1, TaskMoves, StatesMove DEF TaskSteps
  <1>2. CASE UNCHANGED vars
    BY <1>2 DEF Inv, Types, SubscribesLast, InOrder, UpToDate, DealtWith, vars, task,
                stopping, home, history
  <1>3. QED
    BY <1>1, <1>2, TaskMoves, OthersMove DEF Next, Finished

LEMMA InvHolds == Spec => []Inv
  BY InitInv, NextInv, PTL DEF Spec

(***************************************************************************)
(* Whatever was lost with a connection or came while there was none is     *)
(* made up for by the next snapshot: on a live subscription with nothing   *)
(* waiting, the table holds the entity's state, unless its handler failed, *)
(* it came between the snapshot and the subscription, or that snapshot was *)
(* refused (start, _connect_and_subscribe, _event_loop).  By UpToDate.     *)
(***************************************************************************)
THEOREM NothingElseIsMissed == Spec => []OnlyTwoGaps
  <1>1. Inv => OnlyTwoGaps
    BY DEF Inv, UpToDate, DealtWith, OnlyTwoGaps, Drained
  <1>2. QED
    BY <1>1, InvHolds, PTL

(***************************************************************************)
(* No step of the task, of stop() or of Home Assistant puts an older state *)
(* over a newer one, across any number of connections.  By InOrder: what   *)
(* is handled next is never older than what has been stored.               *)
(***************************************************************************)
THEOREM StatesOnlyAdvance == Spec => NeverGoesBack
  <1>1. Inv /\ [Next]_vars => [stored' >= stored]_vars
    <2> SUFFICES ASSUME Inv, Next
                 PROVE  stored' >= stored
      OBVIOUS
    <2>1. stored \in Nat /\ held \in Nat
      BY DEF Inv, Types
    <2>2. stored <= held
      BY DEF Inv, InOrder
    <2>3. CASE Replayed \/ Handled
      BY <2>1, <2>2, <2>3 DEF Replayed, Handled, Handles, At
    <2>4. stored' = stored \/ Replayed \/ Handled
      <3>1. CASE TaskSteps
        BY <3>1 DEF TaskSteps, Start, Dialed, ConnectionFails, UnexpectedError, Retries, AuthOk,
                    AuthInvalid, SnapshotTaken, SnapshotRefused, Subscribed,
                    Receives, Wakes, Closes
      <3>2. CASE ~TaskSteps
        BY <3>2 DEF Next, CancelDelivered, StopBegins, StopCloses, Changes, Drops, TokenRevoked,
                    Settles, Finished, vars, task
      <3>3. QED
        BY <3>1, <3>2
    <2>5. QED
      BY <2>1, <2>3, <2>4
  <1>2. QED
    BY <1>1, InvHolds, PTL DEF Spec, NeverGoesBack
=============================================================================
