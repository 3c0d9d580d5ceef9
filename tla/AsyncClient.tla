----------------------------- MODULE AsyncClient -----------------------------
(***************************************************************************)
(* The asynchronous client, client/async.go.                                *)
(*                                                                          *)
(* Send puts an event into eventsChannel.  numRoutines sendRoutines take    *)
(* events out of it, each into a batch of its own, and hand a batch that is *)
(* full, or that the ticker finds not empty, to a new goroutine, a task,    *)
(* that runs sendEvents.  A task calls the server until the response lists  *)
(* no failed event or the retries are used up; what a response does not     *)
(* list counts as delivered.  GracefulStop waits on the WaitGroup wg, which *)
(* counts the events up to the point where they are in a batch, and the     *)
(* batches from their first event to the end of their task, and then closes *)
(* the connection.                                                          *)
(*                                                                          *)
(* A task has the name of the first event of its batch, which stands for    *)
(* the id of the request: an event is the first of one batch only.          *)
(***************************************************************************)
EXTENDS Integers, Sequences, FiniteSets, Functions

CONSTANTS
  Events,          \* the events of this run, each sent once
  Routines,        \* the numRoutines sendRoutines
  ChannelBuffer,   \* capacity of eventsChannel
  BatchSize,       \* batchSize; only the ticker flushes if it is 0
  MaxRetries,      \* maxRetries
  NoEvent          \* what a routine without an event holds

ASSUME ClientAssumption ==
  /\ IsFiniteSet(Events) /\ IsFiniteSet(Routines)
  /\ ChannelBuffer \in Nat \ {0}
  /\ BatchSize \in Nat
  /\ MaxRetries \in Nat
  /\ NoEvent \notin Events

VARIABLES
  caller,          \* the goroutine of the application that sends the event
  eventsChannel,
  routine,         \* where each sendRoutine is
  received,        \* the event it has just received
  batch,           \* its req.Events
  wg,              \* counter of the WaitGroup
  task,            \* where each task is
  req,             \* its req.Events
  retryCount,      \* its retryCount
  stop,            \* where GracefulStop is
  owed,            \* history: events sent before it was called
  acked,           \* history: events delivered as far as the client knows
  dropped,         \* history: events dropped due to max retries
  attempts         \* history: calls the event was part of

events == <<caller, eventsChannel, acked, dropped, attempts>>
routines == <<routine, received, batch>>
tasks == <<task, req, retryCount>>
stopping == <<stop, owed>>
vars == <<events, routines, wg, tasks, stopping>>

-----------------------------------------------------------------------------
Init ==
  /\ caller = [e \in Events |-> "idle"]
  /\ eventsChannel = << >>
  /\ routine = [r \in Routines |-> "select"]
  /\ received = [r \in Routines |-> NoEvent]
  /\ batch = [r \in Routines |-> << >>]
  /\ wg = 0
  /\ task = [e \in Events |-> "none"]
  /\ req = [e \in Events |-> << >>]
  /\ retryCount = [e \in Events |-> 0]
  /\ stop = "open"
  /\ owed = {} /\ acked = {} /\ dropped = {}
  /\ attempts = [e \in Events |-> 0]

\* A panic ends the process, and all its goroutines with it.
Alive == stop # "panicked"

\* wg.Done; when the counter becomes 0 it releases the waiter.
Done ==
  /\ wg' = wg - 1
  /\ stop' = IF wg = 1 /\ stop = "waiting" THEN "woken" ELSE stop
  /\ UNCHANGED owed

Add ==
  /\ wg' = wg + 1
  /\ UNCHANGED stopping

\* Events that Send has taken on, and those of them that have not ended.
Sent == {e \in Events : caller[e] # "idle"}
Pending == Sent \ (acked \cup dropped)

(* The application. *)

\* Mutant: send does not count the event.
SendUncounted(e) ==
  /\ Alive
  /\ caller[e] = "idle"
  /\ caller' = [caller EXCEPT ![e] = "sending"]
  /\ UNCHANGED <<eventsChannel, acked, dropped, attempts, routines, wg, tasks,
                 stopping>>

\* send: wg.Add(1) ...
Send(e) ==
  /\ Alive
  /\ caller[e] = "idle"
  /\ caller' = [caller EXCEPT ![e] = "sending"]
  /\ Add
  /\ UNCHANGED <<eventsChannel, acked, dropped, attempts, routines, tasks>>

Room == Len(eventsChannel) < ChannelBuffer

\* ... and a.eventsChannel <- event, which blocks while the channel is full.
Enqueue(e) ==
  /\ Alive
  /\ caller[e] = "sending"
  /\ Room
  /\ caller' = [caller EXCEPT ![e] = "returned"]
  /\ eventsChannel' = Append(eventsChannel, e)
  /\ UNCHANGED <<acked, dropped, attempts, routines, wg, tasks, stopping>>

(* A sendRoutine. *)

\* e := <-a.eventsChannel
Receive(r) ==
  /\ Alive
  /\ routine[r] = "select"
  /\ eventsChannel # << >>
  /\ routine' = [routine EXCEPT ![r] = "received"]
  /\ received' = [received EXCEPT ![r] = Head(eventsChannel)]
  /\ eventsChannel' = Tail(eventsChannel)
  /\ UNCHANGED <<caller, acked, dropped, attempts, batch, wg, tasks, stopping>>

\* Mutants: each event of a batch counts the batch, or none does.
EachEvent(r) == r \in Routines
NoEventOf(r) == r \notin Routines

First(r) == batch[r] = << >>

\* The first event of a batch counts the batch, wg.Add(1).
Register(r) ==
  /\ Alive
  /\ routine[r] = "received"
  /\ routine' = [routine EXCEPT ![r] = "registered"]
  /\ IF First(r) THEN Add ELSE UNCHANGED <<wg, stopping>>
  /\ UNCHANGED <<events, received, batch, tasks>>

\* Mutant: the routine goes on with the request it has handed to the task.
StartTaskShared(r, list) ==
  /\ task' = [task EXCEPT ![Head(list)] = "ready"]
  /\ req' = [req EXCEPT ![Head(list)] = list]
  /\ batch' = [batch EXCEPT ![r] = list]
  /\ UNCHANGED retryCount

\* The closure send: the batch goes to a task and the routine starts another.
StartTask(r, list) ==
  /\ task' = [task EXCEPT ![Head(list)] = "ready"]
  /\ req' = [req EXCEPT ![Head(list)] = list]
  /\ batch' = [batch EXCEPT ![r] = << >>]
  /\ UNCHANGED retryCount

\* Mutant: a batch is sent when it has outgrown batchSize.
Over(list) == Len(list) > BatchSize

Full(list) == Len(list) = BatchSize

\* wg.Done for the event, which joins the batch; a full batch is sent.
Batch(r) ==
  LET list == Append(batch[r], received[r]) IN
  /\ Alive
  /\ routine[r] = "registered"
  /\ routine' = [routine EXCEPT ![r] = "select"]
  /\ received' = [received EXCEPT ![r] = NoEvent]
  /\ Done
  /\ IF Full(list)
     THEN StartTask(r, list)
     ELSE /\ batch' = [batch EXCEPT ![r] = list]
          /\ UNCHANGED tasks
  /\ UNCHANGED events

\* Mutant: the ticker sends full batches only.
Filled(r) == Len(batch[r]) >= BatchSize /\ batch[r] # << >>

Lingering(r) == batch[r] # << >>

\* Mutant: a ticker that finds the batch empty ends the routine.
TickOrEnd(r) ==
  /\ Alive
  /\ routine[r] = "select"
  /\ IF Lingering(r)
     THEN StartTask(r, batch[r]) /\ UNCHANGED routine
     ELSE routine' = [routine EXCEPT ![r] = "ended"] /\ UNCHANGED <<batch, tasks>>
  /\ UNCHANGED <<events, received, wg, stopping>>

\* The ticker fires and finds events in the batch.
Tick(r) ==
  /\ Alive
  /\ routine[r] = "select"
  /\ Lingering(r)
  /\ StartTask(r, batch[r])
  /\ UNCHANGED <<events, routine, received, wg, stopping>>

(* A task: sendEvents. *)

\* Mutant: the last retry is not made.
OutOfRetriesEarly(id) == retryCount[id] >= MaxRetries

OutOfRetries(id) == retryCount[id] > MaxRetries

\* There are retries left: call the server.
Attempt(id) ==
  /\ Alive
  /\ task[id] = "ready"
  /\ ~OutOfRetries(id)
  /\ task' = [task EXCEPT ![id] = "calling"]
  /\ attempts' = [e \in Events |->
                    IF e \in Range(req[id]) THEN attempts[e] + 1
                                            ELSE attempts[e]]
  /\ UNCHANGED <<caller, eventsChannel, acked, dropped, routines, wg, req,
                 retryCount, stopping>>

\* Mutant: dropping the events forgets wg.Done.
GiveUpUncounted(id) ==
  /\ Alive
  /\ task[id] = "ready"
  /\ OutOfRetries(id)
  /\ task' = [task EXCEPT ![id] = "done"]
  /\ dropped' = dropped \cup Range(req[id])
  /\ UNCHANGED <<caller, eventsChannel, acked, attempts, routines, wg, req,
                 retryCount, stopping>>

\* There are none left: drop the events.
GiveUp(id) ==
  /\ Alive
  /\ task[id] = "ready"
  /\ OutOfRetries(id)
  /\ task' = [task EXCEPT ![id] = "done"]
  /\ dropped' = dropped \cup Range(req[id])
  /\ Done
  /\ UNCHANGED <<caller, eventsChannel, acked, attempts, routines, req,
                 retryCount>>

\* sendEvents calls itself, after a sleep, to send list once more.
Retry(id, list) ==
  /\ task' = [task EXCEPT ![id] = "ready"]
  /\ req' = [req EXCEPT ![id] = list]
  /\ retryCount' = [retryCount EXCEPT ![id] = @ + 1]

\* Mutant: wg.Done is deferred in sendEvents, so each retry runs it.
CallFailsDone(id) ==
  /\ Alive
  /\ task[id] = "calling"
  /\ Retry(id, req[id])
  /\ Done
  /\ UNCHANGED <<events, routines>>

\* The call fails, or its context has expired by the time it returns: even an
\* answer that lists no failure is then put aside.
CallFails(id) ==
  /\ Alive
  /\ task[id] = "calling"
  /\ Retry(id, req[id])
  /\ UNCHANGED <<events, routines, wg, stopping>>

\* The call returns with no failure index.
CallSucceeds(id) ==
  /\ Alive
  /\ task[id] = "calling"
  /\ stop # "closed"
  /\ task' = [task EXCEPT ![id] = "done"]
  /\ acked' = acked \cup Range(req[id])
  /\ Done
  /\ UNCHANGED <<caller, eventsChannel, dropped, attempts, routines, req,
                 retryCount>>

\* The failure indexes a response may carry: server/sender/kafka.go appends an
\* index at most once, in any order.
FailureIndexes(list) ==
  {s \in UNION {[1 .. n -> 1 .. Len(list)] : n \in 1 .. Len(list)} :
     IsInjective(s)}

\* The call returns and some events have failed: they alone are sent again.
CallReturnsFailures(id) ==
  \E indexes \in FailureIndexes(req[id]) :
    LET failedEvents == [i \in DOMAIN indexes |-> req[id][indexes[i]]] IN
    /\ Alive
    /\ task[id] = "calling"
    /\ stop # "closed"
    /\ Retry(id, failedEvents)
    /\ acked' = acked \cup (Range(req[id]) \ Range(failedEvents))
    /\ UNCHANGED <<caller, eventsChannel, dropped, attempts, routines, wg,
                   stopping>>

(* GracefulStop. *)

GracefulStop ==
  /\ stop = "open"
  /\ stop' = IF wg = 0 THEN "closing" ELSE "waiting"
  /\ owed' = Sent
  /\ UNCHANGED <<events, routines, wg, tasks>>

\* The waiter runs again.  Wait panics if the counter is not 0 any more.
Resume ==
  /\ stop = "woken"
  /\ stop' = IF wg = 0 THEN "closing" ELSE "panicked"
  /\ UNCHANGED <<events, routines, wg, tasks, owed>>

\* conn.Close fails the calls that are in flight and those to come.
Close ==
  /\ stop = "closing"
  /\ stop' = "closed"
  /\ UNCHANGED <<events, routines, wg, tasks, owed>>

-----------------------------------------------------------------------------
SendRoutine(r) == Receive(r) \/ Register(r) \/ Batch(r)
CallEnds(id) ==
  CallFails(id) \/ CallSucceeds(id) \/ CallReturnsFailures(id)

Next ==
  \/ \E e \in Events : Send(e) \/ Enqueue(e)
  \/ \E r \in Routines : SendRoutine(r) \/ Tick(r)
  \/ \E id \in Events : Attempt(id) \/ GiveUp(id) \/ CallEnds(id)
  \/ GracefulStop \/ Resume \/ Close

Spec == Init /\ [][Next]_vars

(* The Go scheduler runs every goroutine, the ticker of a routine never     *)
(* stops, and a call to the server ends by the timeout of its context.      *)
Fairness ==
  /\ \A e \in Events : WF_vars(Enqueue(e))
  /\ \A r \in Routines : WF_vars(SendRoutine(r)) /\ WF_vars(Tick(r))
  /\ \A id \in Events :
       /\ WF_vars(Attempt(id) \/ GiveUp(id))
       /\ WF_vars(CallEnds(id))
  /\ WF_vars(Resume) /\ WF_vars(Close)

FairSpec == Spec /\ Fairness

-----------------------------------------------------------------------------
(* Properties.                                                              *)

\* The variables keep their types; in particular no Done makes the counter of
\* the WaitGroup negative, which would panic, and the channel is never over its
\* capacity.
TypeOK ==
  /\ caller \in [Events -> {"idle", "sending", "returned"}]
  /\ eventsChannel \in Seq(Events) /\ Len(eventsChannel) <= ChannelBuffer
  /\ routine \in [Routines -> {"select", "received", "registered"}]
  /\ received \in [Routines -> Events \cup {NoEvent}]
  /\ batch \in [Routines -> Seq(Events)]
  /\ wg \in Nat
  /\ task \in [Events -> {"none", "ready", "calling", "done"}]
  /\ req \in [Events -> Seq(Events)]
  /\ retryCount \in [Events -> 0 .. MaxRetries + 1]
  /\ stop \in {"open", "waiting", "woken", "closing", "closed", "panicked"}
  /\ owed \in SUBSET Events
  /\ acked \in SUBSET Events
  /\ dropped \in SUBSET Events
  /\ attempts \in [Events -> 0 .. MaxRetries + 1]

Sending == {e \in Events : caller[e] = "sending"}
Busy == {r \in Routines : routine[r] # "select"}
Counted == {r \in Routines : batch[r] # << >> \/ routine[r] = "registered"}
Live == {id \in Events : task[id] \in {"ready", "calling"}}

\* The WaitGroup counts the events that are not in a batch yet and, once each,
\* the batches that are being filled or sent: whatever the interleaving of
\* senders, routines and tasks, GracefulStop is neither released too soon nor
\* held for ever by a count that is left over.
WgAccounts ==
  wg = Cardinality(Sending) + Len(eventsChannel) + Cardinality(Busy)
       + Cardinality(Counted) + Cardinality(Live)

\* Where an event that Send has taken on can be.
InSet(place, set, e) == IF e \in set THEN {<<place, 0>>} ELSE {}
AtSlots(place, list, e) == {<<place, i>> : i \in {n \in DOMAIN list : list[n] = e}}
InHand(e) == {<<"received", r>> : r \in {x \in Routines : received[x] = e}}
InBatches(e) == UNION {AtSlots(<<"batch", r>>, batch[r], e) : r \in Routines}
InTasks(e) == UNION {AtSlots(<<"task", id>>, req[id], e) : id \in Live}

Places(e) ==
  InSet("sending", Sending, e) \cup AtSlots("channel", eventsChannel, e)
  \cup InHand(e) \cup InBatches(e) \cup InTasks(e)
  \cup InSet("acked", acked, e) \cup InSet("dropped", dropped, e)

\* No event is lost or duplicated on its way through the channel, the routines,
\* the batches and the retries: it is in one place, and in one slot of it.
ExactlyOnePlace ==
  \A e \in Events :
    Cardinality(Places(e)) = IF caller[e] = "idle" THEN 0 ELSE 1

\* A request always has an event, which sendEvents and the interceptor index
\* without a check, and no more events than batchSize.
RequestFits ==
  \A id \in Live :
    /\ req[id] # << >>
    /\ BatchSize > 0 => Len(req[id]) <= BatchSize

\* GracefulStop closes the connection under no event that Send had taken on
\* before it was called.
StopWaits == stop \in {"closing", "closed"} => owed \cap Pending = {}

\* GracefulStop does not panic: the counter does not leave 0 again between the
\* Done that releases the waiter and the moment it runs.
NoPanic == stop # "panicked"

\* The application has sent an event since it called GracefulStop.
SentLate == ~(Sent \subseteq owed)

\* GracefulStop panics over a Send that came after it only: the goroutines of the
\* client, which count a batch before they take its first event off, never do
\* it.
PanicBySendOnly == stop = "panicked" => SentLate

\* The client keeps the promise of the abstract delivery.
Stop == CASE stop = "open" -> "open"
          [] stop = "closed" -> "closed"
          [] OTHER -> "waiting"
Promise == INSTANCE AsyncDelivery WITH pending <- Pending, stop <- Stop
KeepsPromise == Promise!Spec

\* A Send that waits for room in the channel returns.
SendReturns ==
  \A e \in Events : caller[e] = "sending" ~> caller[e] = "returned" \/ ~Alive

\* Every event ends acknowledged or dropped, the last ones of a batch that
\* never fills up included.
EventsEnd ==
  \A e \in Events : caller[e] = "sending" ~> e \in acked \cup dropped \/ ~Alive

\* GracefulStop comes to an end.
StopEnds == stop = "waiting" ~> stop = "closed" \/ ~Alive
=============================================================================
