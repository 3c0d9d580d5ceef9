---------------------------- MODULE ClientMetrics ----------------------------
(***************************************************************************)
(* The events counter of the asynchronous client against what becomes of    *)
(* the events: metricsReporterInterceptor, which wraps each call, counts ok *)
(* and failed events, sendEvents counts the dropped ones.                   *)
(*                                                                          *)
(* The interceptor counts when the call returns; sendEvents looks at the    *)
(* context only afterwards, and puts an answer aside that came too late.    *)
(* Both know the topic of a request by its first event.                     *)
(*                                                                          *)
(* A request is a sequence of events, as the order decides on the topic.    *)
(* The answer lists failed events, each once, in any order: KafkaSender     *)
(* shows that it is so, for the indexes that stand for them.                *)
(***************************************************************************)
EXTENDS Integers, Sequences, SequencesExt

CONSTANTS
  Topics,
  Batches,      \* the batches sent, each a sequence of different events
  TopicOf,      \* the topic of each event
  MaxRetries    \* maxRetries

Events == UNION {Range(b) : b \in Batches}

ASSUME MetricsAssumption ==
  /\ MaxRetries \in Nat
  /\ TopicOf \in [Events -> Topics]
  /\ IsFiniteSet(Topics) /\ IsFiniteSet(Batches)
  /\ \A b \in Batches : b \in Seq(Range(b)) /\ b # <<>> /\ IsInjective(b)
  /\ \A b, d \in Batches : b = d \/ Range(b) \cap Range(d) = {}

Statuses == {"ok", "failed", "dropped"}

VARIABLES
  task,         \* the goroutine of each batch
  req,          \* req.Events
  retryCount,
  answer,       \* the failed events that the answer to the last call lists
  counter,      \* AsyncClientEventsCounter
  acked,        \* history: events that sendEvents is done with
  dropped,      \* history: events that it gave up
  late,         \* history: events counted ok in answers that were put aside
  tries         \* history: events in all calls that have returned

vars == <<task, req, retryCount, answer, counter, acked, dropped, late, tries>>

Init ==
  /\ task = [b \in Batches |-> "ready"]
  /\ req = [b \in Batches |-> b]
  /\ retryCount = [b \in Batches |-> 0]
  /\ answer = [b \in Batches |-> <<>>]
  /\ counter = [l \in Topics \X Statuses |-> 0]
  /\ acked = {} /\ dropped = {} /\ late = 0 /\ tries = 0

\* A mutant: one topic for all, such as the topic of the client.
ClientTopic(b) == CHOOSE topic \in Topics : TRUE

\* The topic that a request is counted under.
topicName(b) == TopicOf[Head(req[b])]

\* Counter.Add, for the status given.
Add(b, status, n) == [counter EXCEPT ![<<topicName(b), status>>] = @ + n]

\* A mutant: one retry too many.
OutOfRetriesLate(b) == retryCount[b] > MaxRetries + 1

OutOfRetries(b) == retryCount[b] > MaxRetries

\* sendEvents calls the server.
Call(b) ==
  /\ task[b] = "ready"
  /\ ~ OutOfRetries(b)
  /\ task' = [task EXCEPT ![b] = "calling"]
  /\ UNCHANGED <<req, retryCount, answer, counter, acked, dropped, late, tries>>

\* A mutant: a drop counts as one, as Inc would.
DropOne(b) == 1

\* The events that a drop counts.
DropCount(b) == Len(req[b])

\* dropped events due to max retries
GiveUp(b) ==
  /\ task[b] = "ready"
  /\ OutOfRetries(b)
  /\ counter' = Add(b, "dropped", DropCount(b))
  /\ task' = [task EXCEPT ![b] = "done"]
  /\ dropped' = dropped \cup Range(req[b])
  /\ UNCHANGED <<req, retryCount, answer, acked, late, tries>>

\* The invoker returns an error: all events of the call count as failed.
InvokerFails(b) ==
  /\ task[b] = "calling"
  /\ counter' = Add(b, "failed", Len(req[b]))
  /\ task' = [task EXCEPT ![b] = "error"]
  /\ tries' = tries + Len(req[b])
  /\ UNCHANGED <<req, retryCount, answer, acked, dropped, late>>

\* Mutants: failed events are counted as ok too; failures are not counted.
OkAll(b, list) == Len(req[b])
FailedNone(b, list) == 0

OkCount(b, list) == Len(req[b]) - Len(list)
FailedCount(b, list) == Len(list)

\* The lists of failures that an answer may hold, in the order of the server.
Answers(b) == UNION {SetToSeqs(s) : s \in SUBSET Range(req[b])}

\* The invoker returns an answer, perhaps after the timeout.
InvokerReturns(b) ==
  /\ task[b] = "calling"
  /\ \E list \in Answers(b) :
       /\ answer' = [answer EXCEPT ![b] = list]
       /\ counter' = [counter EXCEPT
            ![<<topicName(b), "failed">>] = @ + FailedCount(b, list),
            ![<<topicName(b), "ok">>] = @ + OkCount(b, list)]
  /\ task' = [task EXCEPT ![b] = "answered"]
  /\ tries' = tries + Len(req[b])
  /\ UNCHANGED <<req, retryCount, acked, dropped, late>>

\* sendEvents sees the error and calls again with the same events.
RetryAll(b) ==
  /\ task[b] = "error"
  /\ task' = [task EXCEPT ![b] = "ready"]
  /\ retryCount' = [retryCount EXCEPT ![b] = @ + 1]
  /\ UNCHANGED <<req, answer, counter, acked, dropped, late, tries>>

\* The context has expired: the answer is put aside, although it is counted.
PutAside(b) ==
  /\ task[b] = "answered"
  /\ late' = late + OkCount(b, answer[b])
  /\ answer' = [answer EXCEPT ![b] = <<>>]
  /\ task' = [task EXCEPT ![b] = "ready"]
  /\ retryCount' = [retryCount EXCEPT ![b] = @ + 1]
  /\ UNCHANGED <<req, counter, acked, dropped, tries>>

\* The answer came in time: the failed events are sent again, in its order.
UseAnswer(b) ==
  /\ task[b] = "answered"
  /\ acked' = acked \cup (Range(req[b]) \ Range(answer[b]))
  /\ answer' = [answer EXCEPT ![b] = <<>>]
  /\ IF answer[b] = <<>>
     THEN /\ task' = [task EXCEPT ![b] = "done"]
          /\ UNCHANGED <<req, retryCount>>
     ELSE /\ task' = [task EXCEPT ![b] = "ready"]
          /\ req' = [req EXCEPT ![b] = answer[b]]
          /\ retryCount' = [retryCount EXCEPT ![b] = @ + 1]
  /\ UNCHANGED <<counter, dropped, late, tries>>

Next ==
  \E b \in Batches :
    \/ Call(b) \/ GiveUp(b) \/ InvokerFails(b) \/ InvokerReturns(b)
    \/ RetryAll(b) \/ PutAside(b) \/ UseAnswer(b)

Spec == Init /\ [][Next]_vars

-----------------------------------------------------------------------------
(* Properties.                                                              *)

Total(status) == SumFunction([topic \in Topics |-> counter[<<topic, status>>]])

\* The variables keep their types; no counter goes down below zero.
TypeOK ==
  /\ task \in [Batches -> {"ready", "calling", "error", "answered", "done"}]
  /\ {req, answer} \subseteq [Batches -> Seq(Events)]
  /\ \A b \in Batches : req[b] \in Seq(Range(b)) /\ req[b] # <<>>
  /\ \A b \in Batches : answer[b] \in Seq(Range(req[b]))
  /\ retryCount \in [Batches -> 0 .. MaxRetries + 1]
  /\ counter \in [Topics \X Statuses -> Nat]
  /\ acked \in SUBSET Events /\ dropped \in SUBSET Events
  /\ late \in Nat /\ tries \in Nat

\* The dropped events are counted, each once: acked and dropped are disjoint.
DroppedIsExact ==
  /\ Total("dropped") = Cardinality(dropped)
  /\ acked \cap dropped = {}

\* The ok counter exceeds the events delivered by exactly the events of answers
\* put aside, which are sent again and counted again, and of those in hand.
OkExceedsByLate ==
  Total("ok") = Cardinality(acked) + late
    + SumFunction([b \in Batches |->
        IF task[b] = "answered" THEN Len(req[b]) - Len(answer[b]) ELSE 0])

\* Each event of each call is counted once, as ok or as failed.
EveryTryCounted == Total("ok") + Total("failed") = tries

\* "the count of events broken by topic and status": the counter of a topic is
\* that of its events, dropped, and delivered when no answer is late or in hand.
CountsTopic(topic) ==
  /\ counter[<<topic, "dropped">>] = Cardinality({e \in dropped : TopicOf[e] = topic})
  /\ late = 0 /\ (\A b \in Batches : task[b] # "answered") =>
       counter[<<topic, "ok">>] = Cardinality({e \in acked : TopicOf[e] = topic})

\* As the comment has it.
CountsByTopic == \A topic \in Topics : CountsTopic(topic)

\* The events of the topic share no batch with events of other topics.
Pure(topic) ==
  \A b \in Batches : \A e, f \in Range(b) :
    TopicOf[e] = topic => TopicOf[f] = topic

\* What the comment has is true of those topics.
CountsPureTopics == \A topic \in Topics : Pure(topic) => CountsTopic(topic)
=============================================================================
