# EventsGateway in TLA+

A verification development for EventsGateway (`src/`): a client library that
sends analytics events over gRPC to a server, which produces each of them to a
Kafka topic. The modules model the parts of the system in which goroutines,
messages and failures meet; TLC checks them on small instances, and TLAPS
proves the main results for every size.

Line numbers below are those of the source files under `src/`.

## 1. The system

| part | code | state it keeps | operations |
| --- | --- | --- | --- |
| client facade | `client/client.go` | topic, address, the client it wraps | New, Send, SendToTopic, SendAtTime, GracefulStop |
| asynchronous client | `client/async.go` | eventsChannel, the batch of each sendRoutine, a WaitGroup, requests being sent | send, sendRoutine, sendEvents, GracefulStop |
| synchronous client | `client/sync.go` | a connection | send, GracefulStop |
| client metrics | `metrics/metrics.go`, the interceptors | an events counter, a gauge, a histogram | registration, updates |
| gRPC handlers | `server/app/server.go` | none | SendEvent, SendEvents |
| Kafka sender | `server/sender/kafka.go` | for each call: goroutines, a WaitGroup, failureIndexes | SendEvents, SendEvent |
| Kafka forwarder | `server/forwarder/kafka.go` | sarama's sync producer | Produce |
| server life cycle | `server/app/app.go`, `server/cmd/start.go` | listener, grpcServer, two channels | NewApp, Run, interceptor |
| server metrics | `server/metrics/metrics.go` | histograms, an HTTP server | StartServer, updates |
| load test | `tools/loadtest.go`, `tools/runner.go` | runners, a WaitGroup, counters | NewLoadTest, Run, run |
| producer tool | `tools/producer.go` | a client | Run |

How they interact:

    application --Send--> client facade --> asynchronous or synchronous client
       asynchronous: eventsChannel --> sendRoutines --> a goroutine per batch
    client --gRPC (timeout; asynchronous: retries)--> handlers
    handlers --> Kafka sender: a goroutine per event --> forwarder --> Kafka
    failure indexes go back to the client, which sends those events again
    signals, Serve and the metrics server decide on the end of the server

What is hard, and what makes each part correct:

* **Asynchronous client.** Callers, routines, tasks and GracefulStop share a
  channel and one WaitGroup. An event must be in one place at all times; the
  WaitGroup must count what is pending, neither less (GracefulStop would close
  the connection under an event) nor more (it would never return); the last
  events of a batch that never fills up must be sent; retries must be counted
  right; and what a partial failure leaves must be exactly what is sent again.
* **Kafka sender.** The goroutines of a call append to one slice without a lock.
  What the race can do to the response, and what it cannot, decides on what the
  client takes for delivered.
* **The whole path.** Calls are lost, late, or answered after the client has
  given them up; the server crashes in the middle of a batch; Kafka may hold an
  event whose produce failed. Losses and duplicates must have the causes that
  the documentation admits.
* **Server life cycle.** Signals, a failing listener, the metrics server,
  connections and the calls on them come in any order, and calls go on to arrive
  while the server stops; none of them may be cut by the graceful stop, and the
  process must end. A request without an event panics the interceptor.
* **Start-up.** New runs half way before it fails, on a viper configuration and
  a Prometheus registry that other clients have used: what a client gets must
  not depend on them. A server must not take calls before its parts are there.
  Settings are not checked, and some of them panic long after they were read.
* **Tools.** Runners share a configuration in which each sets its own topic, and
  a WaitGroup that none of them releases.
* **Metrics.** The gauge is set by several routines in several steps. Counters are
  updated by an interceptor that returns before the client decides whether to use
  the answer.

`PROJECT.json` lists these hazards one by one, at their lines, with the
properties that would catch them.

## 2. Modules

| module | what it is |
| --- | --- |
| `AsyncDelivery` | what the asynchronous client promises to the application |
| `AsyncClient` | the asynchronous client, shown to keep `AsyncDelivery` |
| `BatchSend` | what a call of `Sender.SendEvents` promises to the server |
| `KafkaSender` | that call in detail, shown to keep `BatchSend` |
| `EventsGateway` | clients, network, server and Kafka together |
| `ServerApp` | the life of a server process, from the start command to its end |
| `ClientStart` | New and the constructors of both clients on a shared configuration and registry |
| `Tools` | the programs around the client, composed with `ClientStart`: an application, the producer, the load test |
| `ClientMetrics` | the events counter against what becomes of the events |
| `BufferGauge` | the gauge against the length of the channel |
| `MC...` | instances for TLC: model values and small sets |
| `KafkaSenderProofs`, `AsyncClientProofs`, `EventsGatewayProofs`, `ServerAppProofs`, `ToolsProofs`, `ClientMetricsProofs` | theorems |
| `SumTheorems` | what the sum of a function over a finite set is, for `ClientMetricsProofs` |

The two abstract specifications are the seams of the composition.
`EventsGateway` models a handler by what `BatchSend` promises (its `Replies`)
and a task by what `AsyncDelivery` describes: a set of events that is tried
`MaxRetries + 1` times, from which each response takes the events it does not
list. `KafkaSender` and `AsyncClient` justify those abstractions, on the runs and
by proof.

Some operators are marked as mutants in a comment. They are small plausible
bugs, next to the definition they would replace; each property of a passing run
is violated under at least one of them (`PROJECT.json`, "mutants"), so that no
property holds for lack of content.

### AsyncClient

| state or action | code |
| --- | --- |
| `caller`, `Send`, `Enqueue` | `send`: wg.Add (190), then the channel (191), which blocks while it is full |
| `eventsChannel` | the buffered channel, FIFO |
| `routine`, `received`, `batch` | a sendRoutine between the receive (213), the Add for the first event (216), and Done with append (219-223) |
| `Tick` | the ticker (224) finds a batch that is not empty |
| `StartTask` | the closure `send` (202): the request goes to a goroutine, the routine starts a new one |
| `task`, `req`, `retryCount` | a goroutine in `sendEvents` (232) |
| `Attempt`, `GiveUp` | the call (255), or the drop when retries are used up (241) |
| `CallFails` | an error, or the context has expired by the time the call returns (256) |
| `CallSucceeds`, `CallReturnsFailures` | the response without and with failure indexes (265) |
| `wg`, `Done`, `Add` | the WaitGroup |
| `stop`, `GracefulStop`, `Resume`, `Close` | Wait (283) and Close (284) |

A step is one operation on shared state, with the local work that follows.
Between the Done that releases Wait and the moment the waiter runs again other
goroutines take steps: that is why `stop` has the states "waiting", "woken" and
"closing". `Resume` panics if the counter is not 0, as `sync.WaitGroup` does.
`owed`, `acked`, `dropped` and `attempts` are history.

Abstractions: events have an identity and no content; a task is named after the
first event of its batch; sleeps and timeouts may end at any time, so that
`CallFails` is possible whenever a call is under way. The application may call
Send at any time, before GracefulStop, while it waits and after it; `owed` are the
events it had sent by then. An unbuffered channel (`channelBuffer` 0) is not
modelled; the client that unit tests inject is in `ClientStart`.

### KafkaSender

One call, `N` events. Each goroutine goes from "sending" through the outcome of
SendEvent (`Reject`, `ProduceOk`, `ProduceErr`) to "append" and "store", or to
"finish", and ends with wg.Done. `append` (line 61) is a load of the length and two
stores, of the new length and of the element, which other goroutines may see in
either order: the outcomes that a build can produce for this data race, as long
as the array is not moved. `SlotFits` shows that it is not. `ProduceErr` may
leave the event in Kafka: the acknowledgement may be what was lost.

### EventsGateway

A request is a batch of the asynchronous client, retried up to `MaxRetries`
times, or one Send of the synchronous client, not retried. `<<t, n>>` is the
n-th call of request `t`. A call goes through "sent", "handling" and "answered";
it may be lost on both ways, and a `Crash` loses all calls that are handled. The
client may stop waiting at any time (`CallFails`) while the call goes on, as the
server's Produce does not look at the context. `stored[c]` are the events that
call `c` has put into Kafka, so that copies are counted by call. `Produce` puts
one copy there: that is so for `kafka.producer.retry.max` 0, the default
(forwarder 35 and 40). With retries of its own sarama may append a message twice in
one Produce, and `SyncOnce` is no promise then.

### ServerApp

The start command (start.go 43-57) goes from place to place (`main`), and each
step sets parts up or ends the process: NewApp with tracing (`Configure`,
app.go 85-113) and the Kafka forwarder (165-174), the pprof server, then, in
`Run`, the listener (229), the histograms and collectors (server/metrics
92-135), the goroutine of the metrics server (137), the gRPC server with its
interceptor, and signal.Notify (236-258). `written` are the parts that have put
their defaults into the shared viper configuration, a map without a lock.
`GoServe` starts the Serve goroutine (261-266) and reaches the select (274).
From there on: the deferred graceful stop with its sleep (267-273), and two errors
that end the process at any moment: `MetricsFatal`, the log.Fatal of the metrics
server (server/metrics 154) once that goroutine listens, and `InterceptorPanics`.
The interceptor (177-203) indexes the first event of a request without a check
(198); for a SendEvents request that has none it panics in the goroutine of the
call, where nothing recovers. Any call may be such a one. A signal before Notify
ends the process; the drop of a signal that finds stopChan full is part of
`Notify`.

The gRPC server is external, and modelled as grpc-go 1.73 behaves. A connection
(`conn`) is accepted while Serve runs, opens after its handshake, and is to go away
when it is older than maxConnectionAge (`Age`, 246-248) or when GracefulStop asks it
to; it may break at any time. A call arrives at a connection that is open or going
away (`Accept`), whatever has become of Serve in the meantime; only its last GOAWAY
(`LastGoAway`) ends that, and then the end of its calls closes it (`CloseConn`).
GracefulStop is three steps: `StopServer` stops Serve, `Drain` tells connections to
go away once no handshake is under way, and `FinishStop` waits until they are
closed and all handlers have returned, those of broken connections too.

Buckets that a configuration file sets are not the []float64 that the type
assertion (server/metrics 63 and 70) asks for: `Histograms` panics, before there
can be a call.

### ClientStart

A layer of viper is a function from names to values; `Lookup` is the precedence
of Set over the file over SetDefault. `InitDefaults`, `SyncDefaults`,
`AsyncDefaults` and `RoutineDefaults` are the values of the code. New is one
step with one disjunct for each way out: `Refused` (initConfig, client.go
139-149), `NotRegistered` (RegisterMetrics stops at a name that is taken),
`NewPanics` (make of a channel with a negative size, async.go 65), `DialFails`
(async.go 86, sync.go 48) and `Built`. A failed New keeps what it has done so
far: defaults set and collectors registered. `RoutineStarts` is the first thing
a sendRoutine does, NewTicker and make, which panic for an interval that is not
positive and for a negative batch size. `Stop` is GracefulStop when no event is
pending, and panics for an injected client, whose connection is nil.

### Tools

`tool` is the program that runs. `Application` calls Set, New and GracefulStop in
any order. The producer makes a client, sends and ends. The load test
(loadtest.go 63-95) makes its runners one after the other: `DrawTopic` sets the
topic of the next runner in the shared configuration (runner.go 62), `NewRunner`
makes its client. `Run` adds the runners to the WaitGroup and starts them and the
metrics server; a runner goes through "looping" (the select of run, 82),
"preparing" (properties and the sleep, 90-91), "sending" and "ok" or "error".
`Fire` is its timer. `Report` is what comes after the Wait of Run (193): nothing
takes from `wg`, as in the code, so only a load test without runners gets there,
which `SummaryIsPrinted` shows to be an error.

### BufferGauge

The receive (async.go 213), len and Set (214-215) are three steps of a routine,
`Receive`, `Measure` and `Set`, and routines share the channel and the gauge.

### ClientMetrics

`InvokerFails` and `InvokerReturns` are the interceptor of the asynchronous
client (async.go 136-187); `RetryAll`, `PutAside` and `UseAnswer` are what
sendEvents then makes of the result, a step of its own, as the context may
expire between the two. Requests are sequences here, because the first event
decides on the topic that a request is counted under.

## 3. What TLC checks

| run | bounds | states | shows |
| --- | --- | --- | --- |
| `kafka_sender` | 3 events | 54 004 | TypeOK, SlotFits, NoWriteAfterReturn, ReplyIsSound, SomeFailureReported, KeepsPromise, Returns |
| `kafka_sender_reports` | 2 events | violation | AllFailuresReported fails |
| `async_client` | 3 events, 2 routines, channel 1, batches of 2, 1 retry | 92 319 | TypeOK, WgAccounts, ExactlyOnePlace, RequestFits, StopWaits, PanicBySendOnly, KeepsPromise, SendReturns, EventsEnd, StopEnds |
| `async_client_panics` | 2 events, 1 routine | violation | NoPanic fails |
| `events_gateway` | a batch of 2 and a synchronous Send, 1 retry | 2 480 363 | TypeOK, LossOnlyByRace, NoNeedlessCopy, DroppedForCause, SyncOnce |
| `events_gateway_loses` | a batch of 2, 1 retry | violation | AtLeastOnce fails |
| `server_app` | 2 calls on one connection, another connection, 3 signals, every choice of options | 434 744 | TypeOK, NoCallCut, ReadyToServe, NoWriteWhileRead, StopLeadsToExit |
| `tools` | 2 clients, 2 topics, 2 events for each runner, 13 configurations | 209 971 | TypeOK, SettingsOfFirst, AllOrNothing, PanicHasCause, OwnTopic, RunnersEnd |
| `load_test_waits` | 2 clients, 1 event for each runner, one configuration | violation | SummaryIsPrinted fails |
| `client_metrics` | a batch of 2 topics and one of a third, 2 retries | 17 116 | TypeOK, DroppedIsExact, OkExceedsByLate, EveryTryCounted, CountsPureTopics |
| `client_metrics_mixed` | the same, 1 retry | violation | CountsByTopic fails |
| `buffer_gauge` | 1 topic, 2 routines, 3 events | violation | ZeroWhenEmpty fails |

Why the bounds suffice to meet the interesting cases:

* Three goroutines are the least for a late store of the length to hide an
  append that was already counted, besides two that read the same length.
* A channel with room for one event blocks a sender; three events in batches of
  two leave one batch to the ticker; two routines compete for the channel and
  fill batches side by side. Of three events some can arrive while GracefulStop
  waits for others, and some after it.
* With one retry a batch of two can fail in part, be answered late, be sent
  again smaller, and be dropped. A synchronous Send next to it shares the crash.
* stopChan holds two signals, so three are one too many. Two calls on one connection
  let one be in flight when the other arrives, panics or holds the connection open;
  a connection without calls can still be in its handshake, or age, when the server
  stops.
* Two clients are the least for one to find the defaults, collectors and topic
  of another; the application may make them of different kinds, with a Set in
  between. The configurations are complete ones of both kinds, incomplete ones,
  and one for each setting at a value that the code does not survive, or hardly
  (0 or negative counts, sizes and intervals, an unknown size of properties). The
  second event of an asynchronous runner finds its channel full.

`MaxSignals`, `MaxSends` and the sets of events, calls, connections and clients are
the only bounds; nothing else is cut off. Deadlock is not checked: each instance has an
end, in which all events have ended, the call has returned or the process is gone.

### Liveness and fairness

Weak fairness is assumed only of what the runtime or a timeout guarantees: goroutines
that can run do run, a ticker keeps ticking, a sleep ends, a call of the client
ends by its timeout (250), Produce ends by the timeouts of the Kafka configuration
(forwarder 27-44). No fairness is assumed of the application, of signals, of
failures, of success, or between the outcomes of a call. Under it every Send
returns, every event ends acked or dropped, GracefulStop ends, every call of the
Kafka sender returns, a signal at any time or an error of Serve ends the server
process, and every runner of a load test ends (`RunnersEnd`), except one whose
asynchronous client was given no sendRoutine, by numRoutines 0, and whose channel is
full: it waits for room for ever. A handler answers and a timer fires. Of a
connection it is assumed that its handshake ends (grpc-go has a timeout for it) and
that the last GOAWAY follows the first (after the answer to a ping, or five
seconds), not that it closes or breaks while calls are in flight. Run goes on when its
WaitGroup lets it (`Report`). No fairness is assumed of `Interrupt`, of New or of
the metrics servers.

### What the violations show

1. **A failed event may be missing from the failure indexes**
   (`kafka_sender_reports`; kafka.go 61). Two appends that read the same length
   keep one index. The response is still sound, and never empty when something
   failed, but the client takes what is not listed for delivered (async.go
   252-253 relies on the list). `events_gateway_loses` follows such an event: it
   is neither in Kafka nor sent again, although the README (line 13) promises
   at-least-once delivery. `LossOnlyByRace` shows that this is the only way to
   lose an event silently.
2. **Send during GracefulStop may panic** (`async_client_panics`; async.go 283
   and 190): wg.Add between the release of Wait and its return is a misuse of
   the WaitGroup, which panics instead of closing the connection.
   `PanicBySendOnly` shows that a Send after GracefulStop is the only cause: the
   goroutines of the client do not panic it by themselves.
3. **The events counter is not by topic** (`client_metrics_mixed`; async.go 150
   and 240): a request with events of two topics is counted under one of them,
   while metrics.go 58 says "broken by topic and status".
4. **The buffer gauge may stay wrong** (`buffer_gauge`; async.go 214). Of two
   routines the one that measured first may set last. The gauge then shows an
   event in a channel that is empty and stays so, while metrics.go 68 calls it
   "the number of current events in the eventsChannel buffer".

5. **A load test never prints its summary** (`load_test_waits`; loadtest.go 193).
   No runner calls wg.Done, so Run waits although all of them have ended; the code
   behind it adds up their counters and prints "Sent %d events in %s" (198).

Two more observations need no counterexample. A request of SendEvents without an
event ends the server process (app.go 198): `InterceptorPanics` is a step of
`ServerApp`, and `NoCallCut` leaves its cause out, as it cuts off other calls. The
client never sends such a request (`RequestFits`). And the defaults that the
repository's README gives (lines 32-43) are not those of the code: batchSize is
50, numRoutines 5, and there is no default for the topic and the server address,
without which New fails; so does the README's own example, which sets no address.
`SettingsOfFirst` shows that the two different defaults which the code sets for
numRoutines and retryInterval make no difference: the constructor's count, in
whichever order clients of either kind are made.

## 4. What TLAPS proves

All theorems are about `Spec`, without its fairness, for all values of the
constants that meet the ASSUME of the module. With them, every safety invariant
and both refinements that a passing run checks are proved.

The assumptions are those that a program meets by being one: there are finitely
many events, routines, clients, calls and batches; limits are natural numbers;
batches of `ClientMetrics` and requests of `EventsGateway` share no event. Two say
more. The channel of `AsyncClient` has room for an event (an unbuffered one is not
modelled). And the settings that the code reads with GetInt, GetDuration or GetBool
are numbers and truth values (`Readable`, `ToolsAssumption`), as those functions
return nothing else; that a number makes sense is not assumed, it may be 0 or
negative.

**KafkaSenderProofs**: for a batch of any size, the type invariant (the
WaitGroup never goes negative), SlotFits, NoWriteAfterReturn, ReplyIsSound,
SomeFailureReported, and that `KafkaSender` implements `BatchSend`. None of them
is inductive. The invariant `IInv` adds which slots of the array are *owned* by
goroutines that have read their number as the length: the n-th goroutine to
read it owns one of the slots 0 .. n-1, and below an owned slot all slots are
owned (`Slots`). So there is room for every append. An owned slot holds the
index of the last of its owners to write it (`Contents`), so the slice
holds indexes of failed events, each once; and a length once stored never
becomes 0 again (`Positive`), so the list of a batch with a failure is not
empty.

**AsyncClientProofs**: for any events, routines, and sizes of channel and batch, the
type invariant (the WaitGroup never goes negative, the channel is never over its
capacity), WgAccounts, RequestFits,
StopWaits, ExactlyOnePlace, PanicBySendOnly, and that
`AsyncClient` implements `AsyncDelivery`. The invariant gives every event that Send
has put into the channel and that has not ended a place (`Covered`), no two of
which overlap (`Apart`, `Distinct`). An event that is not in a request yet has
named no task and been part of no call, and one in a request has been part of as
many calls as its task has made (`Calls`): so a routine that starts a task starts
a new one, and a task gives up after `MaxRetries + 1` attempts of each of its
events, as `AsyncDelivery` asks. Hence the terms of `WgAccounts` move one by one
with the calls of Add and Done, and its counter can be 0 only when nothing is pending
(`WgZero`). Then what GracefulStop found pending has ended when its waiter is
released, and stays so (`Released`); if no Send came after GracefulStop that is every
event, so that the counter is still 0 when the waiter runs. `ExactlyOnePlace` counts places,
duplicates included; its proof goes from the disjoint places of the invariant to the
one slot that an event has in a sequence without duplicates (`OneSlot`).

**EventsGatewayProofs**: for any batches, any number of synchronous sends and
any number of retries, the type invariant, LossOnlyByRace, NoNeedlessCopy,
DroppedForCause and SyncOnce; and AtLeastOnce if batches hold one event each,
in which case the race has nothing to lose. The invariant follows an event
through the calls of its request: calls are made in order (`Order`); an event
still to be delivered was part of each call made so far, and no response used
by the client took it off (`Tries`); a response that is used is `Sound`, as the
handler promises, and takes an event off for good (`Left`); it is the reason for
every ack (`Acks`). That requests share no event is an assumption here; of the
asynchronous client it is proved, as `EventsAreInOnePlace` above.

**ServerAppProofs**: for any number of calls, connections and signals, the type
invariant, NoCallCut, ReadyToServe and NoWriteWhileRead. The invariant ties the
place of the start to the parts that are set up (`Setup`), so that there is no Serve
goroutine, no connection and no call before all of them; and the place where Run is
to the state of the gRPC server (`Stages`). A call can arrive at any moment of the
graceful stop; but when FinishStop finds that no connection is left and no call in
flight (`Unused`), Serve makes no connection any more, so that none arrives while
Run sleeps and ends.

**ToolsProofs**: for any number of clients, any topics, files and values that the
application may Set, the type invariant, SettingsOfFirst, AllOrNothing,
PanicHasCause and OwnTopic. Settings do not leak because each
New sets its defaults again, for all names that a client of its kind reads: they
cover whatever an earlier client could have left there. A client keeps the
configuration that it was built from, and a routine that panics does so over that
client's interval or batch size; so `PanicHasCause` looks for the cause among the
configurations that clients were made with, and for a setting that is out of the
range its use admits. For the load test the invariant ties main to the runners
(`Drawing`, `Running`): while they are made, each client has the topic that its
runner drew.

**ClientMetricsProofs**: for any batches, topics and number of retries, the type
invariant, DroppedIsExact, OkExceedsByLate, EveryTryCounted and CountsPureTopics; and
that the counters are by topic (CountsByTopic) if no batch mixes topics, which is
the condition that `client_metrics_mixed` does not meet. The counters are sums over
topics and the history counts events, so the proof compares sums with
cardinalities: no request and no answer lists an event twice (`EachOnce`), hence its
length is the number of its events, and what is in a request has not ended
(`Pending`), hence a set of acked or dropped events grows by as much as its counter.
Between the interceptor and the client an answer has been counted and not been used;
`PureCounts` adds those answers to the events acked.

**SumTheorems**: `SumFunction` of the community modules is a recursive function on
the subsets of its domain. The library's induction rules take an operator, which
the provers cannot instantiate; `NaturalRule` and `SubsetRule` state induction with
the *set* of numbers or subsets for which a claim holds, and follow from the library's
theorem on minimal elements. With them the recursive function exists (`SumIsFold`),
and `SumType`, `SumZero` and `SumUpdate` (one term changes) are what the proofs use.

Only model-checked: the liveness properties EventsEnd, StopEnds, SendReturns,
Returns, StopLeadsToExit and RunnersEnd, as fairness and ENABLED are out of the
prover's reach. The violations of section 3 are shown by their traces.

## 5. What is not modelled

* Logging, flags, the parsing of configuration files, generated mocks,
  deployment files: no program logic that the properties depend on. Of tracing
  the set-up is modelled, which may fail, and not the spans.
* The histograms: written, never read by the program.
* Sarama behind Produce and NewSyncProducer: modelled by their outcomes,
  success, failure, and failure of a produce that Kafka has carried out. So it is
  not shown that `kafka.producer.idempotent: true` makes every start fail: sarama
  accepts it only with acknowledgement by all replicas, and forwarder 41 asks for
  that of the leader.
* The length of sleeps and timeouts. So the producer tool's second (producer.go
  70) is not compared with the linger interval and the retries of an asynchronous
  client: whether its event is sent before the process ends is a question of real
  time. 2^retryCount * retryInterval (async.go 261) could overflow only after
  retries whose waits add up to more than a century.
* The end of sendRoutines: they have none (async.go 211), so those of a stopped
  client stay with their tickers until the process ends. No property says so, as
  it holds of the loop by its shape.
* An unbuffered channel (`channelBuffer` 0).

## 6. Plan

Done: `BatchSend` and `KafkaSender`, `AsyncDelivery` and `AsyncClient`,
`EventsGateway`, `ServerApp` with its start, `ClientMetrics`, `ClientStart`,
`Tools` and `BufferGauge`, in this order, with the proofs of section 4.

All safety invariants of the passing runs are proved. To prove more:

* `EventsGateway` as a refinement of an abstract delivery to Kafka, in which an
  event is delivered, lost by the race, or given up after its retries.
* That `EventsGateway`'s handlers and tasks are what `BatchSend` and `AsyncDelivery`
  promise is so far by the shape of its definitions (`Replies`, the attempts of a
  request); it could be stated as a step correspondence.
* `BufferGauge`: the gauge is right whenever a single routine exists.
