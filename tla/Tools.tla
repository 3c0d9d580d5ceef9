-------------------------------- MODULE Tools --------------------------------
(***************************************************************************)
(* The programs that use the client of this repository: an application that *)
(* builds and stops clients, the producer tool (tools/producer.go) and the  *)
(* load test (tools/loadtest.go, tools/runner.go), whose runners share one  *)
(* viper configuration and each draw a topic of their own.                  *)
(*                                                                          *)
(* Of the client it has what ClientStart says of New, the call of the       *)
(* synchronous client, and the channel of the asynchronous one, which has   *)
(* room for one event at least.  What becomes of an event that a            *)
(* sendRoutine has received is in AsyncClient.                              *)
(***************************************************************************)
EXTENDS ClientStart

CONSTANTS
  Topics,        \* the topics that runners draw
  AppSets,       \* the names and values that the application sets
  MaxSends       \* bound: events a runner sends before its timer fires

ASSUME ToolsAssumption ==
  /\ MaxSends \in Nat
  /\ \A set \in AppSets : Readable(Entry(set[1], set[2]))
  /\ \A f \in Files :
       /\ \A k \in {"threads", "randSleepCeilingMs"} \cap DOMAIN f : f[k] \in Int
       /\ "metrics" \in DOMAIN f => f["metrics"] \in {"false", "true"}

VARIABLES
  tool,          \* the program
  main,          \* where its main goroutine is
  wg,            \* counter of LoadTest.wg
  http,          \* "true" while the metrics server listens
  runner,        \* where each runner, or the producer, is
  drawn,         \* history: the topic newRunner has set for a runner
  fired,         \* the runners whose timer has fired
  queue,         \* events in the channel of an asynchronous client
  sentCounter,
  event          \* topic of the event being sent by Send

stats == <<fired, queue, sentCounter, event>>
loop == <<runner, stats>>
program == <<startVars, tool, main, wg, http, drawn>>
toolVars == <<tool, main, wg, http, drawn, loop>>
vars == <<startVars, toolVars>>

Init ==
  /\ StartInit
  /\ tool \in {"application", "producer", "load-test"}
  /\ main = "building"
  /\ wg = 0
  /\ http = "false"
  /\ runner = [c \in Clients |-> "none"]
  /\ drawn = <<>>
  /\ fired = {}
  /\ queue = [c \in Clients |-> 0]
  /\ sentCounter = [c \in Clients |-> 0]
  /\ event = [c \in Clients |-> "none"]

\* Mutant: the bound of the sleep has no default.
NoCeiling ==
  [threads |-> 2, randSleepCeilingMs |-> 0, randPropsSize |-> "small",
   tracing |-> "none", metrics |-> "false"]

\* Settings of the tools that have a default, or count as off without one.
ToolDefaults ==
  [threads |-> 2, randSleepCeilingMs |-> 500, randPropsSize |-> "small",
   tracing |-> "none", metrics |-> "false"]
Setting(k) == (file ++ ToolDefaults)[k]
threads == Setting("threads")
Sizes == {"small", "medium", "large", "jumbo"}

Ends(how) == process' = how /\ UNCHANGED <<layers, foreign, registry, made>>

(* The application: any calls of Set, New and GracefulStop. *)

Application ==
  /\ tool = "application"
  /\ \/ \E set \in AppSets : Set(set[1], set[2])
     \/ \E c \in Clients, injected \in BOOLEAN : New(c, injected)
     \/ \E c \in Clients : Stop(c)
  /\ UNCHANGED toolVars

(* Building a tool. *)

\* The error of New ends NewProducer or NewLoadTest, and cmd panics with it.
CommandFails ==
  /\ Alive /\ tool # "application" /\ failed # {}
  /\ Ends("failed")
  /\ UNCHANGED toolVars

\* NewProducer.
NewProducer(c) ==
  /\ tool = "producer" /\ main = "building" /\ failed = {}
  /\ New(c, FALSE)
  /\ IF c \in DOMAIN client'
     THEN main' = "running" /\ runner' = [runner EXCEPT ![c] = "preparing"]
     ELSE UNCHANGED <<main, runner>>
  /\ UNCHANGED <<tool, wg, http, drawn, stats>>

\* NewLoadTest reads its settings and sets up tracing, which may fail;
\* make([]*runner, threads) panics if threads is negative.
NewLoadTest ==
  /\ Alive /\ tool = "load-test" /\ main = "building"
  /\ \/ /\ Setting("tracing") # "none"
        /\ Ends("failed")
        /\ UNCHANGED main
     \/ /\ threads < 0
        /\ Ends("panicked")
        /\ UNCHANGED main
     \/ /\ threads >= 0
        /\ main' = "newRunner"
        /\ UNCHANGED startVars
  /\ UNCHANGED <<tool, wg, http, drawn, loop>>

\* newRunner draws a topic and sets it in the shared configuration ...
DrawTopic(c, topic) ==
  /\ tool = "load-test" /\ main = "newRunner" /\ failed = {}
  /\ ~Called(c) /\ Cardinality(DOMAIN client) < threads
  /\ Set("topic", topic)
  /\ drawn' = Entry(c, topic) ++ drawn
  /\ main' = "drawn"
  /\ UNCHANGED <<tool, wg, http, loop>>

\* ... and makes its client.
NewRunner(c) ==
  /\ tool = "load-test" /\ main = "drawn" /\ c \in DOMAIN drawn
  /\ New(c, FALSE)
  /\ main' = "newRunner"
  /\ UNCHANGED <<tool, wg, http, drawn, loop>>

(* LoadTest.Run. *)

\* Run starts the metrics server, if it is enabled, and the runners.
Run ==
  /\ Alive /\ tool = "load-test" /\ main = "newRunner" /\ failed = {}
  /\ Cardinality(DOMAIN client) = threads
  /\ main' = "waiting"
  /\ wg' = threads
  /\ http' = Setting("metrics")
  /\ runner' = [c \in Clients |-> IF c \in DOMAIN client THEN "looping" ELSE "none"]
  /\ UNCHANGED <<startVars, tool, drawn, stats>>

\* log.Fatal(s.ListenAndServe())
MetricsFatal ==
  /\ Alive /\ http = "true"
  /\ Ends("fatal")
  /\ UNCHANGED toolVars

\* wg.Wait returns: the summary is printed and signals are asked for.
Report ==
  /\ Alive /\ main = "waiting" /\ wg = 0
  /\ main' = "reported"
  /\ UNCHANGED <<startVars, tool, wg, http, drawn, loop>>

\* A signal ends Run if it has asked for signals, and else the process.
Interrupt ==
  /\ Alive /\ tool # "application"
  /\ Ends(IF main = "reported" THEN "returned" ELSE "killed")
  /\ UNCHANGED toolVars

(* runner.run, and the Send of Producer.Run. *)

At(c, where) == Alive /\ runner[c] = where
Goto(c, where) == runner' = [runner EXCEPT ![c] = where]
IsSync(c) == ~client[c].async

Fire(c) ==
  /\ Alive /\ runner[c] \notin {"none", "ended"} /\ tool = "load-test"
  /\ c \notin fired
  /\ fired' = fired \cup {c}
  /\ UNCHANGED <<program, runner, queue, sentCounter, event>>

GoesOn(c) == c \notin fired /\ sentCounter[c] < MaxSends

\* The select takes its default while the timer has not fired.
Continue(c) ==
  /\ At(c, "looping") /\ GoesOn(c)
  /\ Goto(c, "preparing")
  /\ UNCHANGED <<program, stats>>

\* case <-stop: return, without a wg.Done.
Finish(c) ==
  /\ At(c, "looping") /\ c \in fired
  /\ Goto(c, "ended")
  /\ UNCHANGED <<program, stats>>

\* rand.Intn, in buildProps and before the sleep, panics unless its bound is
\* positive; that of a size that is not known is 0.
PropsPanic(c) ==
  /\ At(c, "preparing") /\ tool = "load-test"
  /\ Setting("randPropsSize") \notin Sizes \/ Setting("randSleepCeilingMs") <= 0
  /\ Ends("panicked")
  /\ UNCHANGED toolVars

\* Mutant: the client looks its topic up when it sends.
TopicNow(c) == Get("topic")

TopicOf(c) == client[c].topic

\* Send, with the topic of the client, or SendToTopic.
Send(c) ==
  /\ At(c, "preparing")
  /\ tool = "load-test" => /\ Setting("randPropsSize") \in Sizes
                           /\ Setting("randSleepCeilingMs") > 0
  /\ Goto(c, "sending")
  /\ \/ event' = [event EXCEPT ![c] = TopicOf(c)]
     \/ tool = "load-test" /\ UNCHANGED event
  /\ UNCHANGED <<program, fired, queue, sentCounter>>

\* The synchronous client: SendEvent returns within the timeout.
SyncReturns(c, status) ==
  /\ At(c, "sending") /\ IsSync(c)
  /\ event' = [event EXCEPT ![c] = "none"]
  /\ Goto(c, status)
  /\ UNCHANGED <<program, fired, queue, sentCounter>>

Room(c) == queue[c] < client[c].settings.channelBuffer

\* The asynchronous client: Send waits for room in the channel.
AsyncReturns(c) ==
  /\ At(c, "sending") /\ ~IsSync(c)
  /\ Room(c)
  /\ queue' = [queue EXCEPT ![c] = @ + 1]
  /\ event' = [event EXCEPT ![c] = "none"]
  /\ Goto(c, "ok")
  /\ UNCHANGED <<program, fired, sentCounter>>

\* A sendRoutine receives an event.
Receive(c) ==
  /\ Alive /\ routine[c] = "running" /\ queue[c] > 0
  /\ queue' = [queue EXCEPT ![c] = @ - 1]
  /\ UNCHANGED <<program, runner, fired, sentCounter, event>>

\* r.sentCounter++, whether Send has returned an error or not.
Count(c) ==
  /\ Alive /\ runner[c] \in {"ok", "error"} /\ tool = "load-test"
  /\ sentCounter' = [sentCounter EXCEPT ![c] = @ + 1]
  /\ Goto(c, "looping")
  /\ UNCHANGED <<program, fired, queue, event>>

\* The producer sleeps, prints that it is done and ends; or prints the error.
ProducerEnds(c) ==
  /\ Alive /\ runner[c] \in {"ok", "error"} /\ tool = "producer"
  /\ main' = IF runner[c] = "ok" THEN "done" ELSE "error"
  /\ Ends("returned")
  /\ UNCHANGED <<tool, wg, http, drawn, loop>>

RunnerStep(c) ==
  \/ Continue(c) \/ Finish(c) \/ PropsPanic(c) \/ Send(c)
  \/ \E status \in {"ok", "error"} : SyncReturns(c, status)
  \/ AsyncReturns(c) \/ Count(c) \/ ProducerEnds(c)

Next ==
  \/ Application \/ CommandFails \/ NewLoadTest
  \/ \E c \in Clients : NewProducer(c) \/ NewRunner(c)
  \/ \E c \in Clients, topic \in Topics : DrawTopic(c, topic)
  \/ Run \/ MetricsFatal \/ Report \/ Interrupt
  \/ \E c \in Clients : RunnerStep(c) \/ Fire(c) \/ Receive(c)
  \/ \E c \in Clients : RoutineStarts(c) /\ UNCHANGED toolVars

Spec == Init /\ [][Next]_vars

(* Goroutines are scheduled, timers fire, and the call of the synchronous   *)
(* client ends by the timeout of its context.                               *)
Fairness ==
  /\ WF_vars(Report)
  /\ \A c \in Clients :
       /\ WF_vars(RunnerStep(c)) /\ WF_vars(Fire(c)) /\ WF_vars(Receive(c))
       /\ WF_vars(RoutineStarts(c) /\ UNCHANGED toolVars)

FairSpec == Spec /\ Fairness

-----------------------------------------------------------------------------
(* Properties.                                                              *)

\* The variables keep their types.
TypeOK ==
  /\ StartTypeOK
  /\ tool \in {"application", "producer", "load-test"}
  /\ main \in {"building", "newRunner", "drawn", "running", "waiting", "reported",
               "done", "error"}
  /\ wg \in Nat
  /\ http \in {"false", "true"}
  /\ runner \in [Clients -> {"none", "looping", "preparing", "sending", "ok",
                             "error", "ended"}]
  /\ fired \subseteq Clients
  /\ queue \in [Clients -> Nat]
  /\ sentCounter \in [Clients -> 0 .. MaxSends]
  /\ \A c \in DOMAIN drawn : drawn[c] \in Topics

\* The configurations in force: that of the process and those that clients
\* were made with, which a later Set does not change.
Configurations == {file, Explicit} \cup {client[c].explicit : c \in DOMAIN client}

\* Settings that make a program panic: a size or a count that is negative, a
\* duration that is not positive.
OutOfRange(conf) ==
  \/ \E k \in {"channelBuffer", "batchSize", "threads"} \cap DOMAIN conf : conf[k] < 0
  \/ \E k \in {"lingerInterval", "randSleepCeilingMs"} \cap DOMAIN conf : conf[k] <= 0

\* What makes a program panic is a setting: with settings in range, or without
\* any (the defaults hold then), none does, unless it calls GracefulStop on a
\* client that it has injected a connection into.
PanicHasCause ==
  process = "panicked" =>
    \/ \E conf \in Configurations : OutOfRange(conf)
    \/ Setting("randPropsSize") \notin Sizes
    \/ tool = "application" /\ \E c \in DOMAIN client : conn[c] = "none"

\* Every event that a runner sends by Send goes to the topic it drew, although
\* the runners made after it have set others in the same configuration.
OwnTopic ==
  tool = "load-test" => \A c \in DOMAIN client : event[c] \in {"none", drawn[c]}

\* An asynchronous client was given no sendRoutine, and its channel is full.
Stuck(c) ==
  /\ runner[c] = "sending" /\ ~IsSync(c) /\ ~Room(c)
  /\ client[c].settings.numRoutines <= 0

\* Every runner ends, the one that waits for room in the channel included; a
\* client without a sendRoutine, which takes events until its channel is full,
\* is all that can stop it.
RunnersEnd ==
  \A c \in Clients : runner[c] = "looping" ~> runner[c] = "ended" \/ Stuck(c) \/ ~Alive

\* When its runners have ended, a load test prints how many events they have
\* sent, as the code behind the wait of Run has it.
SummaryIsPrinted ==
  main = "waiting" /\ (\A c \in DOMAIN client : runner[c] = "ended")
    ~> main = "reported" \/ ~Alive
=============================================================================
