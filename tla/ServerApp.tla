------------------------------ MODULE ServerApp ------------------------------
(***************************************************************************)
(* The life of a server process: the start command (server/cmd/start.go),   *)
(* NewApp and App.Run (server/app/app.go), the Serve goroutine, the         *)
(* operating system's signals, the calls of clients, and the metrics server *)
(* (server/metrics/metrics.go).                                             *)
(*                                                                          *)
(* The main goroutine sets the parts of the server up one after the other;  *)
(* any of them may fail, which ends the process.  They share a viper        *)
(* configuration, which has no lock: each part writes its defaults into it, *)
(* and the goroutine of the metrics server, the interceptor of each call    *)
(* and the deferred function of Run read it.                                *)
(*                                                                          *)
(* Run then waits for an error of Serve, on an unbuffered channel, or for a *)
(* signal.  Either way a deferred function stops the gRPC server and        *)
(* sleeps; then Run returns or, after an error, panics.                     *)
(*                                                                          *)
(* The gRPC server is external, modelled as grpc-go 1.73 behaves.  A client *)
(* opens a connection while Serve accepts, and makes its calls on it until  *)
(* the connection ends, even after Serve has failed or been stopped.        *)
(* GracefulStop stops Serve, tells every connection to go away, and waits   *)
(* until all of them are closed and all handlers have returned.  Calls go   *)
(* on to arrive at a connection until it has sent its last GOAWAY.          *)
(*                                                                          *)
(* Two errors end the process at once: one of the metrics server, and the   *)
(* panic of the interceptor over a request that has no event.               *)
(***************************************************************************)
EXTENDS Integers

CONSTANTS
  Calls,         \* calls that clients make in this run
  Conns,         \* connections that clients open
  ConnOf,        \* the connection of each call
  MaxSignals     \* bound: signals the process is sent

ASSUME AppAssumption == ConnOf \in [Calls -> Conns] /\ MaxSignals \in Nat

VARIABLES
  enabled,       \* what the configuration enables, or sets
  up,            \* the parts that have been set up
  written,       \* the parts that have written their defaults
  http,          \* the goroutine of the metrics server
  main,          \* where the start command and Run are
  serve,         \* where the Serve goroutine is
  cause,         \* what ended the select, or the process
  grpc,          \* the gRPC server; GracefulStop makes it stop, then drain
  conn,          \* where each connection is
  signals,       \* signals buffered in stopChan, which has room for two
  sent,          \* signals sent so far
  call           \* where each call is

config == <<enabled, written>>
start == <<config, up, http>>
network == <<grpc, conn, call>>
vars == <<start, main, serve, cause, network, signals, sent>>

\* "buckets": the buckets of a histogram are set, not left to their default.
Options == {"otlp", "pprof", "buckets", "prometheus"}
Parts == {"otel", "forwarder", "pprof", "listener", "histograms", "collectors",
          "interceptor", "notify"}
Starting ==
  {"new", "otel", "configured", "launched", "listening", "histograms", "metrics",
   "built"}

Init ==
  /\ enabled \in SUBSET Options
  /\ up = {} /\ written = {}
  /\ http = "none"
  /\ main = "new"
  /\ serve = "none"
  /\ cause = "none"
  /\ grpc = "open"
  /\ signals = 0 /\ sent = 0
  /\ conn = [k \in Conns |-> "none"]
  /\ call = [c \in Calls |-> "none"]

Running == main # "exited"

\* The calls that the interceptor or the handler works on.
InFlight == {c \in Calls : call[c] \in {"arrived", "active"}}

(* The start of the process. *)

\* A step from one place of the start to the next that sets parts up.
Step(from, to, parts) ==
  /\ main = from /\ main' = to
  /\ up' = up \cup parts
  /\ UNCHANGED <<serve, cause, network, signals, sent>>

\* The process ends, by a panic or by log.Fatal.
Abort(from) ==
  /\ main = from /\ main' = "exited"
  /\ cause' = "panic"
  /\ UNCHANGED <<up, serve, network, signals, sent>>

\* otlptracegrpc.New may fail.
ConfigureOTel == Step("new", "otel", {"otel"}) \/ Abort("new")

\* NewApp writes its defaults and sets up tracing if it is enabled.
Configure ==
  /\ written' = written \cup {"app"}
  /\ IF "otlp" \in enabled THEN ConfigureOTel ELSE Step("new", "otel", {})
  /\ UNCHANGED <<enabled, http>>

\* NewKafkaForwarder fails on a configuration that sarama rejects, and without
\* a broker that answers.
ConfigureEventsForwarder ==
  /\ Step("otel", "configured", {"forwarder"}) \/ Abort("otel")
  /\ UNCHANGED <<config, http>>

LaunchPProf ==
  /\ Step("configured", "launched", {"pprof"} \cap enabled)
  /\ written' = written \cup {"pprof"}
  /\ UNCHANGED <<enabled, http>>

\* Mutant: the goroutine of the metrics server is started with the listener.
ListenBoth ==
  /\ Step("launched", "listening", {"listener"})
  /\ http' = "created"
  /\ UNCHANGED config

\* net.Listen
Listen ==
  /\ Step("launched", "listening", {"listener"}) \/ Abort("launched")
  /\ UNCHANGED <<config, http>>

\* StartServer makes the histograms with their default buckets; buckets that
\* a configuration file sets are no []float64, and the type assertion panics.
Histograms ==
  /\ IF "buckets" \in enabled
     THEN Abort("listening")
     ELSE Step("listening", "histograms", {"histograms"})
  /\ written' = written \cup {"buckets"}
  /\ UNCHANGED <<enabled, http>>

\* RegisterMetrics may fail; then the goroutine of the metrics server starts.
StartServer ==
  /\ \/ /\ Step("histograms", "metrics", {"collectors"})
        /\ http' = "created"
     \/ Abort("histograms") /\ UNCHANGED http
  /\ UNCHANGED config

\* The goroutine reads whether it is to listen.
MetricsServer ==
  /\ Running /\ http = "created"
  /\ http' = IF "prometheus" \in enabled THEN "serving" ELSE "off"
  /\ UNCHANGED <<config, up, main, serve, cause, network, signals, sent>>

\* The gRPC server and its interceptor, and signal.Notify.
BuildServer ==
  /\ Step("metrics", "built", {"interceptor", "notify"})
  /\ UNCHANGED <<config, http>>

\* Mutant: the server serves as soon as it listens.
ServeFirst ==
  /\ main \in {"listening", "built"} /\ serve = "none"
  /\ main' = IF main = "built" THEN "select" ELSE main
  /\ serve' = "created"
  /\ UNCHANGED <<start, cause, network, signals, sent>>

\* Run starts the goroutine of Serve and goes to its select.
GoServe ==
  /\ main = "built" /\ main' = "select"
  /\ serve' = "created"
  /\ UNCHANGED <<start, cause, network, signals, sent>>

Start ==
  Configure \/ ConfigureEventsForwarder \/ LaunchPProf \/ Listen \/ Histograms
    \/ StartServer \/ BuildServer \/ GoServe

(* Serve. *)

\* The goroutine calls Serve, which fails at once on a stopped server.
Serve ==
  /\ Running /\ serve = "created"
  /\ serve' = IF grpc = "open" THEN "serving" ELSE "error"
  /\ UNCHANGED <<start, main, cause, network, signals, sent>>

\* The listener fails for good.  The connections stay.
ServeFails ==
  /\ Running /\ serve = "serving" /\ grpc = "open"
  /\ serve' = "error"
  /\ UNCHANGED <<start, main, cause, network, signals, sent>>

\* The server was stopped: Serve accepts no more, and returns nil.
ServeEnds ==
  /\ Running /\ serve = "serving" /\ grpc # "open"
  /\ serve' = "ended"
  /\ UNCHANGED <<start, main, cause, network, signals, sent>>

(* Connections. *)

Connection(k, from, to) ==
  /\ Running
  /\ conn[k] \in from /\ conn' = [conn EXCEPT ![k] = to]
  /\ UNCHANGED <<start, main, serve, cause, grpc, call, signals, sent>>

\* Serve accepts the connection of a client.
Connect(k) ==
  /\ serve = "serving" /\ grpc = "open"
  /\ Connection(k, {"none"}, "accepted")

Handshake(k) == Connection(k, {"accepted"}, "open")

\* A connection that is older than server.maxConnectionAge is to go away.
Age(k) == Connection(k, {"open"}, "goaway")

\* The last GOAWAY: calls that arrive later are not taken.
LastGoAway(k) == Connection(k, {"goaway"}, "last")

\* After it, the end of its calls closes the connection.
CloseConn(k) ==
  /\ \A c \in InFlight : ConnOf[c] # k
  /\ Connection(k, {"last"}, "closed")

\* The client or the network ends it, or server.maxConnectionAgeGrace is over.
\* Its handlers run on.
Disconnect(k) == Connection(k, {"accepted", "open", "goaway", "last"}, "closed")

(* Calls. *)

\* A call arrives at an open connection, and its goroutine at the interceptor.
Accept(c) ==
  /\ Running /\ call[c] = "none"
  /\ conn[ConnOf[c]] \in {"open", "goaway"}
  /\ call' = [call EXCEPT ![c] = "arrived"]
  /\ UNCHANGED <<start, main, serve, cause, grpc, conn, signals, sent>>

\* The interceptor finds the topic of the first event and calls the handler.
Intercept(c) ==
  /\ Running /\ call[c] = "arrived"
  /\ call' = [call EXCEPT ![c] = "active"]
  /\ UNCHANGED <<start, main, serve, cause, grpc, conn, signals, sent>>

\* A request of SendEvents without an event: events[0] panics, and nothing
\* recovers it.
InterceptorPanics(c) ==
  /\ Running /\ call[c] = "arrived"
  /\ main' = "exited"
  /\ cause' = "empty"
  /\ UNCHANGED <<start, serve, network, signals, sent>>

\* The handler returns, and the interceptor observes the time it took.
Answer(c) ==
  /\ Running /\ call[c] = "active"
  /\ call' = [call EXCEPT ![c] = "answered"]
  /\ UNCHANGED <<start, main, serve, cause, grpc, conn, signals, sent>>

(* Signals. *)

\* Mutant: a channel without bound.
Queue == signals + 1

\* The runtime drops a signal that finds the channel full.
Notify == IF signals < 2 THEN signals + 1 ELSE signals

\* Before signal.Notify a signal ends the process.
Signal ==
  /\ Running /\ sent < MaxSignals
  /\ sent' = sent + 1
  /\ IF "notify" \in up
     THEN signals' = Notify /\ UNCHANGED <<main, cause>>
     ELSE main' = "exited" /\ cause' = "killed" /\ UNCHANGED signals
  /\ UNCHANGED <<start, serve, network>>

(* Run. *)

\* err := <-errChan: Panicf, and the deferred function runs.
TakeError ==
  /\ main = "select" /\ serve = "error"
  /\ serve' = "ended"
  /\ cause' = "error"
  /\ main' = "stopping"
  /\ UNCHANGED <<start, network, signals, sent>>

\* sig := <-stopChan, and the deferred function runs.
TakeSignal ==
  /\ main = "select" /\ signals > 0
  /\ signals' = signals - 1
  /\ cause' = "signal"
  /\ main' = "stopping"
  /\ UNCHANGED <<start, serve, network, sent>>

\* grpcServer.GracefulStop closes the listener, and waits for Serve to accept
\* no more and for the handshakes ...
StopServer ==
  /\ main = "stopping"
  /\ main' = "draining"
  /\ grpc' = "stopped"
  /\ UNCHANGED <<start, serve, cause, conn, call, signals, sent>>

\* ... tells each connection to go away ...
Drain ==
  /\ main = "draining" /\ grpc = "stopped"
  /\ serve # "serving"
  /\ \A k \in Conns : conn[k] # "accepted"
  /\ grpc' = "draining"
  /\ conn' = [k \in Conns |-> IF conn[k] = "open" THEN "goaway" ELSE conn[k]]
  /\ UNCHANGED <<start, main, serve, cause, call, signals, sent>>

\* Mutants: Stop, which ends the connections and waits for no handler, in the
\* place of GracefulStop; a stop that waits for the goroutine as well.
AtOnce == TRUE
DrainedAndJoined ==
  /\ grpc = "draining" /\ serve = "ended"
  /\ \A k \in Conns : conn[k] \in {"none", "closed"}
  /\ InFlight = {}

Drained ==
  /\ grpc = "draining"
  /\ \A k \in Conns : conn[k] \in {"none", "closed"}
  /\ InFlight = {}

\* ... and waits until all are closed and the handlers have returned.
FinishStop ==
  /\ main = "draining"
  /\ Drained
  /\ main' = "sleeping"
  /\ UNCHANGED <<start, serve, cause, network, signals, sent>>

\* The sleep is over: the process ends, by a return or by the panic.
Exit ==
  /\ main = "sleeping"
  /\ main' = "exited"
  /\ UNCHANGED <<start, serve, cause, network, signals, sent>>

\* log.Fatal(s.ListenAndServe()) of the metrics server.
MetricsFatal ==
  /\ Running /\ http = "serving"
  /\ main' = "exited"
  /\ cause' = "fatal"
  /\ UNCHANGED <<start, serve, network, signals, sent>>

Next ==
  \/ Start \/ MetricsServer
  \/ Serve \/ ServeFails \/ ServeEnds
  \/ \E k \in Conns : \/ Connect(k) \/ Handshake(k) \/ Age(k)
                       \/ LastGoAway(k) \/ CloseConn(k) \/ Disconnect(k)
  \/ \E c \in Calls : Accept(c) \/ Intercept(c) \/ InterceptorPanics(c) \/ Answer(c)
  \/ Signal
  \/ TakeError \/ TakeSignal \/ StopServer \/ Drain \/ FinishStop \/ Exit
  \/ MetricsFatal

Spec == Init /\ [][Next]_vars

(* The goroutines are scheduled, sleeps end, and a handler answers: Produce *)
(* is bounded by the timeouts of the Kafka configuration.  A handshake has  *)
(* a timeout, and the last GOAWAY follows the first one after the answer to *)
(* a ping, or five seconds.                                                 *)
Fairness ==
  /\ WF_vars(Start) /\ WF_vars(MetricsServer)
  /\ WF_vars(Serve) /\ WF_vars(ServeEnds)
  /\ \A k \in Conns : /\ WF_vars(Handshake(k)) /\ WF_vars(LastGoAway(k))
                       /\ WF_vars(CloseConn(k))
  /\ \A c \in Calls : WF_vars(Intercept(c) \/ InterceptorPanics(c)) /\ WF_vars(Answer(c))
  /\ WF_vars(TakeError \/ TakeSignal)
  /\ WF_vars(StopServer) /\ WF_vars(Drain) /\ WF_vars(FinishStop) /\ WF_vars(Exit)

FairSpec == Spec /\ Fairness

-----------------------------------------------------------------------------
(* Properties.                                                              *)

\* The variables keep their types; stopChan holds at most two signals.
TypeOK ==
  /\ enabled \subseteq Options /\ up \subseteq Parts
  /\ written \subseteq {"app", "pprof", "buckets"}
  /\ http \in {"none", "created", "serving", "off"}
  /\ main \in Starting
       \cup {"select", "stopping", "draining", "sleeping", "exited"}
  /\ serve \in {"none", "created", "serving", "error", "ended"}
  /\ cause \in {"none", "error", "signal", "fatal", "empty", "panic", "killed"}
  /\ grpc \in {"open", "stopped", "draining"}
  /\ signals \in 0 .. 2
  /\ sent \in 0 .. MaxSignals
  /\ conn \in [Conns -> {"none", "accepted", "open", "goaway", "last", "closed"}]
  /\ call \in [Calls -> {"none", "arrived", "active", "answered"}]

\* A process that ends by a signal, by an error of Serve or while it starts
\* cuts no call off: each one that has arrived has been answered, those that
\* arrived on an open connection during the graceful stop or after an error of
\* Serve included.  The two causes left out are log.Fatal of the metrics server
\* and the panic over a request without an event, which do cut calls off.
NoCallCut ==
  main = "exited" /\ cause \notin {"fatal", "empty"} => InFlight = {}

\* A call in flight finds all it uses: the histograms that the interceptor
\* observes into are nil before StartServer, the sender needs the forwarder,
\* the tracer is the one set up if tracing is enabled, and the signal that is
\* to end the process waits for the call.
ReadyToServe ==
  InFlight # {} => Parts \ {"pprof", "otel"} \subseteq up
                   /\ ("otlp" \in enabled => "otel" \in up)

\* The goroutines that read the configuration: the metrics server's and those
\* of the calls.
Readers == {g \in {"metrics"} : http = "created"} \cup InFlight

\* No part writes its defaults into the shared configuration, a map without a
\* lock, while another goroutine may read it.
NoWriteWhileRead == [][written' # written => Readers = {}]_vars

\* After a signal at any time, or an error of Serve, the process ends: a Serve
\* goroutine that blocks for ever on errChan, because Run has seen the signal
\* first or because GracefulStop came before Serve, does not hold it up, nor do
\* connections that stay open and calls that go on to arrive at them.
StopLeadsToExit ==
  sent > 0 \/ serve = "error" ~> main = "exited"
=============================================================================
