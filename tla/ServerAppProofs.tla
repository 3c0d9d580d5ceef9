--------------------------- MODULE ServerAppProofs ---------------------------
(***************************************************************************)
(* Proofs about ServerApp, for any number of connections, calls and signals. *)
(*                                                                          *)
(* GracefulStop drains once no connection is left on its way in, and none   *)
(* is opened after that.  So the connections that FinishStop finds closed,  *)
(* and the calls it finds answered, are the last ones.  Only an error of    *)
(* the metrics server and a request without an event get past that.         *)
(***************************************************************************)
EXTENDS ServerApp, TLAPS

Waiting == Starting \cup {"select"}
Stopping == {"stopping", "draining", "sleeping"}

\* No connection is open or on its way in.
Unused == \A k \in Conns : conn[k] \in {"none", "closed"}

\* Run has a cause to leave the select, and the server is stopped by then.
Stages ==
  /\ cause = "none" <=> main \in Waiting
  /\ main = "exited" \/ cause \notin {"fatal", "empty", "panic", "killed"}
  /\ main \in Waiting \cup {"stopping"} => grpc = "open"
  /\ main = "sleeping" => grpc = "draining" /\ Unused /\ InFlight = {}
  /\ main \in Starting => serve = "none"
  /\ serve = "none" => Unused /\ InFlight = {}

\* What is set up where: each part stays, so a later place has all of them.
Setup ==
  /\ main \notin {"new", "exited"} => ("otlp" \in enabled => "otel" \in up)
  /\ main \notin {"new", "otel", "exited"} => "forwarder" \in up
  /\ main \notin {"new", "otel", "configured", "launched", "exited"}
       => "listener" \in up
  /\ main \in {"histograms", "metrics", "built", "select"} \cup Stopping
       => "histograms" \in up
  /\ main \in {"metrics", "built", "select"} \cup Stopping => "collectors" \in up
  /\ main \in {"built", "select"} \cup Stopping => {"interceptor", "notify"} \subseteq up
  /\ serve # "none" => /\ Parts \ {"pprof", "otel"} \subseteq up
                       /\ "otlp" \in enabled => "otel" \in up
  /\ main \in Starting \ {"metrics", "built"} => http = "none"

IInv == TypeOK /\ Stages /\ Setup /\ NoCallCut

ConnStep(k) ==
  Connect(k) \/ Handshake(k) \/ Age(k) \/ LastGoAway(k) \/ CloseConn(k) \/ Disconnect(k)

\* A step of a connection: only Serve can begin with one that is not in use.
LEMMA ConnMoves ==
  ASSUME NEW k \in Conns, ConnStep(k)
  PROVE  /\ Running
         /\ \/ conn[k] \notin {"none", "closed"}
            \/ serve = "serving" /\ grpc = "open"
         /\ \E to \in {"accepted", "open", "goaway", "last", "closed"} :
              conn' = [conn EXCEPT ![k] = to]
         /\ UNCHANGED <<start, main, serve, cause, grpc, call, signals, sent>>
<1> USE DEF Connection
<1>1. CASE Connect(k) \/ Handshake(k)
  BY <1>1 DEF Connect, Handshake
<1>2. CASE Age(k) \/ LastGoAway(k)
  BY <1>2 DEF Age, LastGoAway
<1>3. CASE CloseConn(k) \/ Disconnect(k)
  BY <1>3 DEF CloseConn, Disconnect
<1> QED  BY <1>1, <1>2, <1>3 DEF ConnStep

LEMMA InitIInv == Init => IInv
BY AppAssumption DEF Init, IInv, TypeOK, Stages, Setup, NoCallCut, InFlight, Unused, Waiting, Starting,
   Stopping, Options, Parts

LEMMA NextTypeOK == TypeOK /\ [Next]_vars => TypeOK'
<1> SUFFICES ASSUME TypeOK, [Next]_vars PROVE TypeOK'
  OBVIOUS
<1> USE AppAssumption DEF TypeOK
<1>1. CASE Start
  <2> USE DEF Step, Abort, Starting, Parts, config, start, network
  <2>1. CASE Configure
    BY <2>1 DEF Configure, ConfigureOTel
  <2>2. CASE ConfigureEventsForwarder \/ LaunchPProf
    BY <2>2 DEF ConfigureEventsForwarder, LaunchPProf
  <2>3. CASE Listen \/ Histograms
    BY <2>3 DEF Listen, Histograms
  <2>4. CASE StartServer \/ BuildServer \/ GoServe
    BY <2>4 DEF StartServer, BuildServer, GoServe
  <2> QED  BY <1>1, <2>1, <2>2, <2>3, <2>4 DEF Start
<1> USE DEF start, config, network
<1>2. CASE MetricsServer
  BY <1>2 DEF MetricsServer
<1>3. CASE Serve \/ ServeFails \/ ServeEnds
  BY <1>3 DEF Serve, ServeFails, ServeEnds
<1>4. ASSUME NEW c \in Calls,
             Accept(c) \/ Intercept(c) \/ InterceptorPanics(c) \/ Answer(c)
      PROVE  TypeOK'
  <2>1. CASE Accept(c)
    BY <2>1 DEF Accept
  <2>2. CASE Intercept(c)
    BY <2>2 DEF Intercept
  <2>3. CASE InterceptorPanics(c)
    BY <2>3 DEF InterceptorPanics
  <2>4. CASE Answer(c)
    BY <2>4 DEF Answer
  <2> QED  BY <1>4, <2>1, <2>2, <2>3, <2>4
<1>10. ASSUME NEW k \in Conns, ConnStep(k) PROVE TypeOK'
  BY <1>10, ConnMoves
<1>5. CASE Signal
  BY <1>5 DEF Signal, Notify
<1>6. CASE TakeError
  BY <1>6 DEF TakeError
<1>7. CASE TakeSignal
  <2>1. signals' \in 0 .. 2
    BY <1>7 DEF TakeSignal
  <2> QED  BY <1>7, <2>1 DEF TakeSignal
<1>8. CASE StopServer \/ Drain \/ FinishStop \/ Exit \/ MetricsFatal
  BY <1>8 DEF StopServer, Drain, FinishStop, Exit, MetricsFatal
<1>9. CASE UNCHANGED vars
  BY <1>9 DEF vars
<1> QED  BY <1>1, <1>2, <1>3, <1>4, <1>10, <1>5, <1>6, <1>7, <1>8, <1>9
         DEF Next, ConnStep

LEMMA NextStages == IInv /\ [Next]_vars => (Stages /\ NoCallCut)'
<1> SUFFICES ASSUME IInv, [Next]_vars PROVE (Stages /\ NoCallCut)'
  OBVIOUS
<1> USE DEF IInv, Stages, NoCallCut, InFlight, Unused, start, config, network, Waiting,
        Starting
<1>1. CASE Start
  <2> USE DEF Step, Abort
  <2>1. CASE Configure
    BY <2>1 DEF Configure, ConfigureOTel
  <2>2. CASE ConfigureEventsForwarder \/ LaunchPProf
    BY <2>2 DEF ConfigureEventsForwarder, LaunchPProf
  <2>3. CASE Listen \/ Histograms
    BY <2>3 DEF Listen, Histograms
  <2>4. CASE StartServer \/ BuildServer \/ GoServe
    BY <2>4 DEF StartServer, BuildServer, GoServe
  <2> QED  BY <1>1, <2>1, <2>2, <2>3, <2>4 DEF Start
<1>2. CASE MetricsServer
  BY <1>2 DEF MetricsServer
<1>3. CASE Serve \/ ServeFails \/ ServeEnds
  BY <1>3 DEF Serve, ServeFails, ServeEnds
<1>4. ASSUME NEW c \in Calls, Accept(c) PROVE (Stages /\ NoCallCut)'
  BY <1>4, AppAssumption DEF Accept, Running, TypeOK
<1>5. ASSUME NEW c \in Calls, Intercept(c) \/ InterceptorPanics(c) \/ Answer(c)
      PROVE  (Stages /\ NoCallCut)'
  BY <1>5 DEF Intercept, InterceptorPanics, Answer, Running, TypeOK
<1>12. ASSUME NEW k \in Conns, ConnStep(k) PROVE (Stages /\ NoCallCut)'
  BY <1>12, ConnMoves DEF Running, TypeOK
<1>6. CASE Signal
  BY <1>6 DEF Signal, Running, Setup, Stopping, TypeOK
<1>7. CASE TakeError \/ TakeSignal
  BY <1>7 DEF TakeError, TakeSignal
<1>8. CASE StopServer \/ Drain
  BY <1>8 DEF StopServer, Drain, TypeOK
<1>9. CASE FinishStop
  BY <1>9 DEF FinishStop, Drained
<1>10. CASE Exit \/ MetricsFatal
  BY <1>10 DEF Exit, MetricsFatal
<1>11. CASE UNCHANGED vars
  BY <1>11 DEF vars
<1> QED  BY <1>1, <1>2, <1>3, <1>4, <1>5, <1>6, <1>7, <1>8, <1>9, <1>10, <1>11,
            <1>12 DEF Next, ConnStep

LEMMA NextSetup == IInv /\ [Next]_vars => Setup'
<1> SUFFICES ASSUME IInv, [Next]_vars PROVE Setup'
  OBVIOUS
<1> USE DEF IInv, Setup, start, config, network, Starting, Stopping, Parts
<1>1. CASE Start
  <2> USE DEF Step, Abort, Stages
  <2>1. CASE Configure
    BY <2>1 DEF Configure, ConfigureOTel
  <2>2. CASE ConfigureEventsForwarder \/ LaunchPProf
    BY <2>2 DEF ConfigureEventsForwarder, LaunchPProf
  <2>3. CASE Listen \/ Histograms
    BY <2>3 DEF Listen, Histograms
  <2>4. CASE StartServer \/ BuildServer
    BY <2>4 DEF StartServer, BuildServer
  <2>5. CASE GoServe
    BY <2>5 DEF GoServe
  <2> QED  BY <1>1, <2>1, <2>2, <2>3, <2>4, <2>5 DEF Start
<1>2. CASE MetricsServer
  BY <1>2 DEF MetricsServer
<1>3. CASE Serve \/ ServeFails \/ ServeEnds
  BY <1>3 DEF Serve, ServeFails, ServeEnds, Stages
<1>4. ASSUME NEW c \in Calls,
             Accept(c) \/ Intercept(c) \/ InterceptorPanics(c) \/ Answer(c)
      PROVE  Setup'
  BY <1>4 DEF Accept, Intercept, InterceptorPanics, Answer
<1>9. ASSUME NEW k \in Conns, ConnStep(k) PROVE Setup'
  BY <1>9, ConnMoves
<1>5. CASE Signal
  BY <1>5 DEF Signal
<1>6. CASE TakeError \/ TakeSignal
  BY <1>6 DEF TakeError, TakeSignal
<1>7. CASE StopServer \/ Drain \/ FinishStop \/ Exit \/ MetricsFatal
  BY <1>7 DEF StopServer, Drain, FinishStop, Exit, MetricsFatal
<1>8. CASE UNCHANGED vars
  BY <1>8 DEF vars
<1> QED  BY <1>1, <1>2, <1>3, <1>4, <1>5, <1>6, <1>7, <1>8, <1>9 DEF Next, ConnStep

\* IInv holds in every state of the process.
THEOREM Invariance == Spec => []IInv
<1>1. IInv /\ [Next]_vars => IInv'
  BY NextTypeOK, NextStages, NextSetup DEF IInv
<1> QED  BY InitIInv, <1>1, PTL DEF Spec

\* The variables keep their types; stopChan never holds more than two signals.
THEOREM TypeCorrect == Spec => []TypeOK
<1>1. IInv => TypeOK
  BY DEF IInv
<1> QED  BY <1>1, Invariance, PTL

\* A process that ends for a signal, for an error of Serve or while it starts
\* cuts no call off, whatever arrives on its open connections.
THEOREM CallsAreAnswered == Spec => []NoCallCut
<1>1. IInv => NoCallCut
  BY DEF IInv
<1> QED  BY <1>1, Invariance, PTL

\* A call in flight finds the histograms, the forwarder, the tracer and the
\* handling of signals set up.
THEOREM CallsFindTheirParts == Spec => []ReadyToServe
<1>1. IInv => ReadyToServe
  BY DEF IInv, Stages, Setup, ReadyToServe
<1> QED  BY <1>1, Invariance, PTL

\* The shared configuration is written before any other goroutine reads it.
THEOREM ConfigurationIsNotRaced == Spec => NoWriteWhileRead
<1>1. IInv /\ [Next]_vars => [written' # written => Readers = {}]_vars
  <2> SUFFICES ASSUME IInv, Next, written' # written PROVE Readers = {}
    BY DEF vars, start, config
  <2>1. Configure \/ LaunchPProf \/ Histograms
    BY DEF Next, Start, config, start, ConfigureEventsForwarder, Listen, StartServer,
       BuildServer, GoServe, MetricsServer, Serve, ServeFails, ServeEnds, Connect,
       Handshake, Age, LastGoAway, CloseConn, Disconnect, Connection, Accept, Intercept,
       InterceptorPanics, Answer, Signal, TakeError, TakeSignal, StopServer, Drain,
       FinishStop, Exit, MetricsFatal
  <2>2. main \in {"new", "configured", "listening"}
    BY <2>1 DEF Configure, ConfigureOTel, LaunchPProf, Histograms, Step, Abort
  <2> QED
    BY <2>2 DEF IInv, Stages, Setup, Readers, Starting
<1> QED  BY <1>1, Invariance, PTL DEF Spec, NoWriteWhileRead
=============================================================================
