----------------------------- MODULE ClientStart -----------------------------
(***************************************************************************)
(* How a client comes to be: New (client/client.go) and the constructors of *)
(* both kinds of client, on a viper configuration and a Prometheus registry *)
(* that all clients of the process share.                                   *)
(*                                                                          *)
(* A layer of viper is a function from the names it sets to their values;   *)
(* the leftmost layer that has a name counts: Set, the file (environment    *)
(* variables and the configuration file), SetDefault.  Names are those of   *)
(* one client section; configPrefix only sets the sections apart.           *)
(*                                                                          *)
(* New neither blocks (grpc.Dial connects in the background) nor may it run *)
(* twice at a time, as viper has no lock: it is one step.                   *)
(***************************************************************************)
EXTENDS Integers, FiniteSets

CONSTANTS
  Clients,       \* the calls of New of this run
  Files          \* the configurations a program may be started with

\* Layers of settings, the upper one first, and one with a single name.
upper ++ lower ==
  [k \in DOMAIN upper \cup DOMAIN lower |-> IF k \in DOMAIN upper THEN upper[k] ELSE lower[k]]
Entry(k, v) == [name \in {k} |-> v]

\* Settings are read with their type, by viper.GetInt, GetDuration and GetBool.
Readable(layer) ==
  /\ \A k \in {"channelBuffer", "batchSize", "lingerInterval"} \cap DOMAIN layer :
       layer[k] \in Int
  /\ "async" \in DOMAIN layer => layer["async"] \in BOOLEAN

ASSUME StartAssumption ==
  /\ IsFiniteSet(Clients)
  /\ \A f \in Files : Readable(f)

VARIABLES
  file,          \* set by the configuration file and the environment
  override,      \* set by viper.Set
  defaults,      \* set by viper.SetDefault
  foreign,       \* collectors whose name another collector has taken
  registry,      \* collectors registered
  client,        \* what New returned, for the calls that made a client
  failed,        \* the calls of New that returned an error
  conn,          \* the connection each call has opened
  routine,       \* the sendRoutines each call has started
  process        \* "alive", or how the process ended

layers == <<file, override, defaults>>
made == <<client, failed, conn, routine>>
startVars == <<layers, foreign, registry, made, process>>

Collectors == <<"ClientRequestsResponseTime", "AsyncClientEventsCounter",
                "AsyncClientEventsBufferSize">>
CollectorSet == {Collectors[i] : i \in DOMAIN Collectors}

\* What a Get of a name that no layer has returns.
Unset == [topic |-> "", serverAddress |-> "", async |-> FALSE, gzip |-> FALSE]

\* Durations are in milliseconds.
InitDefaults ==
  [keepaliveTime |-> 60000, keepaliveTimeout |-> 15000,
   permitWithoutStreams |-> TRUE, channelBuffer |-> 500, lingerInterval |-> 500,
   batchSize |-> 50, maxRetries |-> 3, numRoutines |-> 2, retryInterval |-> 2000]

SyncDefaults == [timeout |-> 500]
AsyncDefaults ==
  [lingerInterval |-> 500, batchSize |-> 50, channelBuffer |-> 500,
   maxRetries |-> 3, retryInterval |-> 1000, timeout |-> 500]
RoutineDefaults == [numRoutines |-> 5]

\* The program has read its configuration; if that fails it goes on without.
\* A library it uses may have registered one of the collectors itself, or one
\* that has the name of a collector and other labels.
StartInit ==
  /\ file \in Files \cup {<<>>}
  /\ override = <<>> /\ defaults = <<>>
  /\ \E i \in DOMAIN Collectors :
       \/ foreign = {} /\ registry \in {{}, {Collectors[i]}}
       \/ foreign = {Collectors[i]} /\ registry = {}
  /\ client = <<>> /\ failed = {}
  /\ conn = [c \in Clients |-> "none"]
  /\ routine = [c \in Clients |-> "none"]
  /\ process = "alive"

Alive == process = "alive"
Explicit == override ++ file

\* viper.Get when d are the defaults.
Lookup(d, k) == (Explicit ++ d ++ Unset)[k]

Get(k) == Lookup(defaults, k)
IsAsync == Get("async")

(* New. *)

Called(c) == c \in DOMAIN client \cup failed

\* The defaults once initConfig, the constructor, and the constructor of the
\* asynchronous client from its numRoutines on have set theirs.
AfterInit == InitDefaults ++ defaults
AfterCtor == (IF IsAsync THEN AsyncDefaults ELSE SyncDefaults) ++ AfterInit

\* Mutant: the first default of a name stays.
FirstDefaults ==
  defaults ++ (IF IsAsync THEN RoutineDefaults ELSE <<>>) ++ AfterCtor

AfterBuild == (IF IsAsync THEN RoutineDefaults ELSE <<>>) ++ AfterCtor

Captured(async) ==
  {"keepaliveTime", "keepaliveTimeout", "permitWithoutStreams", "gzip", "timeout"}
  \cup IF async
       THEN {"channelBuffer", "lingerInterval", "batchSize", "maxRetries",
             "numRoutines", "retryInterval"}
       ELSE {}

Complete == Get("topic") # "" /\ Get("serverAddress") # ""

\* initConfig misses the topic or the address.
Refused(c) ==
  /\ ~Complete
  /\ failed' = failed \cup {c}
  /\ UNCHANGED <<layers, foreign, registry, client, conn, routine, process>>

\* Mutant: the first collector that is there already ends the loop.
UntilAlready ==
  {Collectors[i] : i \in {n \in DOMAIN Collectors :
     \A j \in 1 .. n : j < n => Collectors[j] \notin foreign \cup registry}}

\* Mutant: RegisterMetrics goes on past an error.
RegistersAll == CollectorSet

\* RegisterMetrics stops at the first name that is taken, and passes over a
\* collector that is registered already.
Registers ==
  {Collectors[i] : i \in {n \in DOMAIN Collectors :
     \A j \in 1 .. n : Collectors[j] \notin foreign}}

NotRegistered(c) ==
  /\ Complete /\ foreign # {}
  /\ registry' = registry \cup Registers
  /\ defaults' = AfterInit
  /\ failed' = failed \cup {c}
  /\ UNCHANGED <<file, override, foreign, client, conn, routine, process>>

\* The constructor is reached.
Configured ==
  /\ Complete /\ foreign = {}
  /\ registry' = registry \cup Registers
  /\ UNCHANGED <<file, override, foreign>>

BufferFits == IsAsync => Lookup(AfterCtor, "channelBuffer") >= 0

\* make(chan *pb.Event, channelBuffer) with a negative size.
NewPanics(c) ==
  /\ Configured
  /\ ~BufferFits
  /\ defaults' = AfterCtor
  /\ process' = "panicked"
  /\ UNCHANGED made

\* grpc.Dial rejects the address or the options.
DialFails(c) ==
  /\ Configured
  /\ BufferFits
  /\ defaults' = AfterCtor
  /\ failed' = failed \cup {c}
  /\ UNCHANGED <<client, conn, routine, process>>

\* Mutant: the loop that starts the sendRoutines begins at 1.
LaunchesButOne(numRoutines) == numRoutines > 1

\* The loop starts a sendRoutine at least.
Launches(numRoutines) == numRoutines > 0

\* New returns a client, with a connection unless one is injected.  Routines of
\* a client are alike; "created" are those that have not run yet.
Built(c, injected) ==
  /\ Configured
  /\ BufferFits
  /\ defaults' = AfterBuild
  /\ client' = client ++ Entry(c,
       [async |-> IsAsync, topic |-> Get("topic"), explicit |-> Explicit,
        settings |-> [k \in Captured(IsAsync) |-> Lookup(AfterBuild, k)]])
  /\ conn' = [conn EXCEPT ![c] = IF injected THEN "none" ELSE "open"]
  /\ routine' = [routine EXCEPT ![c] =
       IF IsAsync /\ Launches(Lookup(AfterBuild, "numRoutines")) THEN "created" ELSE "none"]
  /\ UNCHANGED <<failed, process>>

New(c, injected) ==
  /\ Alive /\ ~Called(c)
  /\ \/ Refused(c) \/ NotRegistered(c) \/ NewPanics(c)
     \/ ~injected /\ DialFails(c)
     \/ Built(c, injected)

\* A sendRoutine makes its ticker and its first batch, which panics if the
\* interval is not positive or the size is negative.
RoutineStarts(c) ==
  LET settings == client[c].settings IN
  /\ Alive /\ routine[c] = "created"
  /\ IF settings.lingerInterval > 0 /\ settings.batchSize >= 0
     THEN routine' = [routine EXCEPT ![c] = "running"] /\ UNCHANGED process
     ELSE process' = "panicked" /\ UNCHANGED routine
  /\ UNCHANGED <<layers, foreign, registry, client, failed, conn>>

\* GracefulStop of a client without events (AsyncClient has the wait for them)
\* closes the connection, and panics if there is none; no sendRoutine ever ends.
Stop(c) ==
  /\ Alive /\ c \in DOMAIN client
  /\ conn' = [conn EXCEPT ![c] = IF @ = "none" THEN "none" ELSE "closed"]
  /\ process' = IF conn[c] = "none" THEN "panicked" ELSE process
  /\ UNCHANGED <<layers, foreign, registry, client, failed, routine>>

\* viper.Set by the application.
Set(k, v) ==
  /\ Alive
  /\ override' = Entry(k, v) ++ override
  /\ UNCHANGED <<file, defaults, foreign, registry, made, process>>

-----------------------------------------------------------------------------
(* Properties.                                                              *)

\* The variables keep their types.
StartTypeOK ==
  /\ file \in Files \cup {<<>>}
  /\ foreign \subseteq CollectorSet /\ registry \subseteq CollectorSet \ foreign
  /\ DOMAIN client \subseteq Clients /\ failed \subseteq Clients
  /\ \A c \in DOMAIN client :
       DOMAIN client[c].settings = Captured(client[c].async)
  /\ conn \in [Clients -> {"none", "open", "closed"}]
  /\ routine \in [Clients -> {"none", "created", "running"}]
  /\ process \in {"alive", "panicked", "failed", "fatal", "killed", "returned"}

\* A client has the settings that it would have as the only one of a process,
\* on the same file and the same calls of Set: neither the defaults that the
\* Client, the constructors and earlier clients of either kind leave in the
\* shared viper nor a New that failed half way change them.
SettingsOfFirst ==
  \A c \in DOMAIN client :
    LET fresh == IF client[c].async
                 THEN RoutineDefaults ++ AsyncDefaults ++ InitDefaults
                 ELSE SyncDefaults ++ InitDefaults
    IN \A k \in Captured(client[c].async) :
         client[c].settings[k] = (client[c].explicit ++ fresh ++ Unset)[k]

\* New makes all of a client or nothing: where there is a client its collectors
\* are registered, all three of them, also when some of them were there before;
\* a New that fails leaves no connection open and no goroutine running.
AllOrNothing ==
  \A c \in Clients :
    IF c \in DOMAIN client
    THEN registry = CollectorSet
    ELSE conn[c] = "none" /\ routine[c] = "none"
=============================================================================
