------------------------------ MODULE ToolsProofs ------------------------------
(***************************************************************************)
(* Proofs about Tools and the ClientStart it extends, for any clients, any  *)
(* configuration files and any calls of Set.                                *)
(*                                                                          *)
(* Every layer of defaults that a constructor writes covers all names that  *)
(* a client reads, so that what earlier clients left below does not count.  *)
(* Main, the runners and their clients move in phases: a runner draws a     *)
(* topic, and its client is the next to be made.                            *)
(***************************************************************************)
EXTENDS Tools, FiniteSetTheorems, TLAPS

-----------------------------------------------------------------------------
(* Layers of settings.                                                      *)

LEMMA OneName == ASSUME NEW k, NEW v PROVE DOMAIN Entry(k, v) = {k} /\ Entry(k, v)[k] = v
BY DEF Entry

LEMMA NoName == DOMAIN <<>> = {}
OBVIOUS

\* The names of the defaults.
LEMMA Names ==
  /\ DOMAIN InitDefaults =
       {"keepaliveTime", "keepaliveTimeout", "permitWithoutStreams", "channelBuffer",
        "lingerInterval", "batchSize", "maxRetries", "numRoutines", "retryInterval"}
  /\ DOMAIN SyncDefaults = {"timeout"}
  /\ DOMAIN AsyncDefaults = {"lingerInterval", "batchSize", "channelBuffer", "maxRetries",
                             "retryInterval", "timeout"}
  /\ DOMAIN RoutineDefaults = {"numRoutines"}
  /\ DOMAIN Unset = {"topic", "serverAddress", "async", "gzip"}
  /\ DOMAIN ToolDefaults = {"threads", "randSleepCeilingMs", "randPropsSize", "tracing",
                            "metrics"}
  /\ InitDefaults["channelBuffer"] = 500 
  /\ AsyncDefaults["channelBuffer"] = 500
  /\ AsyncDefaults["lingerInterval"] = 500 /\ AsyncDefaults["batchSize"] = 50
BY DEF InitDefaults, SyncDefaults, AsyncDefaults, RoutineDefaults, Unset, ToolDefaults

\* With the layers of a New that has built its client, a client has its settings.
Fresh(async) == IF async THEN RoutineDefaults ++ AsyncDefaults ++ InitDefaults
                         ELSE SyncDefaults ++ InitDefaults

LEMMA LookupIs ==
  ASSUME NEW d, NEW k, k \in DOMAIN Explicit \cup DOMAIN d \cup DOMAIN Unset
  PROVE  Lookup(d, k) = IF k \in DOMAIN Explicit THEN Explicit[k]
                        ELSE IF k \in DOMAIN d THEN d[k] ELSE Unset[k]
<1>1. /\ DOMAIN (Explicit ++ d) = DOMAIN Explicit \cup DOMAIN d
      /\ \A n \in DOMAIN Explicit \cup DOMAIN d :
           (Explicit ++ d)[n] = IF n \in DOMAIN Explicit THEN Explicit[n] ELSE d[n]
  BY DEF ++
<1>2. (Explicit ++ d ++ Unset)[k] =
        IF k \in DOMAIN (Explicit ++ d) THEN (Explicit ++ d)[k] ELSE Unset[k]
  BY <1>1 DEF ++
<1> QED  BY <1>1, <1>2 DEF Lookup

LEMMA SettingsAre ==
  ASSUME "gzip" \notin DOMAIN defaults, IsAsync \in BOOLEAN,
         NEW k \in Captured(IsAsync)
  PROVE  Lookup(AfterBuild, k) = (Explicit ++ Fresh(IsAsync) ++ Unset)[k]
<1> DEFINE own == IF IsAsync THEN AsyncDefaults ELSE SyncDefaults
           top == IF IsAsync THEN RoutineDefaults ELSE <<>>
           fresh == Fresh(IsAsync)
<1>1. /\ AfterInit = InitDefaults ++ defaults
      /\ AfterCtor = own ++ AfterInit
      /\ AfterBuild = top ++ AfterCtor
  BY DEF AfterInit, AfterCtor, AfterBuild
<1>2. /\ DOMAIN AfterBuild = DOMAIN top \cup (DOMAIN own \cup (DOMAIN InitDefaults \cup DOMAIN defaults))
      /\ \A n \in DOMAIN AfterBuild :
           AfterBuild[n] = IF n \in DOMAIN top THEN top[n]
                           ELSE IF n \in DOMAIN own THEN own[n]
                           ELSE IF n \in DOMAIN InitDefaults THEN InitDefaults[n]
                           ELSE defaults[n]
  <2>1. /\ DOMAIN AfterInit = DOMAIN InitDefaults \cup DOMAIN defaults
        /\ \A n \in DOMAIN AfterInit :
             AfterInit[n] = IF n \in DOMAIN InitDefaults THEN InitDefaults[n] ELSE defaults[n]
    BY <1>1 DEF ++
  <2>2. /\ DOMAIN AfterCtor = DOMAIN own \cup DOMAIN AfterInit
        /\ \A n \in DOMAIN AfterCtor :
             AfterCtor[n] = IF n \in DOMAIN own THEN own[n] ELSE AfterInit[n]
    BY <1>1 DEF ++
  <2>3. /\ DOMAIN AfterBuild = DOMAIN top \cup DOMAIN AfterCtor
        /\ \A n \in DOMAIN AfterBuild :
             AfterBuild[n] = IF n \in DOMAIN top THEN top[n] ELSE AfterCtor[n]
    BY <1>1 DEF ++
  <2> HIDE DEF top, own
  <2> QED  BY <2>1, <2>2, <2>3
<1>3. /\ DOMAIN fresh = DOMAIN top \cup (DOMAIN own \cup DOMAIN InitDefaults)
      /\ \A n \in DOMAIN fresh :
           fresh[n] = IF n \in DOMAIN top THEN top[n]
                      ELSE IF n \in DOMAIN own THEN own[n] ELSE InitDefaults[n]
  <2>1. CASE IsAsync
    <3>1. fresh = RoutineDefaults ++ AsyncDefaults ++ InitDefaults
          /\ top = RoutineDefaults /\ own = AsyncDefaults
      BY <2>1 DEF Fresh
    <3>2. /\ DOMAIN (RoutineDefaults ++ AsyncDefaults) = DOMAIN RoutineDefaults \cup DOMAIN AsyncDefaults
          /\ \A n \in DOMAIN (RoutineDefaults ++ AsyncDefaults) :
               (RoutineDefaults ++ AsyncDefaults)[n] =
                 IF n \in DOMAIN RoutineDefaults THEN RoutineDefaults[n] ELSE AsyncDefaults[n]
      BY DEF ++
    <3>3. /\ DOMAIN fresh = DOMAIN (RoutineDefaults ++ AsyncDefaults) \cup DOMAIN InitDefaults
          /\ \A n \in DOMAIN fresh :
               fresh[n] = IF n \in DOMAIN (RoutineDefaults ++ AsyncDefaults)
                          THEN (RoutineDefaults ++ AsyncDefaults)[n] ELSE InitDefaults[n]
      BY <3>1 DEF ++
    <3> HIDE DEF top, own, fresh
    <3> QED  BY <3>1, <3>2, <3>3
  <2>2. CASE ~IsAsync
    <3>1. fresh = SyncDefaults ++ InitDefaults /\ top = <<>> /\ own = SyncDefaults
      BY <2>2 DEF Fresh
    <3>2. /\ DOMAIN fresh = DOMAIN SyncDefaults \cup DOMAIN InitDefaults
          /\ \A n \in DOMAIN fresh :
               fresh[n] = IF n \in DOMAIN SyncDefaults THEN SyncDefaults[n] ELSE InitDefaults[n]
      BY <3>1 DEF ++
    <3> HIDE DEF top, own, fresh
    <3> QED  BY <3>1, <3>2, NoName
  <2> QED  BY <2>1, <2>2
<1>4. DOMAIN top \subseteq {"numRoutines"} /\ "timeout" \in DOMAIN own /\ "gzip" \notin DOMAIN own
  BY Names, NoName
<1> HIDE DEF top, own, fresh
<1>5. k = "gzip" \/ k \in DOMAIN fresh
  <2>1. k \in {"gzip", "timeout"} \cup DOMAIN InitDefaults
    BY Names DEF Captured
  <2> QED  BY <2>1, <1>3, <1>4
<1>6. /\ k \in DOMAIN fresh => k \in DOMAIN AfterBuild /\ AfterBuild[k] = fresh[k]
      /\ k = "gzip" => k \notin DOMAIN fresh /\ k \notin DOMAIN AfterBuild /\ k \in DOMAIN Unset
  BY <1>2, <1>3, <1>4, Names
<1>7. Lookup(AfterBuild, k) = Lookup(fresh, k)
  BY <1>5, <1>6, LookupIs
<1> QED  BY <1>7 DEF Lookup, fresh

-----------------------------------------------------------------------------
(* The invariant of ClientStart.                                            *)

\* Only names with a default get one; what the layers hold can be read.
Layered ==
  /\ Readable(file) /\ Readable(override)
  /\ DOMAIN defaults \subseteq {"timeout"} \cup DOMAIN InitDefaults
  /\ \A c \in DOMAIN client :
       Readable(client[c].explicit) /\ client[c].async \in BOOLEAN

\* Nothing is left of a New that has failed; a synchronous client has no routine.
Whole ==
  /\ AllOrNothing
  /\ DOMAIN client # {} => foreign = {}
  /\ \A c \in DOMAIN client : routine[c] # "none" => client[c].async

StartInv == StartTypeOK /\ Layered /\ SettingsOfFirst /\ Whole

LEMMA ExplicitIsReadable ==
  ASSUME Layered
  PROVE  Readable(Explicit) /\ IsAsync \in BOOLEAN
<1>1. Readable(Explicit)
  BY DEF Layered, Readable, Explicit, ++
<1>2. "async" \notin DOMAIN defaults /\ "async" \in DOMAIN Unset /\ Unset["async"] = FALSE
  BY Names DEF Layered, Unset
<1>3. IsAsync = IF "async" \in DOMAIN Explicit THEN Explicit["async"] ELSE FALSE
  BY <1>2, LookupIs DEF IsAsync, Get
<1> QED  BY <1>1, <1>3 DEF Readable

LEMMA DefaultsHaveNames ==
  ASSUME Layered
  PROVE  /\ DOMAIN AfterInit \subseteq {"timeout"} \cup DOMAIN InitDefaults
         /\ DOMAIN AfterCtor \subseteq {"timeout"} \cup DOMAIN InitDefaults
         /\ DOMAIN AfterBuild \subseteq {"timeout"} \cup DOMAIN InitDefaults
<1>1. DOMAIN AfterInit = DOMAIN InitDefaults \cup DOMAIN defaults
  BY DEF AfterInit, ++
<1>2. DOMAIN AfterCtor = DOMAIN (IF IsAsync THEN AsyncDefaults ELSE SyncDefaults) \cup DOMAIN AfterInit
  BY DEF AfterCtor, ++
<1>3. DOMAIN AfterBuild = DOMAIN (IF IsAsync THEN RoutineDefaults ELSE <<>>) \cup DOMAIN AfterCtor
  BY DEF AfterBuild, ++
<1>4. /\ DOMAIN (IF IsAsync THEN AsyncDefaults ELSE SyncDefaults)
           \subseteq {"timeout"} \cup DOMAIN InitDefaults
      /\ DOMAIN (IF IsAsync THEN RoutineDefaults ELSE <<>>)
           \subseteq {"timeout"} \cup DOMAIN InitDefaults
  BY Names, NoName
<1> QED  BY <1>1, <1>2, <1>3, <1>4 DEF Layered

LEMMA AllCollectors ==
  /\ Registers \subseteq CollectorSet \ foreign
  /\ foreign = {} => Registers = CollectorSet
<1>1. Registers \subseteq CollectorSet
  BY DEF Registers, CollectorSet
<1>2. DOMAIN Collectors = 1 .. 3
  BY DEF Collectors
<1>3. \A i \in DOMAIN Collectors : i \in 1 .. i
  BY <1>2
<1>4. Registers \cap foreign = {}
  BY <1>3 DEF Registers
<1>5. ASSUME foreign = {} PROVE Registers = CollectorSet
  BY <1>5 DEF Registers, CollectorSet
<1> QED  BY <1>1, <1>4, <1>5

\* A step that leaves the clients and the registry alone.
LEMMA StartKept ==
  ASSUME StartInv, UNCHANGED <<file, defaults, foreign, registry, client, failed>>,
         Readable(override'),
         conn' \in [Clients -> {"none", "open", "closed"}],
         routine' \in [Clients -> {"none", "created", "running"}],
         process' \in {"alive", "panicked", "failed", "fatal", "killed", "returned"},
         \A c \in Clients : /\ conn[c] = "none" => conn'[c] = "none"
                            /\ routine[c] = "none" => routine'[c] = "none"
  PROVE  StartInv'
<1>1. StartTypeOK'
  BY DEF StartInv, StartTypeOK
<1>2. Layered'
  BY DEF StartInv, Layered
<1>3. SettingsOfFirst'
  BY DEF StartInv, SettingsOfFirst
<1>4. Whole'
  BY DEF StartInv, StartTypeOK, Whole, AllOrNothing
<1> QED  BY <1>1, <1>2, <1>3, <1>4 DEF StartInv

\* Set writes into the upper layer.
LEMMA SetKeeps ==
  ASSUME StartInv, NEW k, NEW v, Readable(Entry(k, v)), Set(k, v)
  PROVE  StartInv'
<1>1. Readable(override')
  BY DEF Set, StartInv, Layered, Readable, ++, Entry
<1> QED  BY <1>1, StartKept DEF Set, made, StartInv, StartTypeOK

LEMMA StopKeeps ==
  ASSUME StartInv, NEW c \in Clients, Stop(c)
  PROVE  StartInv'
<1>1. Readable(override')
  BY DEF Stop, layers, StartInv, Layered
<1> QED  BY <1>1, StartKept DEF Stop, layers, StartInv, StartTypeOK

LEMMA RoutineStartsKeeps ==
  ASSUME StartInv, NEW c \in Clients, RoutineStarts(c)
  PROVE  StartInv'
<1>1. Readable(override')
  BY DEF RoutineStarts, layers, StartInv, Layered
<1>2. /\ routine[c] = "created"
      /\ \/ routine' = [routine EXCEPT ![c] = "running"] /\ process' = process
         \/ routine' = routine /\ process' = "panicked"
  BY DEF RoutineStarts
<1> QED  BY <1>1, <1>2, StartKept DEF RoutineStarts, layers, StartInv, StartTypeOK

\* New leaves the configuration and the other clients alone; if it neither makes
\* a client nor fails, it panics over the size of the channel.
LEMMA NewKeeps ==
  ASSUME StartInv, NEW c \in Clients, NEW injected \in BOOLEAN, New(c, injected)
  PROVE  /\ StartInv'
         /\ Alive /\ ~Called(c)
         /\ UNCHANGED <<file, override, foreign>> /\ failed \subseteq failed'
         /\ \/ /\ client' = client /\ process' = process /\ failed' = failed \cup {c}
            \/ /\ client' = client /\ process' = "panicked" /\ failed' = failed
               /\ "channelBuffer" \in DOMAIN Explicit
               /\ Explicit["channelBuffer"] < 0
            \/ /\ DOMAIN client' = DOMAIN client \cup {c}
               /\ \A d \in DOMAIN client : client'[d] = client[d]
               /\ client'[c].topic = Get("topic")
               /\ process' = process /\ failed' = failed
<1>0. /\ Alive /\ c \notin DOMAIN client /\ c \notin failed /\ process = "alive"
      /\ StartTypeOK /\ Layered /\ SettingsOfFirst /\ Whole
  BY DEF New, Called, Alive, StartInv
<1>1. ASSUME UNCHANGED <<file, override, foreign, client, conn, routine>>,
             failed' \subseteq failed \cup {c}, failed \subseteq failed',
             DOMAIN defaults' \subseteq {"timeout"} \cup DOMAIN InitDefaults,
             registry' = registry \/ registry' = registry \cup Registers,
             process' \in {"alive", "panicked"}
      PROVE  StartInv'
  <2>1. registry' \subseteq CollectorSet \ foreign' /\ registry \subseteq registry'
    BY <1>0, <1>1, AllCollectors DEF StartTypeOK
  <2>2. StartTypeOK'
    BY <1>0, <1>1, <2>1 DEF StartTypeOK
  <2>3. Layered'
    BY <1>0, <1>1 DEF Layered
  <2>4. SettingsOfFirst'
    BY <1>0, <1>1 DEF SettingsOfFirst
  <2>5. Whole'
    BY <1>0, <1>1, <2>1 DEF Whole, AllOrNothing, StartTypeOK
  <2> QED  BY <2>2, <2>3, <2>4, <2>5 DEF StartInv
<1>2. CASE Refused(c)
  <2>1. /\ UNCHANGED <<file, override, foreign, client, conn, routine, defaults, registry, process>>
        /\ failed' = failed \cup {c}
    BY <1>2 DEF Refused, layers
  <2>2. StartInv'
    BY <2>1, <1>0, <1>1 DEF Layered
  <2> QED  BY <2>1, <2>2, <1>0 DEF Called
<1>3. CASE NotRegistered(c)
  <2>1. /\ UNCHANGED <<file, override, foreign, client, conn, routine, process>>
        /\ failed' = failed \cup {c} /\ defaults' = AfterInit
        /\ registry' = registry \cup Registers
    BY <1>3 DEF NotRegistered
  <2>2. StartInv'
    BY <2>1, <1>0, <1>1, DefaultsHaveNames
  <2> QED  BY <2>1, <2>2, <1>0 DEF Called
<1>4. CASE NewPanics(c)
  <2>1. /\ UNCHANGED <<file, override, foreign, client, conn, routine, failed>>
        /\ defaults' = AfterCtor /\ process' = "panicked"
        /\ registry' = registry \cup Registers
    BY <1>4 DEF NewPanics, Configured, made
  <2>2. StartInv'
    BY <2>1, <1>0, <1>1, DefaultsHaveNames
  <2>3. "channelBuffer" \in DOMAIN Explicit /\ Explicit["channelBuffer"] < 0
    <3>1. IsAsync /\ ~(Lookup(AfterCtor, "channelBuffer") >= 0)
      BY <1>4 DEF NewPanics, BufferFits
    <3>2. AfterCtor = AsyncDefaults ++ AfterInit
      BY <3>1 DEF AfterCtor
    <3>3. "channelBuffer" \in DOMAIN AfterCtor /\ AfterCtor["channelBuffer"] = 500
      BY <3>2, Names DEF ++
    <3>4. Lookup(AfterCtor, "channelBuffer") =
            IF "channelBuffer" \in DOMAIN Explicit THEN Explicit["channelBuffer"] ELSE 500
      BY <3>3, LookupIs
    <3>5. "channelBuffer" \in DOMAIN Explicit => Explicit["channelBuffer"] \in Int
      BY <1>0, ExplicitIsReadable DEF Readable
    <3> QED  BY <3>1, <3>4, <3>5
  <2> QED  BY <2>1, <2>2, <2>3, <1>0 DEF Called
<1>5. CASE DialFails(c)
  <2>1. /\ UNCHANGED <<file, override, foreign, client, conn, routine, process>>
        /\ failed' = failed \cup {c} /\ defaults' = AfterCtor
        /\ registry' = registry \cup Registers
    BY <1>5 DEF DialFails, Configured
  <2>2. StartInv'
    BY <2>1, <1>0, <1>1, DefaultsHaveNames
  <2> QED  BY <2>1, <2>2, <1>0 DEF Called
<1>6. CASE Built(c, injected)
  <2> DEFINE new == [async |-> IsAsync, topic |-> Get("topic"), explicit |-> Explicit,
                     settings |-> [k \in Captured(IsAsync) |-> Lookup(AfterBuild, k)]]
  <2>1. /\ UNCHANGED <<file, override, foreign, failed, process>>
        /\ foreign = {} /\ defaults' = AfterBuild
        /\ registry' = registry \cup Registers
        /\ client' = client ++ Entry(c, new)
    BY <1>6 DEF Built, Configured
  <2>2. /\ conn' \in [Clients -> {"none", "open", "closed"}]
        /\ routine' \in [Clients -> {"none", "created", "running"}]
        /\ \A d \in Clients : d # c => conn'[d] = conn[d] /\ routine'[d] = routine[d]
        /\ routine'[c] # "none" => IsAsync
    BY <1>0, <1>6 DEF Built, StartTypeOK
  <2>3. /\ new.async = IsAsync /\ new.topic = Get("topic") /\ new.explicit = Explicit
        /\ DOMAIN new.settings = Captured(IsAsync)
        /\ \A k \in Captured(IsAsync) : new.settings[k] = Lookup(AfterBuild, k)
    OBVIOUS
  <2> HIDE DEF new
  <2>4. /\ DOMAIN client' = DOMAIN client \cup {c}
        /\ client'[c] = new
        /\ \A d \in DOMAIN client : client'[d] = client[d]
    BY <1>0, <2>1 DEF ++, Entry
  <2>5. registry' = CollectorSet
    BY <1>0, <2>1, AllCollectors DEF StartTypeOK
  <2>6. StartTypeOK'
    BY <1>0, <2>1, <2>2, <2>3, <2>4, <2>5 DEF StartTypeOK
  <2>7. Layered'
    BY <1>0, <2>1, <2>3, <2>4, ExplicitIsReadable, DefaultsHaveNames DEF Layered
  <2>8. SettingsOfFirst'
    <3>1. \A k \in Captured(IsAsync) :
            new.settings[k] = (Explicit ++ Fresh(IsAsync) ++ Unset)[k]
      <4>1. "gzip" \notin DOMAIN defaults
        BY <1>0, Names DEF Layered
      <4> QED  BY <1>0, <4>1, <2>3, SettingsAre, ExplicitIsReadable
    <3>2. ASSUME NEW d \in DOMAIN client',
                 NEW k \in Captured(client'[d].async)
          PROVE  client'[d].settings[k] =
                   (client'[d].explicit ++ Fresh(client'[d].async) ++ Unset)[k]
      <4>1. CASE d = c
        BY <3>1, <3>2, <4>1, <2>3, <2>4
      <4>2. CASE d # c
        BY <1>0, <3>2, <4>2, <2>4 DEF SettingsOfFirst, Fresh
      <4> QED  BY <4>1, <4>2
    <3> QED  BY <3>2 DEF SettingsOfFirst, Fresh
  <2>9. Whole'
    BY <1>0, <2>1, <2>2, <2>3, <2>4, <2>5 DEF Whole, AllOrNothing, StartTypeOK
  <2> QED  BY <2>1, <2>3, <2>4, <2>6, <2>7, <2>8, <2>9, <1>0 DEF StartInv, Called
<1> QED  BY <1>2, <1>3, <1>4, <1>5, <1>6 DEF New

-----------------------------------------------------------------------------
(* The invariant of Tools.                                                  *)

\* What a load test has drawn, its clients have; the topic drawn last is the one
\* in the configuration until the client of its runner is made.
Drawing ==
  tool = "load-test" =>
    /\ DOMAIN client \subseteq DOMAIN drawn
    /\ \A c \in DOMAIN client : client[c].topic = drawn[c]
    /\ Alive /\ main = "building" => DOMAIN drawn = {}
    /\ Alive /\ main = "newRunner" => DOMAIN drawn \subseteq DOMAIN client \cup failed
    /\ Alive /\ main = "drawn" =>
         /\ "topic" \in DOMAIN override
         /\ \E c \in DOMAIN drawn :
              /\ override["topic"] = drawn[c]
              /\ DOMAIN drawn \subseteq DOMAIN client \cup failed \cup {c}

\* A runner has a client, and sends to its topic.
Running ==
  /\ DOMAIN event = Clients
  /\ \A c \in Clients :
       /\ runner[c] # "none" => c \in DOMAIN client
       /\ event[c] # "none" => c \in DOMAIN client /\ event[c] = client[c].topic

\* The bound of the events of a runner.
Counting ==
  \A c \in Clients :
    tool = "load-test" /\ runner[c] \in {"preparing", "sending", "ok", "error"}
      => sentCounter[c] < MaxSends

ToolTypeOK ==
  /\ tool \in {"application", "producer", "load-test"}
  /\ main \in {"building", "newRunner", "drawn", "running", "waiting", "reported",
               "done", "error"}
  /\ wg \in Nat
  /\ http \in {"false", "true"}
  /\ runner \in [Clients -> {"none", "looping", "preparing", "sending", "ok",
                             "error", "ended"}]
  /\ fired \subseteq Clients
  /\ queue \in [Clients -> Nat]
  /\ sentCounter \in [Clients -> 0 .. MaxSends]
  /\ \A c \in DOMAIN drawn : drawn[c] \in Topics

ToolInv == ToolTypeOK /\ Drawing /\ Running /\ Counting
IInv == StartInv /\ ToolInv /\ PanicHasCause

\* The settings of a tool, as its configuration file has them.
LEMMA SettingIs ==
  ASSUME NEW k \in DOMAIN ToolDefaults
  PROVE  Setting(k) = IF k \in DOMAIN file THEN file[k] ELSE ToolDefaults[k]
BY DEF Setting, ++

LEMMA SettingsHaveTypes ==
  ASSUME StartInv
  PROVE  /\ threads \in Int /\ Setting("randSleepCeilingMs") \in Int
         /\ Setting("metrics") \in {"false", "true"}
         /\ threads < 0 => "threads" \in DOMAIN file /\ file["threads"] < 0
         /\ Setting("randSleepCeilingMs") <= 0 =>
              "randSleepCeilingMs" \in DOMAIN file /\ file["randSleepCeilingMs"] <= 0
<1>1. file \in Files \/ DOMAIN file = {}
  BY NoName DEF StartInv, StartTypeOK
<1>2. /\ threads = IF "threads" \in DOMAIN file THEN file["threads"] ELSE 2
      /\ Setting("randSleepCeilingMs") =
           IF "randSleepCeilingMs" \in DOMAIN file THEN file["randSleepCeilingMs"] ELSE 500
      /\ Setting("metrics") = IF "metrics" \in DOMAIN file THEN file["metrics"] ELSE "false"
  BY Names, SettingIs DEF threads, ToolDefaults
<1> QED  BY <1>1, <1>2, ToolsAssumption

\* A step that leaves the configuration of the tool alone leaves its settings.
LEMMA SettingsKept ==
  ASSUME file' = file
  PROVE  threads' = threads /\ \A k : Setting(k)' = Setting(k)
BY DEF threads, Setting

\* A step of the client that no tool sees: no client is made.
LEMMA ToolKept ==
  ASSUME ToolInv, UNCHANGED toolVars, UNCHANGED <<file, client, failed>>,
         tool = "load-test" => override' = override,
         Alive' => Alive
  PROVE  ToolInv'
<1>1. UNCHANGED <<tool, main, wg, http, drawn, runner, fired, queue, sentCounter, event>>
  BY DEF toolVars, loop, stats
<1>2. ToolTypeOK'
  BY <1>1 DEF ToolInv, ToolTypeOK
<1>3. Drawing'
  BY <1>1 DEF ToolInv, Drawing, Called, Alive
<1>4. Running'
  BY <1>1 DEF ToolInv, Running
<1>5. Counting'
  BY <1>1, SettingsKept DEF ToolInv, Counting
<1> QED  BY <1>2, <1>3, <1>4, <1>5 DEF ToolInv

\* The same when a client of the application is made.
LEMMA ApplicationKept ==
  ASSUME ToolInv, tool # "load-test", UNCHANGED toolVars, file' = file,
         DOMAIN client \subseteq DOMAIN client',
         \A c \in DOMAIN client : client'[c].topic = client[c].topic
  PROVE  ToolInv'
<1>1. UNCHANGED <<tool, main, wg, http, drawn, runner, fired, queue, sentCounter, event>>
  BY DEF toolVars, loop, stats
<1>2. ToolTypeOK'
  BY <1>1 DEF ToolInv, ToolTypeOK
<1>3. Drawing'
  BY <1>1 DEF ToolInv, Drawing
<1>4. Running'
  BY <1>1 DEF ToolInv, Running
<1>5. Counting'
  BY <1>1, SettingsKept DEF ToolInv, Counting
<1> QED  BY <1>2, <1>3, <1>4, <1>5 DEF ToolInv

\* A step that leaves the clients alone.
LEMMA StartUnchanged ==
  ASSUME StartInv, UNCHANGED <<layers, foreign, registry, made>>,
         process' \in {"alive", "panicked", "failed", "fatal", "killed", "returned"}
  PROVE  StartInv'
<1>1. Readable(override')
  BY DEF layers, StartInv, Layered
<1> QED  BY <1>1, StartKept DEF layers, made, StartInv, StartTypeOK

-----------------------------------------------------------------------------
(* The application, and the end of a process.                               *)

LEMMA ApplicationKeeps == ASSUME IInv, Application PROVE IInv'
<1>0. tool = "application" /\ tool' = tool /\ UNCHANGED toolVars
  BY DEF Application, toolVars
<1>1. ASSUME NEW set \in AppSets, Set(set[1], set[2])
      PROVE  IInv'
  <2>1. StartInv'
    BY <1>1, SetKeeps, ToolsAssumption DEF IInv
  <2>2. ToolInv'
    BY <1>0, <1>1, ApplicationKept DEF Set, made, IInv
  <2>3. PanicHasCause'
    BY <1>1 DEF Set, Alive, PanicHasCause
  <2> QED  BY <2>1, <2>2, <2>3 DEF IInv
<1>2. ASSUME NEW c \in Clients, NEW injected \in BOOLEAN, New(c, injected)
      PROVE  IInv'
  <2>1. /\ StartInv' /\ file' = file /\ Explicit' = Explicit
        /\ DOMAIN client \subseteq DOMAIN client'
        /\ \A d \in DOMAIN client : client'[d].topic = client[d].topic
        /\ process' # "panicked" \/ /\ "channelBuffer" \in DOMAIN Explicit
                                    /\ Explicit["channelBuffer"] < 0
    BY <1>2, NewKeeps DEF IInv, Explicit, Alive
  <2>2. ToolInv'
    BY <1>0, <2>1, ApplicationKept DEF IInv
  <2>3. PanicHasCause'
    BY <2>1 DEF PanicHasCause, Configurations, OutOfRange
  <2> QED  BY <2>1, <2>2, <2>3 DEF IInv
<1>3. ASSUME NEW c \in Clients, Stop(c)
      PROVE  IInv'
  <2>1. StartInv'
    BY <1>3, StopKeeps DEF IInv
  <2>2. ToolInv'
    BY <1>0, <1>3, ApplicationKept DEF Stop, layers, IInv
  <2>3. PanicHasCause'
    <3>1. CASE conn[c] = "none"
      <4>1. c \in DOMAIN client' /\ conn'[c] = "none"
        BY <1>3, <3>1 DEF Stop, IInv, StartInv, StartTypeOK
      <4> QED  BY <1>0, <4>1 DEF PanicHasCause
    <3>2. CASE conn[c] # "none"
      BY <1>3, <3>2 DEF Stop, Alive, PanicHasCause
    <3> QED  BY <3>1, <3>2
  <2> QED  BY <2>1, <2>2, <2>3 DEF IInv
<1> QED  BY <1>1, <1>2, <1>3 DEF Application

\* The process ends otherwise than by a panic.
LEMMA EndsKeeps ==
  ASSUME IInv, NEW how \in {"failed", "fatal", "killed", "returned"}, Ends(how),
         Alive, UNCHANGED toolVars
  PROVE  IInv'
<1>1. /\ process' = how /\ UNCHANGED <<layers, foreign, registry, made>>
      /\ UNCHANGED <<file, client, failed, override>>
  BY DEF Ends, layers, made
<1>2. StartInv'
  BY <1>1, StartUnchanged DEF IInv
<1>3. ToolInv'
  BY <1>1, ToolKept DEF IInv, Alive
<1>4. PanicHasCause'
  BY <1>1 DEF PanicHasCause
<1> QED  BY <1>2, <1>3, <1>4 DEF IInv

LEMMA ProcessEndsKeeps ==
  ASSUME IInv, CommandFails \/ MetricsFatal \/ Interrupt
  PROVE  IInv'
BY EndsKeeps DEF CommandFails, MetricsFatal, Interrupt

\* A sendRoutine panics over its ticker or its batch only by a setting.
LEMMA RoutineKeeps ==
  ASSUME IInv, NEW c \in Clients, RoutineStarts(c), UNCHANGED toolVars
  PROVE  IInv'
<1>1. StartInv'
  BY RoutineStartsKeeps DEF IInv
<1>2. /\ UNCHANGED <<file, override, client, failed>> /\ process = "alive"
      /\ routine[c] = "created"
  BY DEF RoutineStarts, layers, Alive
<1>3. ToolInv'
  BY <1>2, ToolKept DEF IInv, Alive
<1>4. PanicHasCause'
  <2>1. SUFFICES ASSUME process' = "panicked"
                 PROVE  \E conf \in Configurations' : OutOfRange(conf)
    BY DEF PanicHasCause
  <2> DEFINE settings == client[c].settings
             explicit == client[c].explicit
  <2>2. ~(settings.lingerInterval > 0 /\ settings.batchSize >= 0)
    BY <1>2, <2>1 DEF RoutineStarts
  <2>3. c \in DOMAIN client
    BY <1>2 DEF IInv, StartInv, Whole, AllOrNothing
  <2>4. /\ client[c].async /\ Readable(explicit)
        /\ \A k \in Captured(TRUE) : settings[k] = (explicit ++ Fresh(TRUE) ++ Unset)[k]
    BY <1>2, <2>3 DEF IInv, StartInv, Whole, Layered, SettingsOfFirst, Fresh
  <2> HIDE DEF settings, explicit
  <2>5. /\ {"lingerInterval", "batchSize"} \subseteq DOMAIN Fresh(TRUE)
        /\ Fresh(TRUE)["lingerInterval"] = 500 /\ Fresh(TRUE)["batchSize"] = 50
    BY Names DEF Fresh, ++
  <2>6. ASSUME NEW k \in {"lingerInterval", "batchSize"}
        PROVE  /\ settings[k] = IF k \in DOMAIN explicit THEN explicit[k] ELSE Fresh(TRUE)[k]
               /\ k \in DOMAIN explicit => explicit[k] \in Int
    <3>1. k \in Captured(TRUE) /\ k \in DOMAIN Fresh(TRUE)
      BY <2>5 DEF Captured
    <3>2. (explicit ++ Fresh(TRUE) ++ Unset)[k] =
            IF k \in DOMAIN explicit THEN explicit[k] ELSE Fresh(TRUE)[k]
      BY <3>1 DEF ++
    <3> QED  BY <3>1, <3>2, <2>4 DEF Readable
  <2>7. \/ "lingerInterval" \in DOMAIN explicit /\ explicit["lingerInterval"] <= 0
        \/ "batchSize" \in DOMAIN explicit /\ explicit["batchSize"] < 0
    <3>1. ~(settings["lingerInterval"] > 0) \/ ~(settings["batchSize"] >= 0)
      BY <2>2
    <3>2. /\ settings["lingerInterval"] = IF "lingerInterval" \in DOMAIN explicit
                                         THEN explicit["lingerInterval"] ELSE 500
          /\ "lingerInterval" \in DOMAIN explicit => explicit["lingerInterval"] \in Int
      BY <2>5, <2>6
    <3>3. /\ settings["batchSize"] = IF "batchSize" \in DOMAIN explicit
                                    THEN explicit["batchSize"] ELSE 50
          /\ "batchSize" \in DOMAIN explicit => explicit["batchSize"] \in Int
      BY <2>5, <2>6
    <3>4. CASE ~(settings["lingerInterval"] > 0)
      <4>1. "lingerInterval" \in DOMAIN explicit /\ explicit["lingerInterval"] <= 0
        BY <3>2, <3>4
      <4> QED  BY <4>1
    <3>5. CASE ~(settings["batchSize"] >= 0)
      <4>1. "batchSize" \in DOMAIN explicit /\ explicit["batchSize"] < 0
        BY <3>3, <3>5
      <4> QED  BY <4>1
    <3> QED  BY <3>1, <3>4, <3>5
  <2>8. explicit \in Configurations'
    BY <1>2, <2>3 DEF Configurations, explicit
  <2> QED  BY <2>7, <2>8 DEF OutOfRange
<1> QED  BY <1>1, <1>3, <1>4 DEF IInv

-----------------------------------------------------------------------------
(* Building a tool.                                                         *)

\* The start of a process that goes on cannot have panicked.
LEMMA AliveKeeps ==
  ASSUME StartInv', ToolInv', process' = "alive"
  PROVE  IInv'
BY DEF IInv, PanicHasCause

LEMMA NewProducerKeeps ==
  ASSUME IInv, NEW c \in Clients, NewProducer(c)
  PROVE  IInv'
<1>0. /\ New(c, FALSE) /\ tool = "producer" /\ main = "building"
      /\ UNCHANGED <<tool, wg, http, drawn, fired, queue, sentCounter, event>>
      /\ \/ /\ c \in DOMAIN client' /\ main' = "running"
            /\ runner' = [runner EXCEPT ![c] = "preparing"]
         \/ main' = main /\ runner' = runner
  BY DEF NewProducer, stats
<1>1. /\ StartInv' /\ file' = file /\ Explicit' = Explicit
      /\ DOMAIN client \subseteq DOMAIN client'
      /\ \A d \in DOMAIN client : client'[d] = client[d]
      /\ \/ process' = "alive"
         \/ process' = "panicked" /\ "channelBuffer" \in DOMAIN Explicit
                                  /\ Explicit["channelBuffer"] < 0
  BY <1>0, NewKeeps DEF IInv, Explicit, Alive
<1>2. ToolTypeOK'
  BY <1>0 DEF IInv, ToolInv, ToolTypeOK
<1>3. Drawing'
  BY <1>0 DEF Drawing
<1>4. Running'
  <2>1. \A d \in Clients : runner'[d] # "none" => d \in DOMAIN client'
    BY <1>0, <1>1 DEF IInv, ToolInv, ToolTypeOK, Running
  <2> QED  BY <2>1, <1>0, <1>1 DEF IInv, ToolInv, Running
<1>5. Counting'
  BY <1>0 DEF Counting
<1>6. PanicHasCause'
  BY <1>1 DEF PanicHasCause, Configurations, OutOfRange
<1> QED  BY <1>1, <1>2, <1>3, <1>4, <1>5, <1>6 DEF IInv, ToolInv

LEMMA NewLoadTestKeeps ==
  ASSUME IInv, NewLoadTest
  PROVE  IInv'
<1>0. /\ Alive /\ tool = "load-test" /\ main = "building"
      /\ UNCHANGED <<tool, wg, http, drawn, loop>>
  BY DEF NewLoadTest
<1>1. CASE Setting("tracing") # "none" /\ Ends("failed") /\ main' = main
  BY <1>0, <1>1, EndsKeeps DEF toolVars
<1>2. CASE threads < 0 /\ Ends("panicked") /\ main' = main
  <2>1. /\ process' = "panicked" /\ UNCHANGED <<layers, foreign, registry, made>>
        /\ UNCHANGED <<file, client, failed, override>> /\ UNCHANGED toolVars
    BY <1>0, <1>2 DEF Ends, layers, made, toolVars
  <2>2. StartInv'
    BY <2>1, StartUnchanged DEF IInv
  <2>3. ToolInv'
    BY <2>1, ToolKept DEF IInv, Alive
  <2>4. "threads" \in DOMAIN file' /\ file'["threads"] < 0
    BY <1>2, <2>1, SettingsHaveTypes DEF IInv
  <2>5. PanicHasCause'
    BY <2>4 DEF PanicHasCause, Configurations, OutOfRange
  <2> QED  BY <2>2, <2>3, <2>5 DEF IInv
<1>3. CASE threads >= 0 /\ main' = "newRunner" /\ UNCHANGED startVars
  <2>1. /\ UNCHANGED <<layers, foreign, registry, made, process>>
        /\ UNCHANGED <<file, client, failed, override>>
        /\ UNCHANGED <<tool, wg, http, drawn, runner, fired, queue, sentCounter, event>>
    BY <1>0, <1>3 DEF startVars, layers, made, loop, stats
  <2>2. StartInv'
    BY <2>1, StartUnchanged DEF IInv, StartInv, StartTypeOK
  <2>3. ToolTypeOK'
    BY <1>3, <2>1 DEF IInv, ToolInv, ToolTypeOK
  <2>4. Drawing'
    BY <1>0, <1>3, <2>1 DEF IInv, ToolInv, Drawing, Alive
  <2>5. Running'
    BY <2>1 DEF IInv, ToolInv, Running
  <2>6. Counting'
    BY <1>3, <2>1 DEF IInv, ToolInv, Counting
  <2> QED  BY <1>0, <2>1, <2>2, <2>3, <2>4, <2>5, <2>6, AliveKeeps DEF ToolInv, Alive
<1> QED  BY <1>1, <1>2, <1>3 DEF NewLoadTest

\* The topic is in the configuration, and all other runners have their client.
LEMMA DrawTopicKeeps ==
  ASSUME IInv, NEW c \in Clients, NEW topic \in Topics, DrawTopic(c, topic)
  PROVE  IInv'
<1>0. /\ tool = "load-test" /\ main = "newRunner" /\ failed = {} /\ ~Called(c)
      /\ Set("topic", topic) /\ drawn' = Entry(c, topic) ++ drawn /\ main' = "drawn"
      /\ UNCHANGED <<tool, wg, http, runner, fired, queue, sentCounter, event>>
  BY DEF DrawTopic, loop, stats
<1>1. /\ process = "alive" /\ override' = Entry("topic", topic) ++ override
      /\ UNCHANGED <<file, client, failed, process>>
  BY <1>0 DEF Set, Alive, made
<1>2. /\ DOMAIN drawn' = DOMAIN drawn \cup {c} /\ drawn'[c] = topic
      /\ \A d \in DOMAIN drawn : d # c => drawn'[d] = drawn[d]
      /\ "topic" \in DOMAIN override' /\ override'["topic"] = topic
  BY <1>0, <1>1 DEF ++, Entry
<1>3. StartInv'
  <2>1. Readable(Entry("topic", topic))
    BY DEF Readable, Entry
  <2> QED  BY <2>1, <1>0, SetKeeps DEF IInv
<1>4. ToolTypeOK'
  BY <1>0, <1>2 DEF IInv, ToolInv, ToolTypeOK
<1>5. Drawing'
  BY <1>0, <1>1, <1>2 DEF IInv, ToolInv, Drawing, Called, Alive
<1>6. Running'
  BY <1>0, <1>1 DEF IInv, ToolInv, Running
<1>7. Counting'
  BY <1>0 DEF IInv, ToolInv, Counting
<1> QED  BY <1>1, <1>3, <1>4, <1>5, <1>6, <1>7, AliveKeeps DEF ToolInv

\* The client is made with the topic drawn last, that of its runner.
LEMMA NewRunnerKeeps ==
  ASSUME IInv, NEW c \in Clients, NewRunner(c)
  PROVE  IInv'
<1>0. /\ New(c, FALSE) /\ tool = "load-test" /\ main = "drawn" /\ c \in DOMAIN drawn
      /\ main' = "newRunner"
      /\ UNCHANGED <<tool, wg, http, drawn, runner, fired, queue, sentCounter, event>>
  BY DEF NewRunner, loop, stats
<1>1. /\ StartInv' /\ Alive /\ ~Called(c) /\ Explicit' = Explicit
      /\ UNCHANGED <<file, override, foreign>> /\ failed \subseteq failed'
      /\ \/ /\ client' = client /\ process' = process /\ failed' = failed \cup {c}
         \/ /\ client' = client /\ process' = "panicked" /\ failed' = failed
            /\ "channelBuffer" \in DOMAIN Explicit
            /\ Explicit["channelBuffer"] < 0
         \/ /\ DOMAIN client' = DOMAIN client \cup {c}
            /\ \A d \in DOMAIN client : client'[d] = client[d]
            /\ client'[c].topic = Get("topic")
            /\ process' = process /\ failed' = failed
  BY <1>0, NewKeeps DEF IInv, Explicit
<1>2. /\ DOMAIN client \subseteq DOMAIN client' /\ DOMAIN client' \subseteq DOMAIN client \cup {c}
      /\ \A d \in DOMAIN client : client'[d] = client[d]
  BY <1>1
<1>3. Get("topic") = drawn[c]
  <2>1. "topic" \in DOMAIN override /\ override["topic"] = drawn[c]
    BY <1>0, <1>1 DEF IInv, ToolInv, Drawing, Called
  <2>2. "topic" \in DOMAIN Explicit /\ Explicit["topic"] = drawn[c]
    BY <2>1 DEF Explicit, ++
  <2> QED  BY <2>2, LookupIs DEF Get
<1>4. ToolTypeOK'
  BY <1>0 DEF IInv, ToolInv, ToolTypeOK
<1>5. Drawing'
  <2>1. \A d \in DOMAIN client' : d \in DOMAIN drawn /\ client'[d].topic = drawn[d]
    BY <1>0, <1>1, <1>3 DEF IInv, ToolInv, Drawing
  <2>2. process' = "alive" => DOMAIN drawn \subseteq DOMAIN client' \cup failed'
    <3>1. DOMAIN drawn \subseteq DOMAIN client \cup failed \cup {c}
      BY <1>0, <1>1 DEF IInv, ToolInv, Drawing, Called
    <3> QED  BY <3>1, <1>1
  <2> QED  BY <2>1, <2>2, <1>0 DEF Drawing, Alive
<1>6. Running'
  BY <1>0, <1>2 DEF IInv, ToolInv, Running, ToolTypeOK
<1>7. Counting'
  BY <1>0 DEF IInv, ToolInv, Counting
<1>8. PanicHasCause'
  BY <1>1 DEF PanicHasCause, Configurations, OutOfRange, Alive
<1> QED  BY <1>1, <1>4, <1>5, <1>6, <1>7, <1>8 DEF IInv, ToolInv

-----------------------------------------------------------------------------
(* Running it.                                                              *)

\* A step of the tool that leaves the clients and the configuration alone.
LEMMA ToolSteps ==
  ASSUME IInv, Alive, UNCHANGED startVars, ToolInv'
  PROVE  IInv'
<1>1. UNCHANGED <<layers, foreign, registry, made, process>>
  BY DEF startVars
<1>2. StartInv'
  BY <1>1, StartUnchanged DEF IInv, StartInv, StartTypeOK
<1> QED  BY <1>1, <1>2, AliveKeeps DEF Alive

LEMMA RunKeeps == ASSUME IInv, Run PROVE IInv'
<1>0. /\ Alive /\ main = "newRunner" /\ Cardinality(DOMAIN client) = threads
      /\ main' = "waiting" /\ wg' = threads /\ http' = Setting("metrics")
      /\ runner' = [c \in Clients |-> IF c \in DOMAIN client THEN "looping" ELSE "none"]
      /\ UNCHANGED <<startVars, tool, drawn, fired, queue, sentCounter, event>>
      /\ UNCHANGED <<file, client, failed, override>>
  BY DEF Run, stats, startVars, layers, made
<1>1. threads \in Nat
  <2>1. IsFiniteSet(DOMAIN client)
    BY StartAssumption, FS_Subset DEF IInv, StartInv, StartTypeOK
  <2> QED  BY <1>0, <2>1, FS_CardinalityType
<1>2. ToolTypeOK'
  BY <1>0, <1>1, SettingsHaveTypes DEF IInv, ToolInv, ToolTypeOK
<1>3. Drawing'
  BY <1>0 DEF IInv, ToolInv, Drawing
<1>4. Running'
  BY <1>0 DEF IInv, ToolInv, Running
<1>5. Counting'
  BY <1>0, SettingsKept DEF Counting
<1> QED  BY <1>0, <1>2, <1>3, <1>4, <1>5, ToolSteps DEF ToolInv

LEMMA ReportKeeps == ASSUME IInv, Report PROVE IInv'
<1>0. /\ Alive /\ main = "waiting" /\ wg = 0 /\ main' = "reported"
      /\ UNCHANGED <<startVars, tool, wg, http, drawn, runner, fired, queue, sentCounter, event>>
      /\ UNCHANGED <<file, client, failed, override>>
  BY DEF Report, loop, stats, startVars, layers, made
<1>1. ToolTypeOK'
  BY <1>0 DEF IInv, ToolInv, ToolTypeOK
<1>2. Drawing' /\ Running'
  BY <1>0 DEF IInv, ToolInv, Drawing, Running
<1>3. Counting'
  BY <1>0, SettingsKept DEF IInv, ToolInv, Counting
<1> QED  BY <1>0, <1>1, <1>2, <1>3, ToolSteps DEF ToolInv

\* A step of one runner.
LEMMA LoopKeeps ==
  ASSUME IInv, Alive, UNCHANGED program,
         runner' \in [Clients -> {"none", "looping", "preparing", "sending", "ok",
                                  "error", "ended"}],
         fired' \subseteq Clients, queue' \in [Clients -> Nat],
         sentCounter' \in [Clients -> 0 .. MaxSends],
         DOMAIN event' = Clients,
         \A c \in Clients :
           /\ runner'[c] # "none" => runner[c] # "none"
           /\ \/ event'[c] \in {event[c], "none"}
              \/ c \in DOMAIN client /\ event'[c] = client[c].topic
           /\ tool = "load-test" /\ runner'[c] \in {"preparing", "sending", "ok", "error"}
                => sentCounter'[c] < MaxSends
  PROVE  IInv'
<1>0. /\ UNCHANGED <<startVars, tool, main, wg, http, drawn>>
      /\ UNCHANGED <<file, client, failed, override, process>>
  BY DEF program, startVars, layers, made
<1>1. ToolTypeOK'
  BY <1>0 DEF IInv, ToolInv, ToolTypeOK
<1>2. Drawing'
  BY <1>0 DEF IInv, ToolInv, Drawing, Alive
<1>3. Running'
  BY <1>0 DEF IInv, ToolInv, Running
<1>4. Counting'
  BY <1>0, SettingsKept DEF IInv, ToolInv, Counting
<1> QED  BY <1>0, <1>1, <1>2, <1>3, <1>4, ToolSteps DEF ToolInv

LEMMA RunnerKeeps ==
  ASSUME IInv, NEW c \in Clients, RunnerStep(c) \/ Fire(c) \/ Receive(c)
  PROVE  IInv'
<1> DEFINE Where == {"none", "looping", "preparing", "sending", "ok", "error", "ended"}
<1>0. /\ runner \in [Clients -> Where] /\ fired \subseteq Clients
      /\ queue \in [Clients -> Nat] /\ sentCounter \in [Clients -> 0 .. MaxSends]
      /\ DOMAIN event = Clients /\ MaxSends \in Nat
      /\ \A d \in Clients : runner[d] # "none" => d \in DOMAIN client
      /\ \A d \in Clients :
           tool = "load-test" /\ runner[d] \in {"preparing", "sending", "ok", "error"}
             => sentCounter[d] < MaxSends
  BY ToolsAssumption DEF IInv, ToolInv, ToolTypeOK, Running, Counting
<1>1. CASE Continue(c)
  BY <1>0, <1>1, LoopKeeps DEF Continue, At, Goto, GoesOn, stats
<1>2. CASE Finish(c)
  BY <1>0, <1>2, LoopKeeps DEF Finish, At, Goto, stats
<1>3. CASE PropsPanic(c)
  <2>1. /\ process' = "panicked" /\ UNCHANGED <<layers, foreign, registry, made>>
        /\ UNCHANGED <<file, client, failed, override>> /\ UNCHANGED toolVars
        /\ Setting("randPropsSize") \notin Sizes \/ Setting("randSleepCeilingMs") <= 0
        /\ Alive
    BY <1>3 DEF PropsPanic, At, Ends, layers, made
  <2>2. StartInv'
    BY <2>1, StartUnchanged DEF IInv
  <2>3. ToolInv'
    BY <2>1, ToolKept DEF IInv, Alive
  <2>4. \/ Setting("randPropsSize")' \notin Sizes
        \/ "randSleepCeilingMs" \in DOMAIN file' /\ file'["randSleepCeilingMs"] <= 0
    BY <2>1, SettingsHaveTypes, SettingsKept DEF IInv
  <2>5. PanicHasCause'
    BY <2>4 DEF PanicHasCause, Configurations, OutOfRange, Sizes
  <2> QED  BY <2>2, <2>3, <2>5 DEF IInv
<1>4. CASE Send(c)
  BY <1>0, <1>4, LoopKeeps DEF Send, At, Goto, TopicOf
<1>5. ASSUME NEW status \in {"ok", "error"}, SyncReturns(c, status)
      PROVE  IInv'
  BY <1>0, <1>5, LoopKeeps DEF SyncReturns, At, Goto
<1>6. CASE AsyncReturns(c)
  BY <1>0, <1>6, LoopKeeps DEF AsyncReturns, At, Goto
<1>7. CASE Count(c)
  <2>1. /\ Alive /\ tool = "load-test" /\ sentCounter[c] < MaxSends
        /\ UNCHANGED program /\ UNCHANGED <<fired, queue, event>>
        /\ sentCounter' = [sentCounter EXCEPT ![c] = @ + 1]
        /\ runner' = [runner EXCEPT ![c] = "looping"]
        /\ runner[c] # "none"
    BY <1>0, <1>7 DEF Count, Goto
  <2>2. sentCounter' \in [Clients -> 0 .. MaxSends]
    BY <1>0, <2>1
  <2> QED  BY <1>0, <2>1, <2>2, LoopKeeps
<1>8. CASE ProducerEnds(c)
  <2>1. /\ Alive /\ tool = "producer" /\ process' = "returned"
        /\ main' \in {"done", "error"}
        /\ UNCHANGED <<layers, foreign, registry, made>>
        /\ UNCHANGED <<file, client, failed, override>>
        /\ UNCHANGED <<tool, wg, http, drawn, runner, fired, queue, sentCounter, event>>
    BY <1>8 DEF ProducerEnds, Ends, loop, stats, layers, made
  <2>2. StartInv'
    BY <2>1, StartUnchanged DEF IInv
  <2>3. ToolTypeOK'
    BY <2>1 DEF IInv, ToolInv, ToolTypeOK
  <2>4. Drawing' /\ Counting'
    BY <2>1 DEF IInv, ToolInv, Drawing, Counting
  <2>5. Running'
    BY <2>1 DEF IInv, ToolInv, Running
  <2>6. PanicHasCause'
    BY <2>1 DEF PanicHasCause
  <2> QED  BY <2>2, <2>3, <2>4, <2>5, <2>6 DEF IInv, ToolInv
<1>9. CASE Fire(c)
  BY <1>0, <1>9, LoopKeeps DEF Fire
<1>10. CASE Receive(c)
  <2>1. queue' \in [Clients -> Nat]
    BY <1>0, <1>10 DEF Receive
  <2> QED  BY <1>0, <1>10, <2>1, LoopKeeps DEF Receive
<1> QED
  BY <1>1, <1>2, <1>3, <1>4, <1>5, <1>6, <1>7, <1>8, <1>9, <1>10 DEF RunnerStep

-----------------------------------------------------------------------------
(* The invariant is inductive.                                              *)

LEMMA InitIInv == Init => IInv
<1> SUFFICES ASSUME Init PROVE IInv
  OBVIOUS
<1>1. StartInv
  <2>1. StartTypeOK
    BY NoName DEF Init, StartInit, StartTypeOK, CollectorSet
  <2>2. Readable(file) /\ Readable(override)
    BY NoName, StartAssumption DEF Init, StartInit, Readable
  <2>3. Layered /\ SettingsOfFirst /\ Whole
    BY <2>2, NoName DEF Init, StartInit, Layered, SettingsOfFirst, Whole, AllOrNothing
  <2> QED BY <2>1, <2>3 DEF StartInv
<1>2. ToolInv
  BY NoName, ToolsAssumption
     DEF Init, StartInit, ToolInv, ToolTypeOK, Drawing, Running, Counting
<1>3. PanicHasCause
  BY DEF Init, StartInit, PanicHasCause
<1> QED  BY <1>1, <1>2, <1>3 DEF IInv

LEMMA StutterKeeps == ASSUME IInv, UNCHANGED vars PROVE IInv'
<1>1. /\ UNCHANGED toolVars /\ UNCHANGED <<layers, foreign, registry, made, process>>
      /\ UNCHANGED <<file, override, client, conn, failed, tool>>
  BY DEF vars, startVars, layers, made, toolVars
<1>2. StartInv'
  BY <1>1, StartUnchanged DEF IInv, StartInv, StartTypeOK
<1>3. ToolInv'
  BY <1>1, ToolKept DEF IInv, Alive
<1>4. PanicHasCause'
  BY <1>1, SettingsKept
     DEF IInv, PanicHasCause, OutOfRange, Configurations, Explicit, Sizes
<1> QED  BY <1>2, <1>3, <1>4 DEF IInv

LEMMA NextIInv == IInv /\ [Next]_vars => IInv'
<1> SUFFICES ASSUME IInv, [Next]_vars PROVE IInv'
  OBVIOUS
<1>1. CASE Application \/ CommandFails \/ MetricsFatal \/ Interrupt
  BY <1>1, ApplicationKeeps, ProcessEndsKeeps
<1>2. CASE NewLoadTest \/ Run \/ Report
  BY <1>2, NewLoadTestKeeps, RunKeeps, ReportKeeps
<1>3. ASSUME NEW c \in Clients, NewProducer(c) \/ NewRunner(c) PROVE IInv'
  BY <1>3, NewProducerKeeps, NewRunnerKeeps
<1>4. ASSUME NEW c \in Clients, NEW topic \in Topics, DrawTopic(c, topic) PROVE IInv'
  BY <1>4, DrawTopicKeeps
<1>5. ASSUME NEW c \in Clients, RunnerStep(c) \/ Fire(c) \/ Receive(c) PROVE IInv'
  BY <1>5, RunnerKeeps
<1>6. ASSUME NEW c \in Clients, RoutineStarts(c), UNCHANGED toolVars PROVE IInv'
  BY <1>6, RoutineKeeps
<1>7. CASE UNCHANGED vars
  BY <1>7, StutterKeeps
<1> QED  BY <1>1, <1>2, <1>3, <1>4, <1>5, <1>6, <1>7 DEF Next

LEMMA Invariance == Spec => []IInv
BY InitIInv, NextIInv, PTL DEF Spec

-----------------------------------------------------------------------------
(* What follows from it.                                                    *)

\* The variables keep their types.
THEOREM TypeCorrect == Spec => []TypeOK
<1>1. IInv => TypeOK
  BY DEF IInv, StartInv, ToolInv, ToolTypeOK, TypeOK
<1> QED  BY <1>1, Invariance, PTL

\* No client has a setting that an earlier client has left behind.
THEOREM SettingsDoNotLeak == Spec => []SettingsOfFirst
<1>1. IInv => SettingsOfFirst
  BY DEF IInv, StartInv
<1> QED  BY <1>1, Invariance, PTL

\* New makes all of a client or nothing.
THEOREM NewIsAllOrNothing == Spec => []AllOrNothing
<1>1. IInv => AllOrNothing
  BY DEF IInv, StartInv, Whole
<1> QED  BY <1>1, Invariance, PTL

\* A program panics over a setting or an injected client only.
THEOREM PanicsHaveCauses == Spec => []PanicHasCause
<1>1. IInv => PanicHasCause
  BY DEF IInv
<1> QED  BY <1>1, Invariance, PTL

\* A runner sends to the topic it has drawn.
THEOREM RunnersKeepTheirTopic == Spec => []OwnTopic
<1>1. IInv => OwnTopic
  BY DEF IInv, StartInv, StartTypeOK, ToolInv, Drawing, Running, OwnTopic
<1> QED  BY <1>1, Invariance, PTL
=============================================================================
