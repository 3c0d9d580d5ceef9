---------------------------- MODULE EventsGateway ----------------------------
(***************************************************************************)
(* Clients, network, server and Kafka together: what becomes of an event    *)
(* between the call of a client and the topic.                              *)
(*                                                                          *)
(* A request is the set of events that a task of the asynchronous client    *)
(* (sendEvents) or one Send of the synchronous client starts with.  Each    *)
(* call it makes to the server is a message of its own: it may be lost, it  *)
(* may be slow, and the server goes on with it when the client has stopped  *)
(* waiting, as Produce does not look at the context.  The server may crash. *)
(* The handler of a call keeps the promise of BatchSend, no more: events    *)
(* that failed may be missing from the list of failures, but not all.       *)
(*                                                                          *)
(* Events stand for their position in the batch: AsyncClient and            *)
(* KafkaSender show that the indexes of a response fit the request.         *)
(***************************************************************************)
EXTENDS Integers, FiniteSets

CONSTANTS
  Batches,      \* the batches that sendRoutines hand to sendEvents
  Singles,      \* the requests of the synchronous client, of one event each
  MaxRetries    \* maxRetries

ASSUME GatewayAssumption ==
  /\ MaxRetries \in Nat
  /\ \A t \in Batches \cup Singles : t # {} /\ IsFiniteSet(t)
  /\ \A t \in Singles : Cardinality(t) = 1
  /\ \A t, u \in Batches \cup Singles : t = u \/ t \cap u = {}
  /\ Batches \cap Singles = {}

Requests == Batches \cup Singles
Events == UNION Requests

\* The n-th call that a request makes, counted from 0.
Calls == Requests \X (0 .. MaxRetries)

VARIABLES
  valid,        \* the events that SendEvent lets through to Kafka
  task,         \* the goroutine that makes the calls of the request
  req,          \* the events it still has to deliver
  retryCount,
  acked,        \* events delivered as far as the client knows
  dropped,      \* events the client gave up, or returned an error for
  wire,         \* where the call is
  body,         \* the events of the call
  stored,       \* Kafka: those of its events that the topic holds
  produced,     \* those for which SendEvent returned nil
  failed,       \* those for which it returned an error
  reply,        \* the failures the response lists
  heard         \* history: calls whose response the client has used

client == <<task, req, retryCount, acked, dropped, heard>>
server == <<stored, produced, failed, reply>>
vars == <<valid, client, wire, body, server>>

Init ==
  /\ valid \in SUBSET Events
  /\ task = [t \in Requests |-> "ready"]
  /\ req = [t \in Requests |-> t]
  /\ retryCount = [t \in Requests |-> 0]
  /\ acked = {} /\ dropped = {} /\ heard = {}
  /\ wire = [c \in Calls |-> "none"]
  /\ body = [c \in Calls |-> {}]
  /\ stored = [c \in Calls |-> {}]
  /\ produced = [c \in Calls |-> {}]
  /\ failed = [c \in Calls |-> {}]
  /\ reply = [c \in Calls |-> {}]

Current(t) == <<t, retryCount[t]>>

(* The clients. *)

\* Mutants: one retry too many; the synchronous client retries as well.
LimitBeyond(t) == IF t \in Singles THEN 0 ELSE MaxRetries + 1
SameLimit(t) == MaxRetries

\* Only the asynchronous client retries.
Limit(t) == IF t \in Singles THEN 0 ELSE MaxRetries

\* client.SendEvents, or client.SendEvent, sends its request.
Call(t) ==
  /\ task[t] = "ready"
  /\ retryCount[t] <= Limit(t)
  /\ task' = [task EXCEPT ![t] = "calling"]
  /\ wire' = [wire EXCEPT ![Current(t)] = "sent"]
  /\ body' = [body EXCEPT ![Current(t)] = req[t]]
  /\ UNCHANGED <<valid, req, retryCount, acked, dropped, heard, server>>

\* The retries of a batch are used up; the synchronous Send returns the error.
GiveUp(t) ==
  /\ task[t] = "ready"
  /\ retryCount[t] > Limit(t)
  /\ task' = [task EXCEPT ![t] = "done"]
  /\ dropped' = dropped \cup req[t]
  /\ UNCHANGED <<valid, req, retryCount, acked, heard, wire, body, server>>

\* The call fails or its timeout expires, whatever becomes of it meanwhile.
CallFails(t) ==
  /\ task[t] = "calling"
  /\ task' = [task EXCEPT ![t] = "ready"]
  /\ retryCount' = [retryCount EXCEPT ![t] = @ + 1]
  /\ UNCHANGED <<valid, req, acked, dropped, heard, wire, body, server>>

\* Mutants: the whole batch is sent again; the events not listed are.
ToRetryAll(t) == req[t]
ToRetryOthers(t) == req[t] \ reply[Current(t)]

\* The events to send again: those the response lists.
ToRetry(t) == reply[Current(t)]

\* The response arrives in time.  An event it does not list is delivered.
CallReturns(t) ==
  /\ task[t] = "calling"
  /\ wire[Current(t)] = "answered"
  /\ heard' = heard \cup {Current(t)}
  /\ acked' = acked \cup (req[t] \ reply[Current(t)])
  /\ IF reply[Current(t)] = {}
     THEN /\ task' = [task EXCEPT ![t] = "done"]
          /\ UNCHANGED <<req, retryCount>>
     ELSE /\ task' = [task EXCEPT ![t] = "ready"]
          /\ req' = [req EXCEPT ![t] = ToRetry(t)]
          /\ retryCount' = [retryCount EXCEPT ![t] = @ + 1]
  /\ UNCHANGED <<valid, dropped, wire, body, server>>

(* The network and the server. *)

\* A request or a response is lost on the way.
Lose(c) ==
  /\ wire[c] \in {"sent", "answered"}
  /\ wire' = [wire EXCEPT ![c] = "lost"]
  /\ UNCHANGED <<valid, client, body, server>>

\* The process of the server ends, with the goroutines of all its calls.
Crash ==
  /\ \E c \in Calls : wire[c] = "handling"
  /\ wire' = [c \in Calls |-> IF wire[c] = "handling" THEN "lost" ELSE wire[c]]
  /\ UNCHANGED <<valid, client, body, server>>

\* The request reaches the handler, which starts a goroutine for each event.
Handle(c) ==
  /\ wire[c] = "sent"
  /\ wire' = [wire EXCEPT ![c] = "handling"]
  /\ UNCHANGED <<valid, client, body, server>>

Settled(c) == produced[c] \cup failed[c]

\* SendEvent of one event, up to the acknowledgement of Kafka.  One Produce puts
\* one copy into Kafka, as it does with kafka.producer.retry.max 0, the default:
\* above it the library below Produce may send the message again by itself.
Produce(c, e) ==
  /\ wire[c] = "handling"
  /\ e \in (body[c] \cap valid) \ Settled(c)
  /\ stored' = [stored EXCEPT ![c] = @ \cup {e}]
  /\ produced' = [produced EXCEPT ![c] = @ \cup {e}]
  /\ UNCHANGED <<valid, client, wire, body, failed, reply>>

\* SendEvent refuses the event, or Produce fails.  In the second case Kafka
\* may hold the event all the same.
ProduceErr(c, e) ==
  /\ wire[c] = "handling"
  /\ e \in body[c] \ Settled(c)
  /\ failed' = [failed EXCEPT ![c] = @ \cup {e}]
  /\ \/ UNCHANGED stored
     \/ /\ e \in valid
        /\ stored' = [stored EXCEPT ![c] = @ \cup {e}]
  /\ UNCHANGED <<valid, client, wire, body, produced, reply>>

\* A mutant: the handler does not wait for the last event.
AllButOne(c) == Cardinality(body[c] \ Settled(c)) <= 1

AllSettled(c) == body[c] \subseteq Settled(c)

\* What a response may list: SendEvent returns its error as it is, SendEvents
\* loses some indexes in the race on the slice, never all of them.
Replies(c) ==
  IF c[1] \in Singles \/ failed[c] = {}
  THEN {failed[c]}
  ELSE (SUBSET failed[c]) \ {{}}

\* The handler responds.
Respond(c) ==
  /\ wire[c] = "handling"
  /\ AllSettled(c)
  /\ wire' = [wire EXCEPT ![c] = "answered"]
  /\ \E list \in Replies(c) : reply' = [reply EXCEPT ![c] = list]
  /\ UNCHANGED <<valid, client, body, stored, produced, failed>>

Next ==
  \/ \E t \in Requests : Call(t) \/ GiveUp(t) \/ CallFails(t) \/ CallReturns(t)
  \/ \E c \in Calls :
       \/ Handle(c) \/ Respond(c) \/ Lose(c)
       \/ \E e \in body[c] : Produce(c, e) \/ ProduceErr(c, e)
  \/ Crash

Spec == Init /\ [][Next]_vars

-----------------------------------------------------------------------------
(* Properties.                                                              *)

\* The variables keep their types; a request makes no more calls than it may.
TypeOK ==
  /\ valid \in SUBSET Events
  /\ task \in [Requests -> {"ready", "calling", "done"}]
  /\ req \in [Requests -> SUBSET Events]
  /\ retryCount \in [Requests -> 0 .. MaxRetries + 1]
  /\ acked \in SUBSET Events
  /\ dropped \in SUBSET Events
  /\ wire \in [Calls -> {"none", "sent", "handling", "answered", "lost"}]
  /\ {body, stored, produced, failed, reply} \subseteq [Calls -> SUBSET Events]
  /\ heard \in SUBSET Calls

\* The copies of an event in Kafka.
Copies(e) == {c \in Calls : e \in stored[c]}

\* README: "The Events Gateway service works following the At Least Once
\* semantics".  What the client takes for delivered is in Kafka.
AtLeastOnce == \A e \in acked : Copies(e) # {}

\* An event that is lost although the client takes it for delivered failed in a
\* call whose response lists other events and not this one: there is no other
\* way to lose an event silently.
LossOnlyByRace ==
  \A e \in acked : Copies(e) = {} =>
    \E c \in heard : e \in failed[c] \ reply[c] /\ reply[c] # {}

\* Duplicates have a cause: after a response that counts an event as delivered,
\* no call contains it, so all copies but one belong to calls that the client
\* has not heard of in time, or that failed after Kafka had appended them.
NoNeedlessCopy ==
  \A c, d \in Calls : \A e \in body[c] \cap body[d] :
    c \in heard /\ e \notin reply[c] /\ c[1] = d[1] => d[2] <= c[2]

\* An event is dropped, or its Send fails, only after as many calls as allowed,
\* none of which had a response that counts it as delivered.
DroppedForCause ==
  \A t \in Requests : \A e \in t \cap dropped :
    /\ e \notin acked
    /\ \A n \in 0 .. Limit(t) :
         /\ e \in body[<<t, n>>]
         /\ <<t, n>> \in heard => e \in reply[<<t, n>>]

\* The synchronous client makes one call, so it never duplicates an event; if
\* Send returns nil the event is in Kafka once.
SyncOnce ==
  \A t \in Singles : \A e \in t :
    /\ Cardinality(Copies(e)) <= 1
    /\ e \in acked => Cardinality(Copies(e)) = 1
=============================================================================
