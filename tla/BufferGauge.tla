----------------------------- MODULE BufferGauge -----------------------------
(***************************************************************************)
(* AsyncClientEventsBufferSize, the gauge of the asynchronous client.       *)
(*                                                                          *)
(* Only sendRoutines set it: after each receive, to the length of the       *)
(* channel at that time, under the topic of the event received.  Receive,   *)
(* len and Set are three steps, and the routines share the gauge.           *)
(*                                                                          *)
(* An event is its topic here.  What a routine does with the event after    *)
(* the update is in AsyncClient and does not touch the gauge.               *)
(***************************************************************************)
EXTENDS Integers, Sequences

CONSTANTS
  Topics,
  Routines,        \* the sendRoutines
  ChannelBuffer,   \* capacity of eventsChannel
  MaxSends,        \* bound: the events that the application sends
  NoTopic          \* what a routine without an event holds

VARIABLES
  sent,            \* the events sent so far
  eventsChannel,
  routine,         \* where each sendRoutine is
  received,        \* the topic of the event it has received
  length,          \* the length of the channel that it has read
  gauge            \* AsyncClientEventsBufferSize

vars == <<sent, eventsChannel, routine, received, length, gauge>>

Init ==
  /\ sent = 0
  /\ eventsChannel = <<>>
  /\ routine = [r \in Routines |-> "select"]
  /\ received = [r \in Routines |-> NoTopic]
  /\ length = [r \in Routines |-> 0]
  /\ gauge = [topic \in Topics |-> 0]

\* send: it leaves the gauge as it is.
Send(topic) ==
  /\ sent < MaxSends
  /\ Len(eventsChannel) < ChannelBuffer
  /\ sent' = sent + 1
  /\ eventsChannel' = Append(eventsChannel, topic)
  /\ UNCHANGED <<routine, received, length, gauge>>

\* Of several routines that wait any one receives the event.
Receive(r) ==
  /\ routine[r] = "select"
  /\ eventsChannel # <<>>
  /\ routine' = [routine EXCEPT ![r] = "received"]
  /\ received' = [received EXCEPT ![r] = Head(eventsChannel)]
  /\ eventsChannel' = Tail(eventsChannel)
  /\ UNCHANGED <<sent, length, gauge>>

\* len(a.eventsChannel)
Measure(r) ==
  /\ routine[r] = "received"
  /\ routine' = [routine EXCEPT ![r] = "measured"]
  /\ length' = [length EXCEPT ![r] = Len(eventsChannel)]
  /\ UNCHANGED <<sent, eventsChannel, received, gauge>>

\* WithLabelValues(e.Topic).Set
Set(r) ==
  /\ routine[r] = "measured"
  /\ gauge' = [gauge EXCEPT ![received[r]] = length[r]]
  /\ routine' = [routine EXCEPT ![r] = "select"]
  /\ received' = [received EXCEPT ![r] = NoTopic]
  /\ length' = [length EXCEPT ![r] = 0]
  /\ UNCHANGED <<sent, eventsChannel>>

SendRoutine(r) == Receive(r) \/ Measure(r) \/ Set(r)

Next ==
  \/ \E topic \in Topics : Send(topic)
  \/ \E r \in Routines : SendRoutine(r)

Spec == Init /\ [][Next]_vars

-----------------------------------------------------------------------------
(* Properties.                                                              *)

Idle == \A r \in Routines : routine[r] = "select"

\* "the number of current events in the eventsChannel buffer", at least while
\* nothing happens and the channel is empty.
ZeroWhenEmpty ==
  Idle /\ eventsChannel = <<>> => \A topic \in Topics : gauge[topic] = 0
=============================================================================
