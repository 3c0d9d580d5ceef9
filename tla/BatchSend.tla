------------------------------ MODULE BatchSend ------------------------------
(***************************************************************************)
(* What one call of Sender.SendEvents (server/sender/sender.go) promises    *)
(* to the gRPC server: each event of the batch is settled once, as          *)
(* acknowledged by Kafka or as failed, and the call then returns a list of  *)
(* failure indexes.  The list names failed events only, none of them twice, *)
(* and it is not empty when something failed.                               *)
(*                                                                          *)
(* The promise stops short of "every failed event is listed", which the     *)
(* callers of SendEvents rely on: KafkaSender does not keep that one.       *)
(***************************************************************************)
EXTENDS Integers, Sequences, Functions

CONSTANT Index        \* positions in the batch

VARIABLES
  stored,     \* events Kafka has appended to the topic
  acked,      \* events whose SendEvent returned nil
  failed,     \* events whose SendEvent returned an error
  returned,   \* SendEvents has returned
  reply       \* the failure indexes it returned

vars == <<stored, acked, failed, returned, reply>>

Settled == acked \cup failed

Init ==
  /\ stored = {} /\ acked = {} /\ failed = {}
  /\ returned = FALSE
  /\ reply = << >>

\* Kafka acknowledges an event: it is in the topic.
Acknowledge(j) ==
  /\ j \notin Settled
  /\ stored' = stored \cup {j}
  /\ acked' = acked \cup {j}
  /\ UNCHANGED <<failed, returned, reply>>

\* An event fails.  A produce that failed may have reached the topic.
Fail(j) ==
  /\ j \notin Settled
  /\ failed' = failed \cup {j}
  /\ \/ UNCHANGED stored
     \/ stored' = stored \cup {j}
  /\ UNCHANGED <<acked, returned, reply>>

\* The lists of failure indexes a call may return.
Honest(list) ==
  /\ list \in Seq(failed)
  /\ IsInjective(list)
  /\ failed # {} => list # << >>

Return(list) ==
  /\ ~returned
  /\ Settled = Index
  /\ Honest(list)
  /\ returned' = TRUE
  /\ reply' = list
  /\ UNCHANGED <<stored, acked, failed>>

Next ==
  \/ \E j \in Index : Acknowledge(j) \/ Fail(j)
  \/ Return(reply')

Spec == Init /\ [][Next]_vars
=============================================================================
