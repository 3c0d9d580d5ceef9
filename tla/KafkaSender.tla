----------------------------- MODULE KafkaSender -----------------------------
(***************************************************************************)
(* One call of KafkaSender.SendEvents (server/sender/kafka.go).             *)
(*                                                                          *)
(* The call starts one goroutine for each event of the batch and waits for  *)
(* all of them on a WaitGroup.  A goroutine runs SendEvent and, if that     *)
(* fails, appends the index of its event to failureIndexes, a slice all the *)
(* goroutines share without a lock.  An append that fits the capacity       *)
(* reads the length of the slice, stores the length plus one, and stores    *)
(* the index in the backing array; the two stores may become visible to the *)
(* other goroutines in either order.  The capacity is len(events), and      *)
(* SlotFits says that it suffices: the slice is never reallocated, so the   *)
(* pointer and the capacity of its header do not change.                    *)
(*                                                                          *)
(* Indexes count from 0, as in the source.                                  *)
(***************************************************************************)
EXTENDS Integers, Sequences, FiniteSets, Functions

CONSTANT N             \* len(events)

ASSUME BatchAssumption == N \in Nat

Index == 0 .. N - 1

VARIABLES
  valid,      \* the events of the batch that SendEvent lets through to Kafka
  spawned,    \* how many goroutines the loop over the batch has started
  pc,         \* where the goroutine of each event is
  wg,         \* counter of the WaitGroup
  seen,       \* the length an appending goroutine has read
  todo,       \* the stores of its append that are not visible yet
  len,        \* length of failureIndexes
  backing,    \* its backing array
  failed,     \* history: events whose SendEvent returned an error
  stored,     \* Kafka: events appended to their topic
  returned,   \* SendEvents has returned
  reply       \* what it returned

slice == <<seen, todo, len, backing>>
vars == <<valid, spawned, pc, wg, slice, failed, stored, returned, reply>>

-----------------------------------------------------------------------------
(* wg.Add(len(events)) and make([]int64, 0, len(events)).                   *)
Init ==
  /\ valid \in SUBSET Index
  /\ spawned = 0
  /\ pc = [j \in Index |-> "unborn"]
  /\ wg = N
  /\ seen = [j \in Index |-> 0]
  /\ todo = [j \in Index |-> {}]
  /\ len = 0
  /\ backing = [p \in Index |-> 0]
  /\ failed = {}
  /\ stored = {}
  /\ returned = FALSE
  /\ reply = << >>

Goto(j, from, to) ==
  /\ pc[j] = from
  /\ pc' = [pc EXCEPT ![j] = to]

\* The loop over the batch starts the next goroutine.
Spawn ==
  /\ spawned < N
  /\ Goto(spawned, "unborn", "sending")
  /\ spawned' = spawned + 1
  /\ UNCHANGED <<valid, wg, slice, failed, stored, returned, reply>>

\* SendEvent returns an error before it produces: the event is too large, it
\* lacks its id, name, topic or timestamp, or it does not serialize.
Reject(j) ==
  /\ j \notin valid
  /\ Goto(j, "sending", "append")
  /\ failed' = failed \cup {j}
  /\ UNCHANGED <<valid, spawned, wg, slice, stored, returned, reply>>

\* Produce succeeds: the leader of the partition has appended the event.
ProduceOk(j) ==
  /\ j \in valid
  /\ Goto(j, "sending", "finish")
  /\ stored' = stored \cup {j}
  /\ UNCHANGED <<valid, spawned, wg, slice, failed, returned, reply>>

\* Mutant: the error of Produce is logged and not returned.
ProduceErrIgnored(j) ==
  /\ j \in valid
  /\ Goto(j, "sending", "finish")
  /\ UNCHANGED <<valid, spawned, wg, slice, failed, stored, returned, reply>>

\* Produce fails: the event is lost on the way to the broker, or it is
\* appended and the acknowledgement is lost.
ProduceErr(j) ==
  /\ j \in valid
  /\ Goto(j, "sending", "append")
  /\ failed' = failed \cup {j}
  /\ \/ UNCHANGED stored
     \/ stored' = stored \cup {j}
  /\ UNCHANGED <<valid, spawned, wg, slice, returned, reply>>

\* failureIndexes = append(failureIndexes, int64(j)), first step: read the
\* length.
LoadLen(j) ==
  /\ Goto(j, "append", "store")
  /\ seen' = [seen EXCEPT ![j] = len]
  /\ todo' = [todo EXCEPT ![j] = {"len", "elem"}]
  /\ UNCHANGED <<valid, spawned, wg, len, backing, failed, stored, returned,
                 reply>>

\* Mutants: the index is stored twice, or the length is not stored.
NewLenTwice(j) == seen[j] + 2
NewLenForgotten(j) == seen[j]

NewLen(j) == seen[j] + 1

\* The new length becomes visible.
StoreLen(j) ==
  /\ pc[j] = "store" /\ "len" \in todo[j]
  /\ len' = NewLen(j)
  /\ todo' = [todo EXCEPT ![j] = @ \ {"len"}]
  /\ UNCHANGED <<valid, spawned, pc, wg, seen, backing, failed, stored,
                 returned, reply>>

\* The new element becomes visible.
StoreElem(j) ==
  /\ pc[j] = "store" /\ "elem" \in todo[j]
  /\ backing' = [backing EXCEPT ![seen[j]] = j]
  /\ todo' = [todo EXCEPT ![j] = @ \ {"elem"}]
  /\ UNCHANGED <<valid, spawned, pc, wg, seen, len, failed, stored,
                 returned, reply>>

\* Mutants: a deferred wg.Done besides the explicit one; a return after the
\* append.
FinishTwice(j) ==
  /\ pc[j] = "finish" \/ (pc[j] = "store" /\ todo[j] = {})
  /\ pc' = [pc EXCEPT ![j] = "done"]
  /\ wg' = wg - 2
  /\ UNCHANGED <<valid, spawned, slice, failed, stored, returned, reply>>

FinishUnlessFailed(j) ==
  /\ Goto(j, "finish", "done")
  /\ wg' = wg - 1
  /\ UNCHANGED <<valid, spawned, slice, failed, stored, returned, reply>>

\* wg.Done, which makes both stores visible to the goroutine that waits.
Finish(j) ==
  /\ \/ pc[j] = "finish"
     \/ pc[j] = "store" /\ todo[j] = {}
  /\ pc' = [pc EXCEPT ![j] = "done"]
  /\ wg' = wg - 1
  /\ UNCHANGED <<valid, spawned, slice, failed, stored, returned, reply>>

\* Mutants: wg.Add was called in the goroutines and had not counted the last
\* one; the slice was made with length, not capacity, len(events).
OneLeft == wg <= 1
WholeArray == [i \in 1 .. N |-> backing[i - 1]]

WaitOver == wg = 0
Slice == [i \in 1 .. len |-> backing[i - 1]]

\* wg.Wait is over: return the slice.
Return ==
  /\ ~returned
  /\ spawned = N
  /\ WaitOver
  /\ returned' = TRUE
  /\ reply' = Slice
  /\ UNCHANGED <<valid, spawned, pc, wg, slice, failed, stored>>

Goroutine(j) ==
  \/ Reject(j) \/ ProduceOk(j) \/ ProduceErr(j)
  \/ LoadLen(j) \/ StoreLen(j) \/ StoreElem(j)
  \/ Finish(j)

Next ==
  \/ Spawn
  \/ \E j \in Index : Goroutine(j)
  \/ Return

Spec == Init /\ [][Next]_vars

(* Goroutines are scheduled, and Produce always comes back: the dial, read,  *)
(* write and producer timeouts of the Kafka configuration bound it.          *)
Fairness ==
  /\ WF_vars(Spawn) /\ WF_vars(Return)
  /\ \A j \in Index : WF_vars(Goroutine(j))

FairSpec == Spec /\ Fairness

-----------------------------------------------------------------------------
(* Properties.                                                              *)

\* The variables keep their types; in particular the WaitGroup counter never
\* becomes negative, which would panic in Done.
TypeOK ==
  /\ valid \in SUBSET Index
  /\ spawned \in 0 .. N
  /\ pc \in [Index -> {"unborn", "sending", "append", "store", "finish", "done"}]
  /\ wg \in 0 .. N
  /\ seen \in [Index -> Nat]
  /\ todo \in [Index -> SUBSET {"len", "elem"}]
  /\ len \in Nat
  /\ backing \in [Index -> Index]
  /\ failed \in SUBSET Index
  /\ stored \in SUBSET Index
  /\ returned \in BOOLEAN
  /\ reply \in Seq(Index)

\* Goroutines that have read the length and so own a slot of the array.
Appending == {j \in Index : j \in failed /\ pc[j] \in {"store", "done"}}

\* However the appends of a batch interleave, each of them finds room in the
\* array made with capacity len(events): the index of its slot is in range,
\* and append never moves the array away from under the other goroutines.
SlotFits == \A j \in Appending : seen[j] < N

\* SendEvents returns after the last goroutine is done: no goroutine of the
\* call writes to the slice once the server is marshalling the response.
NoWriteAfterReturn == returned => \A j \in Index : pc[j] = "done"

\* Each index in the response is that of an event that failed, and no index
\* comes twice: the client never resends an event Kafka acknowledged, its
\* req.Events[index] is always in range, and a retried batch has no duplicate.
ReplyIsSound ==
  /\ \A i \in 1 .. Len(reply) : reply[i] \in failed
  /\ IsInjective(reply)

\* The lost updates of the unsynchronised append never empty the response of a
\* batch with a failure: the client does not take a failed batch for sent.
SomeFailureReported == returned /\ failed # {} => reply # << >>

\* What server/app/server.go says of the response and client/async.go relies
\* on: every event that failed is reported.
AllFailuresReported == returned => failed \subseteq Range(reply)

\* SendEvents keeps the promise of the abstract call.
Acked == {j \in Index : j \notin failed /\ pc[j] \in {"finish", "done"}}
Promise == INSTANCE BatchSend WITH acked <- Acked
KeepsPromise == Promise!Spec

\* Every call returns: no failure path forgets its wg.Done.
Returns == <>returned
=============================================================================
