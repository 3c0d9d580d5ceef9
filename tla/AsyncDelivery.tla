---------------------------- MODULE AsyncDelivery ----------------------------
(***************************************************************************)
(* What the asynchronous client promises to the application (client/async.go *)
(* and the part of the README on the client).  Send accepts an event; the   *)
(* event is then part of at most MaxRetries + 1 calls to the server, and it *)
(* ends acknowledged or, once the calls are used up, dropped, never both    *)
(* and never again pending.  GracefulStop closes the connection only when   *)
(* every event accepted before it was called has ended.                     *)
(*                                                                          *)
(* Nothing is promised about order: events of one sender may overtake each  *)
(* other, and those of one call may end at different times.                 *)
(***************************************************************************)
EXTENDS Integers

CONSTANTS Events, MaxRetries

VARIABLES
  pending,     \* events accepted that have not ended
  acked,
  dropped,
  attempts,    \* calls the event was part of
  owed,        \* events accepted before GracefulStop was called
  stop         \* "open", "waiting" or "closed"

vars == <<pending, acked, dropped, attempts, owed, stop>>

Init ==
  /\ pending = {} /\ acked = {} /\ dropped = {} /\ owed = {}
  /\ attempts = [e \in Events |-> 0]
  /\ stop = "open"

Accept(e) ==
  /\ e \notin pending \cup acked \cup dropped
  /\ pending' = pending \cup {e}
  /\ UNCHANGED <<acked, dropped, attempts, owed, stop>>

\* One call to the server.
Attempt(S) ==
  /\ S \subseteq pending
  /\ \A e \in S : attempts[e] <= MaxRetries
  /\ attempts' = [e \in Events |-> attempts[e] + IF e \in S THEN 1 ELSE 0]
  /\ UNCHANGED <<pending, acked, dropped, owed, stop>>

Acknowledge(S) ==
  /\ S \subseteq pending
  /\ stop # "closed"
  /\ \A e \in S : attempts[e] > 0
  /\ pending' = pending \ S
  /\ acked' = acked \cup S
  /\ UNCHANGED <<dropped, attempts, owed, stop>>

Drop(S) ==
  /\ S \subseteq pending
  /\ \A e \in S : attempts[e] = MaxRetries + 1
  /\ pending' = pending \ S
  /\ dropped' = dropped \cup S
  /\ UNCHANGED <<acked, attempts, owed, stop>>

GracefulStop ==
  /\ stop = "open"
  /\ stop' = "waiting"
  /\ owed' = pending \cup acked \cup dropped
  /\ UNCHANGED <<pending, acked, dropped, attempts>>

Close ==
  /\ stop = "waiting"
  /\ owed \cap pending = {}
  /\ stop' = "closed"
  /\ UNCHANGED <<pending, acked, dropped, attempts, owed>>

Next ==
  \/ \E e \in Events : Accept(e)
  \/ \E S \in SUBSET Events : Attempt(S) \/ Acknowledge(S) \/ Drop(S)
  \/ GracefulStop \/ Close

Spec == Init /\ [][Next]_vars
=============================================================================
