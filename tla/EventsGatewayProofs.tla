------------------------- MODULE EventsGatewayProofs -------------------------
(***************************************************************************)
(* Proofs about EventsGateway: any number of batches and synchronous sends, *)
(* of any size, and any number of retries.                                  *)
(*                                                                          *)
(* The argument follows an event through the calls of its request.  Each    *)
(* call made so far contained it, as long as it is still to be delivered,   *)
(* and no response the client has used took it off; the response that takes *)
(* it off is the reason why it is acked, and its handler had settled it.    *)
(***************************************************************************)
EXTENDS EventsGateway, FiniteSetTheorems, TLAPS

\* Calls are made in order, within the limit; one that is not made is blank.
Order ==
  /\ \A t \in Requests :
       /\ retryCount[t] <= Limit(t) + 1
       /\ task[t] = "calling" => retryCount[t] <= Limit(t)
  /\ \A c \in Calls : wire[c] # "none" =>
       /\ c[2] <= Limit(c[1])
       /\ \/ c[2] < retryCount[c[1]]
          \/ c[2] = retryCount[c[1]] /\ task[c[1]] # "ready"

Blank ==
  \A c \in Calls : wire[c] = "none" =>
    /\ body[c] = {} /\ stored[c] = {} /\ produced[c] = {} /\ failed[c] = {}
    /\ c \notin heard

\* A call carries events of its request, and the handler settles no others.
Contents ==
  /\ \A t \in Requests : req[t] \subseteq t
  /\ \A c \in Calls :
       /\ body[c] \subseteq c[1]
       /\ produced[c] \subseteq stored[c]
       /\ stored[c] \subseteq body[c]
       /\ failed[c] \subseteq body[c]
  /\ \A t \in Requests : task[t] = "calling" =>
       body[Current(t)] = req[t] /\ wire[Current(t)] # "none"

\* What a response says of a call, by the promise of the handler.
Sound(c) ==
  /\ body[c] \subseteq Settled(c)
  /\ reply[c] \subseteq failed[c]
  /\ failed[c] # {} => reply[c] # {}
  /\ c[1] \in Singles => reply[c] = failed[c]

Responses ==
  \A c \in Calls :
    /\ wire[c] = "answered" => Sound(c)
    /\ c \in heard => Sound(c) /\ wire[c] \in {"answered", "lost"}

\* An event is acked because of a response ...
Acks == \A e \in acked : \E c \in heard : e \in body[c] \ reply[c]

\* ... and then no longer to be delivered.
Left ==
  \A c \in heard : \A e \in body[c] \ reply[c] :
    /\ task[c[1]] = "done" \/ e \notin req[c[1]]
    /\ \A d \in Calls : d[1] = c[1] /\ d[2] > c[2] => e \notin body[d]

\* An event still to be delivered was part of each call, in vain.
Tries ==
  \A t \in Requests : \A n \in 0 .. MaxRetries : n < retryCount[t] =>
    \A e \in req[t] :
      /\ e \in body[<<t, n>>]
      /\ <<t, n>> \in heard => e \in reply[<<t, n>>]

DroppedIsDone ==
  /\ DroppedForCause
  /\ \A t \in Requests : t \cap dropped # {} => task[t] = "done"

IInv ==
  /\ TypeOK /\ Order /\ Blank /\ Contents /\ Responses
  /\ Acks /\ Left /\ Tries /\ DroppedIsDone

-----------------------------------------------------------------------------
LEMMA LimitType == \A t \in Requests : Limit(t) \in 0 .. MaxRetries
BY GatewayAssumption DEF Limit, Requests

\* Two requests that share an event are the same.
LEMMA Disjoint ==
  ASSUME NEW t \in Requests, NEW u \in Requests, NEW e \in t, e \in u
  PROVE  t = u
BY GatewayAssumption DEF Requests

LEMMA InitIInv == Init => IInv
<1> SUFFICES ASSUME Init PROVE IInv
  OBVIOUS
<1> USE GatewayAssumption DEF Init
<1>1. TypeOK
  <2>1. /\ task \in [Requests -> {"ready", "calling", "done"}]
        /\ retryCount \in [Requests -> 0 .. MaxRetries + 1]
        /\ wire \in [Calls -> {"none", "sent", "handling", "answered", "lost"}]
    OBVIOUS
  <2>2. req \in [Requests -> SUBSET Events]
    BY DEF Events
  <2> QED  BY <2>1, <2>2 DEF TypeOK
<1>2. Order /\ Blank
  BY LimitType DEF Order, Blank
<1>3. Contents /\ Responses
  BY DEF Contents, Responses
<1>4. Acks /\ Left
  BY DEF Acks, Left
<1>5. Tries
  BY DEF Tries
<1>6. DroppedIsDone
  BY DEF DroppedIsDone, DroppedForCause
<1> QED  BY <1>1, <1>2, <1>3, <1>4, <1>5, <1>6 DEF IInv

\* Lose, Crash and Handle move calls on their way and change nothing else.
LEMMA WireStep ==
  ASSUME IInv,
         (\E c \in Calls : Lose(c) \/ Handle(c)) \/ Crash
  PROVE  IInv'
<1>0. /\ UNCHANGED <<valid, client, body, server>>
      /\ wire' \in [Calls -> {"none", "sent", "handling", "answered", "lost"}]
      /\ \A c \in Calls :
           /\ wire'[c] = "none" <=> wire[c] = "none"
           /\ wire'[c] = "answered" => wire[c] = "answered"
           /\ wire[c] \in {"answered", "lost"} => wire'[c] \in {"answered", "lost"}
  BY DEF Lose, Handle, Crash, IInv, TypeOK
<1> USE <1>0 DEF client, server
<1>1. TypeOK'
  BY DEF IInv, TypeOK
<1>2. Order' /\ Blank'
  BY DEF IInv, Order, Blank
<1>3. Contents'
  <2>1. \A t \in Requests : task[t] = "calling" => Current(t) \in Calls
    BY LimitType, GatewayAssumption DEF IInv, TypeOK, Order, Current, Calls
  <2> QED  BY <2>1 DEF IInv, Contents, Current
<1>4. Responses'
  BY DEF IInv, Responses, Sound, Settled
<1>5. Acks' /\ Left' /\ Tries' /\ DroppedIsDone'
  BY DEF IInv, Acks, Left, Tries, DroppedIsDone, DroppedForCause
<1> QED  BY <1>1, <1>2, <1>3, <1>4, <1>5 DEF IInv

\* Produce and ProduceErr settle an event of a call that is being handled.
LEMMA SettleStep ==
  ASSUME IInv, NEW c \in Calls, NEW e \in body[c],
         Produce(c, e) \/ ProduceErr(c, e)
  PROVE  IInv'
<1>0. /\ UNCHANGED <<valid, client, wire, body, reply>>
      /\ wire[c] = "handling" /\ c \notin heard
      /\ \A d \in Calls : d # c =>
           produced'[d] = produced[d] /\ failed'[d] = failed[d] /\ stored'[d] = stored[d]
      /\ \/ produced'[c] = produced[c] \cup {e} /\ failed'[c] = failed[c]
            /\ stored'[c] = stored[c] \cup {e}
         \/ produced'[c] = produced[c] /\ failed'[c] = failed[c] \cup {e}
            /\ stored'[c] \in {stored[c], stored[c] \cup {e}}
  BY DEF Produce, ProduceErr, IInv, TypeOK, Responses
<1> USE <1>0 DEF client
<1>1. TypeOK'
  <2>1. e \in Events
    BY DEF IInv, TypeOK
  <2>2. {stored', produced', failed'} \subseteq [Calls -> SUBSET Events]
    BY <2>1 DEF IInv, TypeOK, Produce, ProduceErr
  <2> QED  BY <2>2 DEF IInv, TypeOK
<1>2. Order' /\ Blank'
  BY DEF IInv, Order, Blank
<1>3. Contents'
  <2>1. \A d \in Calls : /\ produced'[d] \subseteq stored'[d]
                         /\ stored'[d] \subseteq body[d] /\ failed'[d] \subseteq body[d]
    BY DEF IInv, Contents
  <2> QED  BY <2>1 DEF IInv, Contents, Current
<1>4. Responses'
  BY DEF IInv, Responses, Sound, Settled
<1>5. Acks' /\ Left' /\ Tries' /\ DroppedIsDone'
  BY DEF IInv, Acks, Left, Tries, DroppedIsDone, DroppedForCause
<1> QED  BY <1>1, <1>2, <1>3, <1>4, <1>5 DEF IInv

LEMMA RespondStep ==
  ASSUME IInv, NEW c \in Calls, Respond(c)
  PROVE  IInv'
<1>0. PICK list \in Replies(c) :
        /\ UNCHANGED <<valid, client, body, stored, produced, failed>>
        /\ wire[c] = "handling" /\ c \notin heard
        /\ AllSettled(c)
        /\ wire' = [wire EXCEPT ![c] = "answered"]
        /\ reply' = [reply EXCEPT ![c] = list]
  BY DEF Respond, IInv, Responses
<1>1. list \subseteq failed[c]
  BY DEF Replies
<1> USE <1>0 DEF client
<1>2. TypeOK'
  <2>1. list \in SUBSET Events
    BY <1>1 DEF IInv, TypeOK
  <2>2. reply' \in [Calls -> SUBSET Events]
    BY <2>1 DEF IInv, TypeOK
  <2> QED  BY <2>2 DEF IInv, TypeOK
<1>3. /\ \A d \in Calls : d # c => wire'[d] = wire[d] /\ reply'[d] = reply[d]
      /\ wire'[c] = "answered" /\ reply'[c] = list
  BY DEF IInv, TypeOK
<1>4. Order' /\ Blank'
  BY <1>3 DEF IInv, Order, Blank
<1>5. Contents'
  <2>1. \A t \in Requests : task[t] = "calling" => Current(t) \in Calls
    BY LimitType, GatewayAssumption DEF IInv, TypeOK, Order, Current, Calls
  <2> QED  BY <1>3, <2>1 DEF IInv, Contents, Current
<1>6. Responses'
  <2>0. list = failed[c] \/ list \in (SUBSET failed[c]) \ {{}}
    BY DEF Replies
  <2>1. Sound(c)'
    <3>1. body[c] \subseteq Settled(c)
      BY DEF AllSettled
    <3>2. failed[c] # {} => list # {}
      BY <2>0
    <3>3. c[1] \in Singles => list = failed[c]
      BY DEF Replies
    <3> QED  BY <1>1, <1>3, <3>1, <3>2, <3>3 DEF Sound, Settled
  <2>2. \A d \in Calls : d # c => (Sound(d)' <=> Sound(d))
    BY <1>3 DEF Sound, Settled
  <2> QED  BY <1>3, <2>1, <2>2 DEF IInv, Responses
<1>7. Acks' /\ Left'
  <2>1. \A d \in heard : d \in Calls /\ reply'[d] = reply[d]
    BY <1>3 DEF IInv, TypeOK
  <2> QED  BY <2>1 DEF IInv, Acks, Left
<1>8. Tries' /\ DroppedIsDone'
  <2>1. \A d \in heard : reply'[d] = reply[d]
    BY <1>3 DEF IInv, TypeOK
  <2> QED  BY <2>1 DEF IInv, Tries, DroppedIsDone, DroppedForCause
<1> QED  BY <1>2, <1>4, <1>5, <1>6, <1>7, <1>8 DEF IInv

\* A call under way is one of the calls; all later ones are still to be made.
LEMMA CurrentCall ==
  ASSUME IInv, NEW t \in Requests,
         task[t] = "calling" \/ retryCount[t] <= Limit(t)
  PROVE  /\ Current(t) \in Calls
         /\ retryCount[t] \in 0 .. Limit(t)
         /\ \A d \in Calls : d[1] = t /\ d[2] > retryCount[t] =>
              wire[d] = "none" /\ body[d] = {}
<1>1. retryCount[t] \in 0 .. Limit(t) /\ Limit(t) \in 0 .. MaxRetries
  BY LimitType DEF IInv, TypeOK, Order
<1>2. Current(t) \in Calls
  BY <1>1, GatewayAssumption DEF Current, Calls
<1>3. ASSUME NEW d \in Calls, d[1] = t, d[2] > retryCount[t]
      PROVE  wire[d] = "none" /\ body[d] = {}
  <2>1. d[2] \in Int
    BY GatewayAssumption DEF Calls
  <2>2. wire[d] = "none"
    BY <1>1, <1>3, <2>1 DEF IInv, Order
  <2> QED  BY <2>2 DEF IInv, Blank
<1> QED  BY <1>1, <1>2, <1>3

LEMMA CallStep ==
  ASSUME IInv, NEW t \in Requests, Call(t)
  PROVE  IInv'
<1> DEFINE c == Current(t)
<1>0. /\ task[t] = "ready" /\ retryCount[t] <= Limit(t)
      /\ UNCHANGED <<valid, req, retryCount, acked, dropped, heard, server>>
      /\ task' = [task EXCEPT ![t] = "calling"]
      /\ wire' = [wire EXCEPT ![c] = "sent"]
      /\ body' = [body EXCEPT ![c] = req[t]]
  BY DEF Call
<1>1. /\ c \in Calls /\ c[1] = t /\ c[2] = retryCount[t] /\ c[2] <= Limit(t)
      /\ retryCount[t] \in 0 .. Limit(t)
  BY <1>0, CurrentCall DEF Current
<1>2. wire[c] = "none" /\ c \notin heard
  BY <1>0, <1>1 DEF IInv, Order, Blank
<1>3. /\ \A d \in Calls : d # c => wire'[d] = wire[d] /\ body'[d] = body[d]
      /\ wire'[c] = "sent" /\ body'[c] = req[t]
      /\ \A u \in Requests : u # t => task'[u] = task[u]
      /\ task'[t] = "calling"
  BY <1>0, <1>1 DEF IInv, TypeOK
<1> HIDE DEF c
<1> USE <1>0 DEF server
<1>4. TypeOK'
  <2>1. req[t] \in SUBSET Events
    BY DEF IInv, TypeOK
  <2>2. /\ task' \in [Requests -> {"ready", "calling", "done"}]
        /\ wire' \in [Calls -> {"none", "sent", "handling", "answered", "lost"}]
        /\ body' \in [Calls -> SUBSET Events]
    BY <1>1, <2>1 DEF IInv, TypeOK
  <2> QED  BY <2>2 DEF IInv, TypeOK
<1>5. Order'
  <2>1. \A u \in Requests : retryCount[u] <= Limit(u) + 1
                            /\ (task'[u] = "calling" => retryCount[u] <= Limit(u))
    BY <1>3 DEF IInv, Order
  <2>2. \A d \in Calls : wire'[d] # "none" =>
          /\ d[2] <= Limit(d[1])
          /\ \/ d[2] < retryCount[d[1]]
             \/ d[2] = retryCount[d[1]] /\ task'[d[1]] # "ready"
    <3> TAKE d \in Calls
    <3>1. CASE d = c
      BY <1>1, <1>3, <3>1
    <3>2. CASE d # c
      <4>1. d[1] \in Requests
        BY DEF Calls
      <4> QED  BY <1>3, <3>2, <4>1 DEF IInv, Order
    <3> QED  BY <3>1, <3>2
  <2> QED  BY <2>1, <2>2 DEF Order, Limit
<1>6. Blank'
  BY <1>3 DEF IInv, Blank
<1>7. Contents'
  <2>1. \A d \in Calls :
          /\ body'[d] \subseteq d[1] /\ produced[d] \subseteq stored[d]
          /\ stored[d] \subseteq body'[d] /\ failed[d] \subseteq body'[d]
    <3> TAKE d \in Calls
    <3>1. CASE d = c
      BY <1>1, <1>2, <1>3, <3>1 DEF IInv, Contents, Blank
    <3>2. CASE d # c
      BY <1>3, <3>2 DEF IInv, Contents
    <3> QED  BY <3>1, <3>2
  <2>2. ASSUME NEW u \in Requests, task'[u] = "calling"
        PROVE  body'[Current(u)] = req[u] /\ wire'[Current(u)] # "none"
    <3>1. CASE u = t
      BY <1>3, <3>1 DEF c
    <3>2. CASE u # t
      <4>1. task[u] = "calling" /\ Current(u) \in Calls
        BY <1>3, <2>2, <3>2, CurrentCall
      <4>2. Current(u) # c
        BY <3>2 DEF Current, c
      <4> QED  BY <1>3, <4>1, <4>2 DEF IInv, Contents
    <3> QED  BY <3>1, <3>2
  <2> QED  BY <2>1, <2>2 DEF IInv, Contents, Current
<1>8. Responses'
  <2>1. \A d \in Calls : d # c => (Sound(d)' <=> Sound(d))
    BY <1>3 DEF Sound, Settled
  <2> QED  BY <1>2, <1>3, <2>1 DEF IInv, Responses
<1>9. Acks' /\ Left'
  <2>1. \A d \in heard : d \in Calls /\ d # c /\ body'[d] = body[d]
    BY <1>2, <1>3 DEF IInv, TypeOK
  <2>2. Acks'
    BY <2>1 DEF IInv, Acks
  <2>3. ASSUME NEW d \in heard, NEW e \in body'[d] \ reply[d]
        PROVE  /\ task'[d[1]] = "done" \/ e \notin req[d[1]]
               /\ \A x \in Calls : x[1] = d[1] /\ x[2] > d[2] => e \notin body'[x]
    <3>1. e \in body[d] \ reply[d] /\ d[1] \in Requests
      BY <2>1 DEF Calls
    <3>2. /\ task[d[1]] = "done" \/ e \notin req[d[1]]
          /\ \A x \in Calls : x[1] = d[1] /\ x[2] > d[2] => e \notin body[x]
      BY <3>1 DEF IInv, Left
    <3>3. d[1] = t => e \notin req[t]
      BY <3>2
    <3> QED  BY <1>1, <1>3, <3>1, <3>2, <3>3
  <2> QED  BY <2>2, <2>3 DEF Left
<1>10. Tries'
  <2>1. \A u \in Requests : \A n \in 0 .. MaxRetries : n < retryCount[u] =>
          body'[<<u, n>>] = body[<<u, n>>]
    <3>1. \A u \in Requests : \A n \in 0 .. MaxRetries :
            <<u, n>> \in Calls /\ (u = t /\ n < retryCount[t] => n # c[2])
      BY <1>1, GatewayAssumption DEF Calls
    <3> QED  BY <1>1, <1>3, <3>1
  <2> QED  BY <2>1 DEF IInv, Tries
<1>11. DroppedIsDone'
  <2>1. t \cap dropped = {}
    BY DEF IInv, DroppedIsDone
  <2>2. \A u \in Requests : u \cap dropped # {} => u # t /\ task'[u] = "done"
    BY <1>3, <2>1 DEF IInv, DroppedIsDone
  <2>3. \A u \in Requests : \A n \in 0 .. Limit(u) : u # t =>
          body'[<<u, n>>] = body[<<u, n>>]
    <3>1. \A u \in Requests : \A n \in 0 .. Limit(u) : <<u, n>> \in Calls
      BY LimitType, GatewayAssumption DEF Calls
    <3> QED  BY <1>1, <1>3, <3>1
  <2> QED  BY <2>2, <2>3 DEF IInv, DroppedIsDone, DroppedForCause, Limit
<1> QED  BY <1>4, <1>5, <1>6, <1>7, <1>8, <1>9, <1>10, <1>11 DEF IInv

LEMMA GiveUpStep ==
  ASSUME IInv, NEW t \in Requests, GiveUp(t)
  PROVE  IInv'
<1>0. /\ task[t] = "ready" /\ retryCount[t] > Limit(t)
      /\ UNCHANGED <<valid, req, retryCount, acked, heard, wire, body, server>>
      /\ task' = [task EXCEPT ![t] = "done"]
      /\ dropped' = dropped \cup req[t]
  BY DEF GiveUp
<1>1. /\ \A u \in Requests : u # t => task'[u] = task[u]
      /\ task'[t] = "done"
      /\ \A c \in Calls : c[1] \in Requests
      /\ req[t] \subseteq t
  BY <1>0 DEF IInv, TypeOK, Calls, Contents
<1> USE <1>0 DEF server
<1>2. TypeOK'
  BY DEF IInv, TypeOK
<1>3. Order' /\ Blank'
  BY <1>1 DEF IInv, Order, Blank, Limit
<1>4. Contents'
  <2>1. \A u \in Requests : task'[u] = "calling" => task[u] = "calling"
    BY <1>1
  <2> QED  BY <2>1 DEF IInv, Contents, Current
<1>5. Responses'
  BY DEF IInv, Responses, Sound, Settled
<1>6. Acks' /\ Left' /\ Tries'
  <2>1. Acks' /\ Tries'
    BY DEF IInv, Acks, Tries
  <2>2. \A c \in heard : c[1] \in Requests /\ (task[c[1]] = "done" => task'[c[1]] = "done")
    BY <1>1 DEF IInv, TypeOK
  <2> QED  BY <2>1, <2>2 DEF IInv, Left
<1>7. DroppedIsDone'
  <2>1. ASSUME NEW e \in req[t]
        PROVE  /\ e \notin acked
               /\ \A n \in 0 .. Limit(t) :
                    /\ e \in body[<<t, n>>]
                    /\ <<t, n>> \in heard => e \in reply[<<t, n>>]
    <3>1. e \notin acked
      <4>1. SUFFICES ASSUME NEW c \in heard, e \in body[c] \ reply[c]
                     PROVE  FALSE
        BY DEF IInv, Acks
      <4>2. c \in Calls /\ c[1] \in Requests /\ e \in c[1]
        BY <4>1, <1>1 DEF IInv, TypeOK, Contents
      <4>3. c[1] = t
        BY <2>1, <4>2, <1>1, Disjoint
      <4> QED  BY <2>1, <4>1, <4>3 DEF IInv, Left
    <3>2. ASSUME NEW n \in 0 .. Limit(t)
          PROVE  n \in 0 .. MaxRetries /\ n < retryCount[t]
      BY LimitType, GatewayAssumption DEF IInv, TypeOK
    <3> QED  BY <2>1, <3>1, <3>2 DEF IInv, Tries
  <2>2. ASSUME NEW u \in Requests, NEW e \in u, e \in req[t]
        PROVE  u = t
    BY <2>2, <1>1, Disjoint
  <2>3. \A u \in Requests : u \cap dropped' # {} => task'[u] = "done"
    BY <1>1, <2>2 DEF IInv, DroppedIsDone
  <2>4. \A u \in Requests : \A e \in u \cap dropped' :
          /\ e \notin acked
          /\ \A n \in 0 .. Limit(u) :
               /\ e \in body[<<u, n>>]
               /\ <<u, n>> \in heard => e \in reply[<<u, n>>]
    <3> TAKE u \in Requests
    <3> TAKE e \in u \cap dropped'
    <3>1. CASE e \in dropped
      BY <3>1 DEF IInv, DroppedIsDone, DroppedForCause
    <3>2. CASE e \in req[t]
      BY <2>1, <2>2, <3>2
    <3> QED  BY <3>1, <3>2
  <2> QED  BY <2>3, <2>4 DEF DroppedIsDone, DroppedForCause, Limit
<1> QED  BY <1>2, <1>3, <1>4, <1>5, <1>6, <1>7 DEF IInv

LEMMA CallFailsStep ==
  ASSUME IInv, NEW t \in Requests, CallFails(t)
  PROVE  IInv'
<1>0. /\ task[t] = "calling"
      /\ UNCHANGED <<valid, req, acked, dropped, heard, wire, body, server>>
      /\ task' = [task EXCEPT ![t] = "ready"]
      /\ retryCount' = [retryCount EXCEPT ![t] = @ + 1]
  BY DEF CallFails
<1>1. /\ \A u \in Requests : u # t => task'[u] = task[u] /\ retryCount'[u] = retryCount[u]
      /\ task'[t] = "ready" /\ retryCount'[t] = retryCount[t] + 1
      /\ retryCount[t] \in 0 .. Limit(t) /\ Limit(t) \in 0 .. MaxRetries
      /\ \A c \in Calls : c[1] \in Requests /\ c[2] \in Int
  BY <1>0, CurrentCall, LimitType, GatewayAssumption DEF IInv, TypeOK, Calls
<1> USE <1>0 DEF server
<1>2. TypeOK'
  <2>1. retryCount' \in [Requests -> 0 .. MaxRetries + 1]
    BY <1>1, GatewayAssumption DEF IInv, TypeOK
  <2> QED  BY <2>1 DEF IInv, TypeOK
<1>3. Order'
  <2>1. \A u \in Requests : retryCount'[u] <= Limit(u) + 1
                            /\ (task'[u] = "calling" => retryCount'[u] <= Limit(u))
    BY <1>1 DEF IInv, Order
  <2>2. \A d \in Calls : wire[d] # "none" =>
          /\ d[2] <= Limit(d[1])
          /\ \/ d[2] < retryCount'[d[1]]
             \/ d[2] = retryCount'[d[1]] /\ task'[d[1]] # "ready"
    BY <1>1 DEF IInv, Order
  <2> QED  BY <2>1, <2>2 DEF Order, Limit
<1>4. Blank' /\ Responses'
  BY DEF IInv, Blank, Responses, Sound, Settled
<1>5. Contents'
  <2>1. \A u \in Requests : task'[u] = "calling" =>
          task[u] = "calling" /\ retryCount'[u] = retryCount[u]
    BY <1>1
  <2> QED  BY <2>1 DEF IInv, Contents, Current
<1>6. Acks' /\ Left'
  <2>1. \A c \in heard : c[1] \in Requests /\ (task[c[1]] = "done" => task'[c[1]] = "done")
    BY <1>1 DEF IInv, TypeOK
  <2> QED  BY <2>1 DEF IInv, Acks, Left
<1>7. Tries'
  <2>1. ASSUME NEW u \in Requests, NEW n \in 0 .. MaxRetries, n < retryCount'[u],
               NEW e \in req[u]
        PROVE  e \in body[<<u, n>>] /\ (<<u, n>> \in heard => e \in reply[<<u, n>>])
    <3>1. CASE n < retryCount[u]
      BY <3>1 DEF IInv, Tries
    <3>2. CASE u = t /\ n = retryCount[t]
      <4>1. body[<<u, n>>] = req[t]
        BY <3>2 DEF IInv, Contents, Current
      <4>2. <<u, n>> \in heard => e \in reply[<<u, n>>]
        BY <2>1, <3>2, <4>1 DEF IInv, Left
      <4> QED  BY <2>1, <3>2, <4>1, <4>2
    <3> QED  BY <1>1, <2>1, <3>1, <3>2 DEF IInv, TypeOK
  <2> QED  BY <2>1 DEF Tries
<1>8. DroppedIsDone'
  <2>1. \A u \in Requests : task[u] = "done" => task'[u] = "done"
    BY <1>1
  <2> QED  BY <2>1 DEF IInv, DroppedIsDone, DroppedForCause, Limit
<1> QED  BY <1>2, <1>3, <1>4, <1>5, <1>6, <1>7, <1>8 DEF IInv

LEMMA CallReturnsStep ==
  ASSUME IInv, NEW t \in Requests, CallReturns(t)
  PROVE  IInv'
<1> DEFINE c == Current(t)
<1>0. /\ task[t] = "calling" /\ wire[c] = "answered"
      /\ UNCHANGED <<valid, dropped, wire, body, server>>
      /\ heard' = heard \cup {c}
      /\ acked' = acked \cup (req[t] \ reply[c])
      /\ \/ /\ reply[c] = {}
            /\ task' = [task EXCEPT ![t] = "done"]
            /\ UNCHANGED <<req, retryCount>>
         \/ /\ reply[c] # {}
            /\ task' = [task EXCEPT ![t] = "ready"]
            /\ req' = [req EXCEPT ![t] = reply[c]]
            /\ retryCount' = [retryCount EXCEPT ![t] = @ + 1]
  BY DEF CallReturns, ToRetry
<1>1. /\ c \in Calls /\ c[1] = t /\ c[2] = retryCount[t] /\ c = <<t, retryCount[t]>>
      /\ retryCount[t] \in 0 .. Limit(t) /\ Limit(t) \in 0 .. MaxRetries
      /\ \A d \in Calls : d[1] = t /\ d[2] > c[2] => body[d] = {}
  BY <1>0, CurrentCall, LimitType DEF Current
<1>2. Sound(c) /\ body[c] = req[t] /\ reply[c] \subseteq req[t] /\ req[t] \subseteq t
  BY <1>0, <1>1 DEF IInv, Responses, Contents, Sound
<1>3. \A d \in Calls : d[1] \in Requests /\ d[2] \in Int
  BY GatewayAssumption DEF Calls
<1> HIDE DEF c
\* What becomes of the request, in both branches.
<1>4. /\ \A u \in Requests : u # t =>
           task'[u] = task[u] /\ retryCount'[u] = retryCount[u] /\ req'[u] = req[u]
      /\ \/ task'[t] = "done" /\ retryCount'[t] = retryCount[t]
         \/ task'[t] = "ready" /\ retryCount'[t] = retryCount[t] + 1 /\ req'[t] = reply[c]
      /\ req'[t] \subseteq req[t]
  BY <1>0, <1>2 DEF IInv, TypeOK
<1>5. TypeOK'
  <2>1. task' \in [Requests -> {"ready", "calling", "done"}]
    BY <1>0 DEF IInv, TypeOK
  <2>2. retryCount' \in [Requests -> 0 .. MaxRetries + 1]
    BY <1>0, <1>1, GatewayAssumption DEF IInv, TypeOK
  <2>3. req' \in [Requests -> SUBSET Events] /\ acked' \in SUBSET Events
    <3>1. reply[c] \in SUBSET Events /\ req[t] \in SUBSET Events
      BY <1>1 DEF IInv, TypeOK
    <3> QED  BY <1>0, <3>1 DEF IInv, TypeOK
  <2>4. heard' \in SUBSET Calls
    BY <1>0, <1>1 DEF IInv, TypeOK
  <2> QED  BY <1>0, <2>1, <2>2, <2>3, <2>4 DEF IInv, TypeOK, server
<1> USE <1>0 DEF server
<1>6. Order'
  <2>1. \A u \in Requests : retryCount'[u] <= Limit(u) + 1
                            /\ (task'[u] = "calling" => retryCount'[u] <= Limit(u))
    BY <1>1, <1>4 DEF IInv, Order
  <2>2. \A d \in Calls : wire[d] # "none" =>
          /\ d[2] <= Limit(d[1])
          /\ \/ d[2] < retryCount'[d[1]]
             \/ d[2] = retryCount'[d[1]] /\ task'[d[1]] # "ready"
    BY <1>1, <1>3, <1>4 DEF IInv, Order
  <2> QED  BY <2>1, <2>2 DEF Order, Limit
<1>7. Blank'
  BY DEF IInv, Blank
<1>8. Contents'
  <2>1. \A u \in Requests : req'[u] \subseteq u
    BY <1>2, <1>4 DEF IInv, Contents
  <2>2. \A u \in Requests : task'[u] = "calling" =>
          task[u] = "calling" /\ retryCount'[u] = retryCount[u] /\ req'[u] = req[u]
    BY <1>4
  <2> QED  BY <2>1, <2>2 DEF IInv, Contents, Current
<1>9. Responses'
  <2>1. \A d \in Calls : Sound(d)' <=> Sound(d)
    BY DEF Sound, Settled
  <2> QED  BY <1>2, <2>1 DEF IInv, Responses
<1>10. Acks'
  BY <1>2 DEF IInv, Acks
<1>11. Left'
  <2>1. ASSUME NEW d \in heard', NEW e \in body[d] \ reply[d]
        PROVE  /\ task'[d[1]] = "done" \/ e \notin req'[d[1]]
               /\ \A x \in Calls : x[1] = d[1] /\ x[2] > d[2] => e \notin body[x]
    <3>1. CASE d \in heard
      <4>1. d[1] \in Requests
        BY <1>3, <3>1 DEF IInv, TypeOK
      <4>2. /\ task[d[1]] = "done" \/ e \notin req[d[1]]
            /\ \A x \in Calls : x[1] = d[1] /\ x[2] > d[2] => e \notin body[x]
        BY <3>1 DEF IInv, Left
      <4> QED  BY <1>4, <4>1, <4>2
    <3>2. CASE d = c
      BY <1>1, <1>4, <2>1, <3>2
    <3> QED  BY <3>1, <3>2
  <2> QED  BY <2>1 DEF Left
<1>12. Tries'
  <2>1. ASSUME NEW u \in Requests, NEW n \in 0 .. MaxRetries, n < retryCount'[u],
               NEW e \in req'[u]
        PROVE  e \in body[<<u, n>>] /\ (<<u, n>> \in heard' => e \in reply[<<u, n>>])
    <3>0. e \in req[u]
      BY <1>4, <2>1
    <3>1. CASE n < retryCount[u]
      <4>1. <<u, n>> # c
        BY <1>1, <3>1
      <4> QED  BY <3>0, <3>1, <4>1 DEF IInv, Tries
    <3>2. CASE u = t /\ n = retryCount[t]
      <4>1. <<u, n>> = c /\ req'[t] = reply[c]
        BY <1>1, <1>4, <2>1, <3>2
      <4> QED  BY <1>2, <2>1, <3>0, <3>2, <4>1
    <3> QED  BY <1>4, <2>1, <3>1, <3>2 DEF IInv, TypeOK
  <2> QED  BY <2>1 DEF Tries
<1>13. DroppedIsDone'
  <2>1. t \cap dropped = {}
    BY DEF IInv, DroppedIsDone
  <2>2. \A u \in Requests : u \cap dropped # {} => u # t /\ task'[u] = "done"
    BY <1>4, <2>1 DEF IInv, DroppedIsDone
  <2>3. ASSUME NEW u \in Requests, NEW e \in u \cap dropped
        PROVE  e \notin acked' /\ \A n \in 0 .. Limit(u) : <<u, n>> # c
    <3>1. u # t
      BY <2>2, <2>3
    <3>2. e \notin t
      BY <2>1, <2>3
    <3> QED  BY <1>1, <1>2, <2>3, <3>1, <3>2 DEF IInv, DroppedIsDone, DroppedForCause
  <2> QED  BY <2>2, <2>3 DEF IInv, DroppedIsDone, DroppedForCause, Limit
<1> QED  BY <1>5, <1>6, <1>7, <1>8, <1>9, <1>10, <1>11, <1>12, <1>13 DEF IInv

LEMMA StutterStep == IInv /\ UNCHANGED vars => IInv'
<1> SUFFICES ASSUME IInv, UNCHANGED vars PROVE IInv'
  OBVIOUS
<1> USE DEF vars, client, server
<1>1. TypeOK' /\ Order' /\ Blank' /\ Contents'
  BY DEF IInv, TypeOK, Order, Blank, Contents, Current, Limit
<1>2. Responses' /\ Acks' /\ Left' /\ Tries' /\ DroppedIsDone'
  BY DEF IInv, Responses, Sound, Settled, Acks, Left, Tries, DroppedIsDone,
         DroppedForCause, Limit
<1> QED  BY <1>1, <1>2 DEF IInv

LEMMA NextIInv == IInv /\ [Next]_vars => IInv'
<1> SUFFICES ASSUME IInv, [Next]_vars PROVE IInv'
  OBVIOUS
<1>1. ASSUME NEW t \in Requests, Call(t) \/ GiveUp(t) \/ CallFails(t) \/ CallReturns(t)
      PROVE  IInv'
  BY <1>1, CallStep, GiveUpStep, CallFailsStep, CallReturnsStep
<1>2. ASSUME NEW c \in Calls, Handle(c) \/ Lose(c) \/ Respond(c)
      PROVE  IInv'
  BY <1>2, WireStep, RespondStep
<1>3. ASSUME NEW c \in Calls, NEW e \in body[c], Produce(c, e) \/ ProduceErr(c, e)
      PROVE  IInv'
  BY <1>3, SettleStep
<1>4. CASE Crash
  BY <1>4, WireStep
<1>5. CASE UNCHANGED vars
  BY <1>5, StutterStep
<1> QED  BY <1>1, <1>2, <1>3, <1>4, <1>5 DEF Next

\* IInv holds in every state of the system.
THEOREM Invariance == Spec => []IInv
<1>1. IInv /\ [Next]_vars => IInv'
  BY NextIInv
<1> QED  BY InitIInv, <1>1, PTL DEF Spec

-----------------------------------------------------------------------------
(* What the invariant implies.                                              *)

\* The variables keep their types, whatever is lost, late or answered twice.
THEOREM TypeCorrect == Spec => []TypeOK
<1>1. IInv => TypeOK
  BY DEF IInv
<1> QED  BY <1>1, Invariance, PTL

\* The event of an ack was settled in a call whose response does not list it.
LEMMA AckHasCall ==
  ASSUME IInv, NEW e \in acked
  PROVE  \E c \in heard : /\ c \in Calls /\ Sound(c)
                          /\ e \in body[c] \ reply[c] /\ e \in c[1]
                          /\ e \in failed[c] \/ e \in stored[c]
<1>1. PICK c \in heard : e \in body[c] \ reply[c]
  BY DEF IInv, Acks
<1>2. c \in Calls
  BY DEF IInv, TypeOK
<1>3. Sound(c) /\ e \in c[1] /\ produced[c] \subseteq stored[c]
  BY <1>1, <1>2 DEF IInv, Responses, Contents
<1>4. e \in Settled(c)
  BY <1>1, <1>3 DEF Sound
<1> QED  BY <1>1, <1>2, <1>3, <1>4 DEF Settled

\* An acked event that Kafka does not hold was lost in one way only: it failed
\* in a call whose response lists other failures.
THEOREM NoOtherLoss == Spec => []LossOnlyByRace
<1>1. IInv => LossOnlyByRace
  <2> SUFFICES ASSUME IInv, NEW e \in acked, Copies(e) = {}
               PROVE  \E c \in heard : e \in failed[c] \ reply[c] /\ reply[c] # {}
    BY DEF LossOnlyByRace
  <2>1. PICK c \in heard : /\ c \in Calls /\ Sound(c)
                           /\ e \in body[c] \ reply[c]
                           /\ e \in failed[c] \/ e \in stored[c]
    BY AckHasCall
  <2>2. e \notin stored[c]
    BY <2>1 DEF Copies
  <2> QED  BY <2>1, <2>2 DEF Sound
<1> QED  BY <1>1, Invariance, PTL

\* The client never sends an event again after a response that delivers it.
THEOREM NoCopyAfterAck == Spec => []NoNeedlessCopy
<1>1. IInv => NoNeedlessCopy
  <2> SUFFICES ASSUME IInv, NEW c \in Calls, NEW d \in Calls,
                      NEW e \in body[c] \cap body[d],
                      c \in heard, e \notin reply[c], c[1] = d[1]
               PROVE  d[2] <= c[2]
    BY DEF NoNeedlessCopy
  <2>1. ~ (d[2] > c[2])
    BY DEF IInv, Left
  <2> QED  BY <2>1, GatewayAssumption DEF Calls
<1> QED  BY <1>1, Invariance, PTL

\* The client never drops an event early, nor one that it counts as delivered.
THEOREM DropsAreEarned == Spec => []DroppedForCause
<1>1. IInv => DroppedForCause
  BY DEF IInv, DroppedIsDone
<1> QED  BY <1>1, Invariance, PTL

\* Send of the synchronous client puts its event in Kafka at most once, and
\* exactly once if it returns no error.
THEOREM SyncSendsOnce == Spec => []SyncOnce
<1>1. IInv => SyncOnce
  <2> SUFFICES ASSUME IInv, NEW t \in Singles, NEW e \in t
               PROVE  /\ Cardinality(Copies(e)) <= 1
                      /\ e \in acked => Cardinality(Copies(e)) = 1
    BY DEF SyncOnce
  <2>1. ASSUME NEW c \in Calls, e \in c[1] PROVE c[1] = t
    <3>1. c[1] \in Requests /\ t \in Requests
      BY DEF Calls, Requests
    <3> QED  BY <2>1, <3>1, Disjoint
  <2>2. ASSUME NEW c \in Copies(e) PROVE c = <<t, 0>>
    <3>1. c \in Calls /\ e \in stored[c]
      BY DEF Copies
    <3>2. e \in body[c] /\ e \in c[1] /\ wire[c] # "none"
      BY <3>1 DEF IInv, Contents, Blank
    <3>3. c[1] = t /\ c[2] <= Limit(c[1])
      BY <2>1, <3>1, <3>2 DEF IInv, Order
    <3> QED  BY <3>1, <3>3, GatewayAssumption DEF Calls, Limit
  <2>3. Copies(e) = {} \/ Copies(e) = {<<t, 0>>}
    BY <2>2
  <2>4. Cardinality({<<t, 0>>}) = 1
    BY FS_Singleton
  <2>5. Cardinality({}) = 0
    BY FS_EmptySet
  <2>6. ASSUME e \in acked PROVE Copies(e) # {}
    <3>1. PICK c \in heard : /\ c \in Calls /\ Sound(c) /\ e \in c[1]
                             /\ e \in body[c] \ reply[c]
                             /\ e \in failed[c] \/ e \in stored[c]
      BY <2>6, AckHasCall
    <3>2. reply[c] = failed[c]
      BY <2>1, <3>1 DEF Sound
    <3> QED  BY <3>1, <3>2 DEF Copies
  <2> QED  BY <2>3, <2>4, <2>5, <2>6
<1> QED  BY <1>1, Invariance, PTL

\* With batches of one event the race has nothing to lose, and what the client
\* takes for delivered is in Kafka.
THEOREM AtLeastOnceUnbatched ==
  ASSUME \A t \in Batches : Cardinality(t) = 1
  PROVE  Spec => []AtLeastOnce
<1>1. IInv => AtLeastOnce
  <2> SUFFICES ASSUME IInv, NEW e \in acked PROVE Copies(e) # {}
    BY DEF AtLeastOnce
  <2>1. PICK c \in heard : /\ c \in Calls /\ Sound(c) /\ e \in c[1]
                           /\ e \in body[c] \ reply[c]
                           /\ e \in failed[c] \/ e \in stored[c]
    BY AckHasCall
  <2>2. IsFiniteSet(c[1]) /\ Cardinality(c[1]) = 1
    BY <2>1, GatewayAssumption DEF Calls, Requests
  <2>3. PICK x : c[1] = {x}
    BY <2>2, FS_Singleton
  <2>4. failed[c] \subseteq {e}
    BY <2>1, <2>3 DEF IInv, Contents
  <2>5. e \notin failed[c]
    BY <2>1, <2>4 DEF Sound
  <2> QED  BY <2>1, <2>5 DEF Copies
<1> QED  BY <1>1, Invariance, PTL
=============================================================================
