--------------------------- MODULE AsyncClientProofs ---------------------------
(***************************************************************************)
(* Proofs about AsyncClient, for any events, any number of routines and any *)
(* sizes of channel and batch.                                              *)
(*                                                                          *)
(* The argument follows the events.  One that Send has put into the channel *)
(* is "inside" until it ends, and then it is in exactly one of the channel, *)
(* the hands of a routine, a batch and the request of a live task.  Until   *)
(* it is in a request it has named no task and been part of no call; in a   *)
(* request it has been part of as many calls as the task has made.  So the  *)
(* WaitGroup loses and gains one as an event passes from place to place,    *)
(* and is 0 only if no event is pending.                                    *)
(***************************************************************************)
EXTENDS AsyncClient, FiniteSetTheorems, SequenceTheorems, TLAPS

\* The places of an event inside the client.
Queued == Range(eventsChannel)
Batched(r) == Range(batch[r])
Tried(id) == IF id \in Live THEN Range(req[id]) ELSE {}

Inside == {e \in Events : caller[e] = "returned"} \ (acked \cup dropped)

\* Events that no request holds yet, nor has held.
Fresh(e) ==
  \/ caller[e] # "returned"
  \/ e \in Queued
  \/ \E r \in Routines : received[r] = e \/ e \in Batched(r)

\* An event ends in one way.
Ended ==
  /\ acked \cap dropped = {}
  /\ \A e \in acked \cup dropped : caller[e] = "returned"

\* What the client holds is inside, and what is inside is held.
Held ==
  /\ Queued \subseteq Inside
  /\ \A r \in Routines : received[r] \in Inside \cup {NoEvent}
  /\ \A r \in Routines : Batched(r) \subseteq Inside
  /\ \A id \in Events : Tried(id) \subseteq Inside
Covered ==
  \A e \in Inside :
    \/ e \in Queued
    \/ \E r \in Routines : received[r] = e \/ e \in Batched(r)
    \/ \E id \in Events : e \in Tried(id)

\* No two places hold the same event.
Apart ==
  /\ \A r \in Routines : received[r] \notin Queued /\ Queued \cap Batched(r) = {}
  /\ \A r, s \in Routines :
       /\ received[r] \notin Batched(s)
       /\ r # s => /\ received[r] = received[s] => received[r] = NoEvent
                   /\ Batched(r) \cap Batched(s) = {}
  /\ \A id, other \in Events : id # other => Tried(id) \cap Tried(other) = {}

\* No sequence holds an event twice.
Distinct ==
  /\ IsInjective(eventsChannel)
  /\ \A r \in Routines : IsInjective(batch[r])
  /\ \A id \in Live : IsInjective(req[id])

\* A routine that is not in its select has an event.
Hands == \A r \in Routines : received[r] = NoEvent <=> routine[r] = "select"

Sizes ==
  /\ \A id \in Live : req[id] # << >> /\ (BatchSize > 0 => Len(req[id]) <= BatchSize)
  /\ \A r \in Routines : BatchSize > 0 => Len(batch[r]) < BatchSize

\* A fresh event has a past in no task; the events of a request have been part
\* of the calls that its task has made.
Calls ==
  /\ \A e \in Events : Fresh(e) =>
       /\ task[e] = "none" /\ attempts[e] = 0
       /\ \A id \in Events : e \notin Tried(id)
  /\ \A id \in Events : task[id] = "none" => retryCount[id] = 0
  /\ \A id \in Events : task[id] = "calling" => retryCount[id] <= MaxRetries
  /\ \A id \in Events : \A e \in Tried(id) :
       attempts[e] = retryCount[id] + IF task[id] = "calling" THEN 1 ELSE 0

\* From the release of the waiter on, the events that GracefulStop owes have
\* ended, and the counter stays 0 until a Send that follows GracefulStop.
Released ==
  /\ owed \subseteq Sent
  /\ stop \in {"woken", "closing", "closed"} =>
       /\ owed \cap Pending = {}
       /\ ~SentLate => wg = 0
  /\ stop = "panicked" => SentLate

Where == Ended /\ Held /\ Covered /\ Apart /\ Distinct /\ Hands
IInv == TypeOK /\ Where /\ Sizes /\ Calls /\ WgAccounts /\ Released

-----------------------------------------------------------------------------
(* Sequences.                                                               *)

\* Append puts one element at the end.
LEMMA AppendOne ==
  ASSUME NEW S, NEW list \in Seq(S), NEW e \in S
  PROVE  /\ Append(list, e) \in Seq(S)
         /\ Append(list, e) # << >>
         /\ Len(Append(list, e)) = Len(list) + 1
         /\ Range(Append(list, e)) = Range(list) \cup {e}
         /\ IsInjective(list) /\ e \notin Range(list) => IsInjective(Append(list, e))
<1> DEFINE longer == Append(list, e)
<1>1. /\ longer \in Seq(S) /\ longer # << >> /\ Len(longer) = Len(list) + 1
      /\ \A i \in 1 .. Len(list) : longer[i] = list[i]
      /\ longer[Len(list) + 1] = e
      /\ Len(list) \in Nat /\ DOMAIN list = 1 .. Len(list)
      /\ DOMAIN longer = 1 .. Len(list) + 1
  BY AppendProperties, LenProperties
<1> HIDE DEF longer
<1>2. Range(longer) = Range(list) \cup {e}
  <2>1. ASSUME NEW x \in Range(longer) PROVE x \in Range(list) \cup {e}
    BY <1>1, <2>1 DEF Range
  <2>2. ASSUME NEW x \in Range(list) PROVE x \in Range(longer)
    BY <1>1, <2>2 DEF Range
  <2>3. e \in Range(longer)
    BY <1>1 DEF Range
  <2> QED  BY <2>1, <2>2, <2>3
<1>3. ASSUME IsInjective(list), e \notin Range(list) PROVE IsInjective(longer)
  BY <1>1, <1>3 DEF IsInjective, Range
<1> QED  BY <1>1, <1>2, <1>3 DEF longer

\* Tail loses the head only.
LEMMA TailOne ==
  ASSUME NEW S, NEW list \in Seq(S), list # << >>
  PROVE  /\ Head(list) \in S /\ Head(list) \in Range(list)
         /\ Tail(list) \in Seq(S)
         /\ Len(Tail(list)) = Len(list) - 1
         /\ Range(list) = Range(Tail(list)) \cup {Head(list)}
         /\ IsInjective(list) =>
              IsInjective(Tail(list)) /\ Head(list) \notin Range(Tail(list))
<1> DEFINE h == Head(list)
           rest == Tail(list)
<1>1. /\ h \in S /\ rest \in Seq(S) /\ Len(rest) = Len(list) - 1
      /\ \A i \in 1 .. Len(rest) : rest[i] = list[i + 1]
      /\ h = list[1]
      /\ Len(list) \in Nat \ {0} /\ DOMAIN list = 1 .. Len(list)
      /\ DOMAIN rest = 1 .. Len(list) - 1
  BY HeadTailProperties, LenProperties, EmptySeq
<1> HIDE DEF h, rest
<1>2. h \in Range(list)
  BY <1>1 DEF Range
<1>3. Range(list) = Range(rest) \cup {h}
  <2>1. ASSUME NEW i \in 1 .. Len(list) PROVE list[i] \in Range(rest) \cup {h}
    <3>1. CASE i = 1
      BY <1>1, <3>1
    <3>2. CASE i # 1
      <4>1. i - 1 \in DOMAIN rest /\ rest[i - 1] = list[i]
        BY <1>1, <3>2
      <4> QED  BY <4>1 DEF Range
    <3> QED  BY <3>1, <3>2
  <2>2. ASSUME NEW i \in DOMAIN rest PROVE rest[i] \in Range(list)
    BY <1>1, <2>2 DEF Range
  <2> QED  BY <1>1, <1>2, <2>1, <2>2 DEF Range
<1>4. ASSUME IsInjective(list) PROVE IsInjective(rest) /\ h \notin Range(rest)
  <2>1. \A i, j \in 1 .. Len(list) : list[i] = list[j] => i = j
    BY <1>1, <1>4 DEF IsInjective
  <2>2. ASSUME NEW i \in DOMAIN rest
        PROVE  i \in Nat /\ i + 1 \in 1 .. Len(list) /\ i + 1 # 1 /\ rest[i] = list[i + 1]
    BY <1>1, <2>2
  <2>3. ASSUME NEW i \in DOMAIN rest, NEW j \in DOMAIN rest, rest[i] = rest[j]
        PROVE  i = j
    <3>1. i + 1 = j + 1
      BY <2>1, <2>2, <2>3
    <3> QED  BY <3>1, <2>2
  <2>4. \A i \in DOMAIN rest : rest[i] # h
    BY <1>1, <2>1, <2>2
  <2> QED  BY <2>3, <2>4 DEF IsInjective, Range
<1> QED  BY <1>1, <1>2, <1>3, <1>4 DEF h, rest

\* The empty sequence holds nothing, and is the only one.
LEMMA EmptyOne ==
  ASSUME NEW S, NEW list \in Seq(S)
  PROVE  /\ Range(<< >>) = {} /\ IsInjective(<< >>) /\ Len(<< >>) = 0
         /\ Len(list) \in Nat
         /\ Len(list) = 0 <=> list = << >>
         /\ list # << >> => Head(list) \in Range(list) /\ Len(list) > 0
         /\ Range(list) \subseteq S
         /\ Range(list) = {} <=> list = << >>
<1>1. Range(<< >>) = {} /\ IsInjective(<< >>) /\ Len(<< >>) = 0
  BY DEF Range, IsInjective
<1>2. Len(list) \in Nat /\ (list # << >> => Len(list) > 0) /\ Range(list) \subseteq S
  BY LenProperties, EmptySeq, RangeOfSeq
<1>3. list # << >> => Head(list) \in Range(list)
  BY TailOne
<1> QED  BY <1>1, <1>2, <1>3

\* Failure indexes pick some of the events of a request, each once.
LEMMA Selection ==
  ASSUME NEW S, NEW list \in Seq(S), NEW indexes \in FailureIndexes(list)
  PROVE  LET failedEvents == [i \in DOMAIN indexes |-> list[indexes[i]]] IN
         /\ failedEvents \in Seq(S)
         /\ failedEvents # << >>
         /\ Len(failedEvents) <= Len(list)
         /\ Range(failedEvents) \subseteq Range(list)
         /\ IsInjective(list) => IsInjective(failedEvents)
<1> DEFINE failedEvents == [i \in DOMAIN indexes |-> list[indexes[i]]]
<1>0. Len(list) \in Nat /\ DOMAIN list = 1 .. Len(list) /\ list \in [1 .. Len(list) -> S]
  BY LenProperties
<1>1. PICK n \in 1 .. Len(list) : indexes \in [1 .. n -> 1 .. Len(list)]
  BY DEF FailureIndexes
<1>2. IsInjective(indexes)
  BY DEF FailureIndexes
<1>3. failedEvents \in [1 .. n -> S] /\ DOMAIN failedEvents = 1 .. n
  BY <1>0, <1>1
<1>4. n \in Nat /\ n > 0 /\ n <= Len(list)
  BY <1>0, <1>1
<1>5. failedEvents \in Seq(S) /\ Len(failedEvents) = n /\ failedEvents # << >>
  BY <1>3, <1>4, SeqDef
<1>6. \A i \in 1 .. n : failedEvents[i] \in Range(list)
  BY <1>0, <1>1 DEF Range
<1>7. Range(failedEvents) \subseteq Range(list)
  BY <1>3, <1>6 DEF Range
<1>8. ASSUME IsInjective(list) PROVE IsInjective(failedEvents)
  <2> SUFFICES ASSUME NEW i \in 1 .. n, NEW j \in 1 .. n,
                      failedEvents[i] = failedEvents[j]
               PROVE  i = j
    BY <1>3 DEF IsInjective
  <2>1. list[indexes[i]] = list[indexes[j]]
    BY <1>1
  <2>2. indexes[i] = indexes[j]
    BY <2>1, <1>0, <1>1, <1>8 DEF IsInjective
  <2> QED  BY <2>2, <1>1, <1>2 DEF IsInjective
<1> QED  BY <1>4, <1>5, <1>7, <1>8
-----------------------------------------------------------------------------
(* Counting.                                                                *)

LEMMA CountGains ==
  ASSUME NEW S, IsFiniteSet(S), NEW T, NEW x, x \notin S, T = S \cup {x}
  PROVE  IsFiniteSet(T) /\ Cardinality(T) = Cardinality(S) + 1
BY FS_AddElement

LEMMA CountLoses ==
  ASSUME NEW S, IsFiniteSet(S), NEW T, NEW x \in S, T = S \ {x}
  PROVE  IsFiniteSet(T) /\ Cardinality(T) = Cardinality(S) - 1
BY FS_RemoveElement

LEMMA CountIsZero ==
  ASSUME NEW S, IsFiniteSet(S)
  PROVE  Cardinality(S) \in Nat /\ (Cardinality(S) = 0 <=> S = {})
BY FS_CardinalityType, FS_EmptySet

\* The sets that the WaitGroup counts are finite.
LEMMA Finite ==
  /\ IsFiniteSet(Sending) /\ IsFiniteSet(Busy)
  /\ IsFiniteSet(Counted) /\ IsFiniteSet(Live)
<1>1. Sending \subseteq Events /\ Live \subseteq Events
      /\ Busy \subseteq Routines /\ Counted \subseteq Routines
  BY DEF Sending, Live, Busy, Counted
<1> QED  BY <1>1, FS_Subset, ClientAssumption

\* If nothing is counted, nothing is pending; and what is counted keeps the
\* counter above 0.
LEMMA WgZero ==
  TypeOK /\ Where /\ WgAccounts =>
    /\ wg = 0 => Pending = {}
    /\ Sending # {} \/ eventsChannel # << >> \/ Busy # {} \/ Counted # {} \/ Live # {}
         => wg > 0
<1> SUFFICES ASSUME TypeOK, Where, WgAccounts
             PROVE  /\ wg = 0 => Pending = {}
                    /\ Sending # {} \/ eventsChannel # << >> \/ Busy # {}
                         \/ Counted # {} \/ Live # {} => wg > 0
  OBVIOUS
<1>1. /\ Cardinality(Sending) \in Nat /\ Cardinality(Busy) \in Nat
      /\ Cardinality(Counted) \in Nat /\ Cardinality(Live) \in Nat
      /\ Cardinality(Sending) = 0 <=> Sending = {}
      /\ Cardinality(Busy) = 0 <=> Busy = {}
      /\ Cardinality(Counted) = 0 <=> Counted = {}
      /\ Cardinality(Live) = 0 <=> Live = {}
  BY Finite, CountIsZero
<1>2. Len(eventsChannel) \in Nat /\ (Len(eventsChannel) = 0 <=> eventsChannel = << >>)
  BY EmptyOne DEF TypeOK
<1>3. Sending # {} \/ eventsChannel # << >> \/ Busy # {} \/ Counted # {} \/ Live # {}
        => wg > 0
  <2> DEFINE sending == Cardinality(Sending)
             busy == Cardinality(Busy)
             counted == Cardinality(Counted)
             live == Cardinality(Live)
             queue == Len(eventsChannel)
  <2>1. wg = sending + queue + busy + counted + live
    BY DEF WgAccounts
  <2>2. /\ sending \in Nat /\ busy \in Nat /\ counted \in Nat /\ live \in Nat /\ queue \in Nat
        /\ Sending # {} => sending # 0
        /\ Busy # {} => busy # 0
        /\ Counted # {} => counted # 0
        /\ Live # {} => live # 0
        /\ eventsChannel # << >> => queue # 0
    BY <1>1, <1>2
  <2> HIDE DEF sending, busy, counted, live, queue
  <2> QED  BY <2>1, <2>2
<1>4. ASSUME wg = 0 PROVE Pending = {}
  <2>1. Sending = {} /\ eventsChannel = << >> /\ Busy = {} /\ Counted = {} /\ Live = {}
    BY <1>3, <1>4
  <2>2. Queued = {}
    BY <2>1, EmptyOne DEF TypeOK, Queued
  <2>3. \A r \in Routines : received[r] = NoEvent /\ Batched(r) = {}
    <3> TAKE r \in Routines
    <3>1. routine[r] = "select" /\ batch[r] = << >>
      BY <2>1 DEF Busy, Counted
    <3> QED  BY <3>1, EmptyOne DEF TypeOK, Batched, Where, Hands
  <2>4. \A id \in Events : Tried(id) = {}
    BY <2>1 DEF Tried
  <2>5. Inside = {}
    <3>1. \A e \in Inside : e # NoEvent
      BY ClientAssumption DEF Inside
    <3> QED  BY <3>1, <2>2, <2>3, <2>4 DEF Where, Covered
  <2> QED  BY <2>1, <2>5 DEF Pending, Sent, Inside, Sending, TypeOK
<1> QED  BY <1>3, <1>4
-----------------------------------------------------------------------------
(* What a step that leaves a part of the state alone keeps of the invariant. *)

\* The terms of the sum that the WaitGroup stands for.
NSending == Cardinality(Sending)
NBusy == Cardinality(Busy)
NCounted == Cardinality(Counted)
NLive == Cardinality(Live)

LEMMA Numbers ==
  NSending \in Nat /\ NBusy \in Nat /\ NCounted \in Nat /\ NLive \in Nat
BY Finite, CountIsZero DEF NSending, NBusy, NCounted, NLive

LEMMA Accounts ==
  WgAccounts <=> wg = NSending + Len(eventsChannel) + NBusy + NCounted + NLive
BY DEF WgAccounts, NSending, NBusy, NCounted, NLive

\* The same of the state after a step.
LEMMA AccountsNext ==
  (WgAccounts <=> wg = NSending + Len(eventsChannel) + NBusy + NCounted + NLive)'
BY Accounts, PTL

LEMMA WgZeroNext ==
  (TypeOK /\ Where /\ WgAccounts => (wg = 0 => Pending = {}))'
<1>1. TypeOK /\ Where /\ WgAccounts => (wg = 0 => Pending = {})
  BY WgZero
<1> QED  BY <1>1, PTL

\* A step in which no event changes its place.
LEMMA Undisturbed ==
  ASSUME TypeOK, Where,
         UNCHANGED <<eventsChannel, received, batch, acked, dropped>>,
         \A e \in Events : caller'[e] = "returned" <=> caller[e] = "returned",
         Live' = Live, \A id \in Live : req'[id] = req[id],
         Hands'
  PROVE  /\ Where'
         /\ \A id \in Events : Tried(id)' = Tried(id)
         /\ \A e \in Events : Fresh(e)' <=> Fresh(e)
<1>1. /\ Queued' = Queued
      /\ \A r \in Routines : Batched(r)' = Batched(r)
      /\ Inside' = Inside
  BY DEF Queued, Batched, Inside
<1>2. \A id \in Events : Tried(id)' = Tried(id)
  BY DEF Tried
<1>3. Ended'
  BY DEF Ended, Where, TypeOK
<1>4. Held' /\ Covered' /\ Apart'
  BY <1>1, <1>2 DEF Where, Held, Covered, Apart
<1>5. Distinct'
  BY DEF Where, Distinct
<1>6. \A e \in Events : Fresh(e)' <=> Fresh(e)
  BY <1>1 DEF Fresh
<1> QED  BY <1>2, <1>3, <1>4, <1>5, <1>6 DEF Where

\* A step in which no task moves and no event becomes fresh.
LEMMA CallsKept ==
  ASSUME Calls, UNCHANGED <<task, retryCount, attempts>>,
         \A id \in Events : Tried(id)' = Tried(id),
         \A e \in Events : Fresh(e)' => Fresh(e)
  PROVE  Calls'
BY DEF Calls

\* A step that counts up after the release of the waiter over a Send only.
LEMMA ReleasedKept ==
  ASSUME TypeOK, Released, owed' = owed,
         acked \subseteq acked', dropped \subseteq dropped',
         \A e \in Events : caller[e] # "idle" => caller'[e] # "idle",
         \/ UNCHANGED <<wg, stop>>
         \/ stop' = stop /\ (wg > 0 \/ stop = "open" \/ SentLate')
         \/ Done /\ wg > 0,
         wg' = 0 => Pending' = {}
  PROVE  Released'
<1>1. Sent \subseteq Sent' /\ owed' \subseteq Sent' /\ (SentLate => SentLate')
  BY DEF Released, Sent, SentLate
<1>2. owed \cap Pending' \subseteq owed \cap Pending
  BY DEF Released, Pending, Sent
<1>3. CASE UNCHANGED <<wg, stop>>
  BY <1>1, <1>2, <1>3 DEF Released
<1>4. CASE stop' = stop /\ (wg > 0 \/ stop = "open" \/ SentLate')
  BY <1>1, <1>2, <1>4 DEF Released, TypeOK
<1>5. CASE Done /\ wg > 0
  <2>1. CASE wg = 1 /\ stop = "waiting"
    <3>1. stop' = "woken" /\ wg' = 0
      BY <1>5, <2>1 DEF Done
    <3> QED  BY <1>1, <3>1
             DEF Released
  <2>2. CASE ~(wg = 1 /\ stop = "waiting")
    <3>1. stop' = stop
      BY <1>5, <2>2 DEF Done
    <3> QED  BY <1>1, <1>2, <1>5, <3>1 DEF Released, TypeOK
  <2> QED  BY <2>1, <2>2
<1> QED  BY <1>3, <1>4, <1>5

-----------------------------------------------------------------------------
(* The application.                                                         *)

LEMMA SendKeeps ==
  ASSUME IInv, NEW e \in Events, Send(e)
  PROVE  IInv'
<1>1. TypeOK'
  BY DEF IInv, TypeOK, Send, Add, stopping, routines, tasks
<1>2. /\ Where'
      /\ \A id \in Events : Tried(id)' = Tried(id)
      /\ \A x \in Events : Fresh(x)' <=> Fresh(x)
  <2>1. /\ UNCHANGED <<eventsChannel, received, batch, acked, dropped>>
        /\ Live' = Live /\ \A id \in Live : req'[id] = req[id]
    BY DEF Send, routines, tasks, Live
  <2>2. \A x \in Events : caller'[x] = "returned" <=> caller[x] = "returned"
    BY DEF Send, IInv, TypeOK
  <2>3. Hands'
    BY DEF Send, routines, Hands, IInv, Where
  <2> QED  BY <2>1, <2>2, <2>3, Undisturbed DEF IInv
<1>3. Sizes'
  BY DEF IInv, Sizes, Send, routines, tasks, Live
<1>4. Calls'
  BY <1>2, CallsKept DEF IInv, Send, tasks
<1>5. WgAccounts'
  <2>1. NSending' = NSending + 1
    <3>1. e \notin Sending /\ Sending' = Sending \cup {e}
      BY DEF IInv, TypeOK, Send, Sending
    <3> QED  BY <3>1, Finite, CountGains DEF NSending
  <2>2. /\ eventsChannel' = eventsChannel /\ NBusy' = NBusy
        /\ NCounted' = NCounted /\ NLive' = NLive
    BY DEF Send, routines, tasks, Busy, Counted, Live, NBusy, NCounted, NLive
  <2>3. wg' = wg + 1 /\ Len(eventsChannel) \in Nat
    BY EmptyOne DEF Send, Add, IInv, TypeOK
  <2> QED  BY <2>1, <2>2, <2>3, Accounts, AccountsNext, Numbers DEF IInv
<1>6. Released'
  <2>1. wg' = 0 => Pending' = {}
    BY <1>1, <1>2, <1>5, WgZeroNext
  <2>2. SentLate'
    <3>1. e \notin owed /\ e \in Sent' /\ owed' = owed
      BY DEF Send, Add, stopping, IInv, Released, Sent, TypeOK
    <3> QED  BY <3>1 DEF SentLate
  <2> QED  BY <2>1, <2>2, ReleasedKept DEF Send, Add, stopping, IInv, TypeOK
<1> QED  BY <1>1, <1>2, <1>3, <1>4, <1>5, <1>6 DEF IInv

\* The event enters the channel.
LEMMA EnqueueKeeps ==
  ASSUME IInv, NEW e \in Events, Enqueue(e)
  PROVE  IInv'
<1>0. /\ caller[e] = "sending" /\ e \notin Inside /\ e # NoEvent
      /\ e \notin acked \cup dropped
  BY ClientAssumption DEF Enqueue, Inside, IInv, Where, Ended
<1>1. TypeOK'
  <2>1. /\ eventsChannel' \in Seq(Events)
        /\ Len(eventsChannel') <= ChannelBuffer
    BY AppendOne, EmptyOne, ClientAssumption DEF IInv, TypeOK, Enqueue, Room
  <2> QED  BY <2>1 DEF IInv, TypeOK, Enqueue, stopping, routines, tasks
<1>2. /\ Queued' = Queued \cup {e}
      /\ Len(eventsChannel') = Len(eventsChannel) + 1
      /\ IsInjective(eventsChannel) /\ e \notin Queued => IsInjective(eventsChannel')
  BY AppendOne DEF Enqueue, IInv, TypeOK, Queued
<1>3. /\ \A r \in Routines : Batched(r)' = Batched(r)
      /\ received' = received /\ routine' = routine /\ batch' = batch
      /\ \A id \in Events : Tried(id)' = Tried(id)
      /\ Live' = Live /\ req' = req
      /\ acked' = acked /\ dropped' = dropped
  BY DEF Enqueue, routines, tasks, Batched, Tried, Live
<1>4. Inside' = Inside \cup {e}
  BY <1>0 DEF Enqueue, Inside, IInv, TypeOK
<1>5. \A x \in Events : Fresh(x)' => Fresh(x)
  BY <1>0, <1>2, <1>3 DEF Fresh, Enqueue, IInv, TypeOK
<1>6. Where'
  <2>1. Ended'
    BY <1>3 DEF Ended, Enqueue, IInv, Where, TypeOK
  <2>2. Held'
    BY <1>2, <1>3, <1>4 DEF Held, IInv, Where
  <2>3. Covered'
    BY <1>2, <1>3, <1>4 DEF Covered, IInv, Where
  <2>4. Apart'
    <3>1. \A r \in Routines : received[r] # e /\ e \notin Batched(r)
      BY <1>0 DEF IInv, Where, Held
    <3> QED  BY <3>1, <1>2, <1>3 DEF Apart, IInv, Where
  <2>5. Distinct'
    <3>1. e \notin Queued
      BY <1>0 DEF IInv, Where, Held
    <3> QED  BY <3>1, <1>2, <1>3 DEF Distinct, IInv, Where
  <2>6. Hands'
    BY <1>3 DEF Hands, IInv, Where
  <2> QED  BY <2>1, <2>2, <2>3, <2>4, <2>5, <2>6 DEF Where
<1>7. Sizes'
  BY <1>3 DEF IInv, Sizes
<1>8. Calls'
  BY <1>3, <1>5, CallsKept DEF IInv, Enqueue, tasks
<1>9. WgAccounts'
  <2>1. NSending' = NSending - 1
    <3>1. e \in Sending /\ Sending' = Sending \ {e}
      BY DEF IInv, TypeOK, Enqueue, Sending
    <3> QED  BY <3>1, Finite, CountLoses DEF NSending
  <2>2. NBusy' = NBusy /\ NCounted' = NCounted /\ NLive' = NLive /\ wg' = wg
    BY <1>3 DEF Enqueue, Busy, Counted, NBusy, NCounted, NLive
  <2>3. Len(eventsChannel) \in Nat
    BY EmptyOne DEF IInv, TypeOK
  <2> QED  BY <1>2, <2>1, <2>2, <2>3, Accounts, AccountsNext, Numbers DEF IInv
<1>10. Released'
  <2>1. wg' = 0 => Pending' = {}
    BY <1>1, <1>6, <1>9, WgZeroNext
  <2> QED  BY <2>1, ReleasedKept DEF Enqueue, stopping, IInv, TypeOK
<1> QED  BY <1>1, <1>6, <1>7, <1>8, <1>9, <1>10 DEF IInv

-----------------------------------------------------------------------------
(* A sendRoutine.                                                           *)

\* The event passes from the channel into the hands of the routine.
LEMMA ReceiveKeeps ==
  ASSUME IInv, NEW r \in Routines, Receive(r)
  PROVE  IInv'
<1> DEFINE h == Head(eventsChannel)
<1>1. /\ h \in Events /\ h # NoEvent
      /\ Queued = Queued' \cup {h} /\ h \notin Queued'
      /\ eventsChannel' \in Seq(Events) /\ IsInjective(eventsChannel')
      /\ Len(eventsChannel') = Len(eventsChannel) - 1
  BY TailOne, ClientAssumption DEF Receive, IInv, TypeOK, Where, Distinct, Queued
<1> HIDE DEF h
<1>2. /\ received' = [received EXCEPT ![r] = h] /\ received[r] = NoEvent
      /\ routine[r] = "select" /\ routine' = [routine EXCEPT ![r] = "received"]
  BY DEF Receive, IInv, Where, Hands, h
<1>3. TypeOK'
  <2>1. Len(eventsChannel') <= ChannelBuffer
    <3>1. Len(eventsChannel) \in Nat /\ Len(eventsChannel) <= ChannelBuffer
      BY EmptyOne DEF IInv, TypeOK
    <3> HIDE DEF IInv
    <3> QED  BY <3>1, <1>1, ClientAssumption
  <2>2. /\ routine' \in [Routines -> {"select", "received", "registered"}]
        /\ received' \in [Routines -> Events \cup {NoEvent}]
    BY <1>1, <1>2 DEF IInv, TypeOK
  <2>3. UNCHANGED <<caller, acked, dropped, attempts, batch, wg, task, req,
                    retryCount, stop, owed>>
    BY DEF Receive, stopping, tasks
  <2> QED  BY <1>1, <2>1, <2>2, <2>3 DEF IInv, TypeOK
<1>4. /\ \A s \in Routines : Batched(s)' = Batched(s)
      /\ batch' = batch
      /\ \A id \in Events : Tried(id)' = Tried(id)
      /\ Live' = Live /\ req' = req
      /\ acked' = acked /\ dropped' = dropped /\ caller' = caller
      /\ Inside' = Inside
  BY DEF Receive, tasks, Batched, Tried, Live, Inside
<1>5. \A s \in Routines : received'[s] = IF s = r THEN h ELSE received[s]
  BY <1>2 DEF IInv, TypeOK
<1>6. \A x \in Events : Fresh(x)' => Fresh(x)
  BY <1>1, <1>4, <1>5 DEF Fresh
<1>7. Where'
  <2>1. Ended'
    BY <1>4 DEF Ended, IInv, Where
  <2>2. Held'
    BY <1>1, <1>4, <1>5 DEF Held, IInv, Where
  <2>3. Covered'
    <3> SUFFICES ASSUME NEW e \in Inside
                 PROVE  \/ e \in Queued'
                        \/ \E s \in Routines : received'[s] = e \/ e \in Batched(s)
                        \/ \E id \in Events : e \in Tried(id)
      BY <1>4 DEF Covered
    <3>1. e # NoEvent
      BY ClientAssumption DEF Inside
    <3> QED  BY <3>1, <1>1, <1>2, <1>5 DEF Covered, IInv, Where
  <2>4. Apart'
    <3>1. h \in Queued /\ \A s \in Routines : received[s] # h /\ h \notin Batched(s)
      BY <1>1 DEF Apart, IInv, Where
    <3>2. \A s \in Routines : received'[s] \notin Queued' /\ Queued' \cap Batched(s)' = {}
      BY <1>1, <1>4, <1>5 DEF Apart, IInv, Where
    <3>3. \A s, t \in Routines :
            /\ received'[s] \notin Batched(t)'
            /\ s # t => /\ received'[s] = received'[t] => received'[s] = NoEvent
                        /\ Batched(s)' \cap Batched(t)' = {}
      BY <3>1, <1>4, <1>5 DEF Apart, IInv, Where
    <3>4. \A id, other \in Events : id # other => Tried(id)' \cap Tried(other)' = {}
      BY <1>4 DEF Apart, IInv, Where
    <3> QED  BY <3>2, <3>3, <3>4 DEF Apart
  <2>5. Distinct'
    BY <1>1, <1>4 DEF Distinct, IInv, Where
  <2>6. Hands'
    BY <1>1, <1>2 DEF Hands, IInv, Where, TypeOK
  <2> QED  BY <2>1, <2>2, <2>3, <2>4, <2>5, <2>6 DEF Where
<1>8. Sizes'
  BY <1>4 DEF IInv, Sizes
<1>9. Calls'
  BY <1>4, <1>6, CallsKept DEF IInv, Receive, tasks
<1>10. WgAccounts'
  <2>1. NBusy' = NBusy + 1
    <3>1. r \notin Busy /\ Busy' = Busy \cup {r}
      BY <1>2 DEF IInv, TypeOK, Busy
    <3> QED  BY <3>1, Finite, CountGains DEF NBusy
  <2>2. NCounted' = NCounted
    <3>1. Counted' = Counted
      BY <1>2, <1>4 DEF IInv, TypeOK, Counted
    <3> QED  BY <3>1 DEF NCounted
  <2>3. NSending' = NSending /\ NLive' = NLive /\ wg' = wg
    BY <1>4 DEF Receive, Sending, NSending, NLive
  <2>4. Len(eventsChannel) \in Nat
    BY EmptyOne DEF IInv, TypeOK
  <2> QED  BY <1>1, <2>1, <2>2, <2>3, <2>4, Accounts, AccountsNext, Numbers DEF IInv
<1>11. Released'
  <2>1. wg' = 0 => Pending' = {}
    BY <1>3, <1>7, <1>10, WgZeroNext
  <2> QED  BY <2>1, <1>4, ReleasedKept DEF Receive, stopping, IInv
<1> QED  BY <1>3, <1>7, <1>8, <1>9, <1>10, <1>11 DEF IInv

\* No event moves, and the batch is counted with its first event.
LEMMA RegisterKeeps ==
  ASSUME IInv, NEW r \in Routines, Register(r)
  PROVE  IInv'
<1>0. wg > 0
  <2>1. r \in Busy
    BY DEF Register, Busy
  <2> QED  BY <2>1, WgZero DEF IInv
<1>1. TypeOK'
  BY DEF IInv, TypeOK, Register, Add, stopping, events, tasks
<1>2. /\ Where'
      /\ \A id \in Events : Tried(id)' = Tried(id)
      /\ \A x \in Events : Fresh(x)' <=> Fresh(x)
  <2>1. /\ UNCHANGED <<eventsChannel, received, batch, acked, dropped>>
        /\ Live' = Live /\ \A id \in Live : req'[id] = req[id]
        /\ caller' = caller
    BY DEF Register, events, tasks, Live
  <2>2. Hands'
    BY DEF Register, Hands, IInv, TypeOK, Where
  <2> QED  BY <2>1, <2>2, Undisturbed DEF IInv
<1>3. Sizes'
  BY DEF IInv, Sizes, Register, tasks, Live
<1>4. Calls'
  BY <1>2, CallsKept DEF IInv, Register, tasks, events
<1>5. WgAccounts'
  <2>1. NBusy' = NBusy
    <3>1. Busy' = Busy
      BY DEF Register, Busy, IInv, TypeOK
    <3> QED  BY <3>1 DEF NBusy
  <2>2. /\ eventsChannel' = eventsChannel /\ NSending' = NSending
        /\ NLive' = NLive
    BY DEF Register, events, tasks, Sending, Live, NSending, NLive
  <2>3. \/ NCounted' = NCounted + 1 /\ wg' = wg + 1
        \/ NCounted' = NCounted /\ wg' = wg
    <3>1. CASE First(r)
      <4>1. r \notin Counted /\ Counted' = Counted \cup {r}
        BY <3>1 DEF Register, First, Counted, IInv, TypeOK
      <4>2. NCounted' = NCounted + 1
        BY <4>1, Finite, CountGains DEF NCounted
      <4> QED  BY <3>1, <4>2 DEF Register, Add
    <3>2. CASE ~First(r)
      <4>1. Counted' = Counted /\ wg' = wg
        BY <3>2 DEF Register, First, Counted, IInv, TypeOK
      <4> QED  BY <4>1 DEF NCounted
    <3> QED  BY <3>1, <3>2
  <2>4. Len(eventsChannel) \in Nat
    BY EmptyOne DEF IInv, TypeOK
  <2> QED  BY <2>1, <2>2, <2>3, <2>4, Accounts, AccountsNext, Numbers DEF IInv
<1>6. Released'
  <2>1. wg' = 0 => Pending' = {}
    BY <1>1, <1>2, <1>5, WgZeroNext
  <2>2. /\ stop' = stop /\ owed' = owed
        /\ UNCHANGED <<acked, dropped, caller>>
    BY DEF Register, Add, stopping, events
  <2> QED  BY <2>1, <2>2, <1>0, ReleasedKept DEF IInv
<1> QED  BY <1>1, <1>2, <1>3, <1>4, <1>5, <1>6 DEF IInv

\* The closure send: the events of a batch, and the one in the hands of the
\* routine if there is one, pass to a task that has not been used before.
LEMMA HandedOver ==
  ASSUME TypeOK, Where, Calls, NEW r \in Routines, NEW list \in Seq(Events),
         list # << >>, IsInjective(list),
         Range(list) = Batched(r) \cup ({received[r]} \ {NoEvent}),
         StartTask(r, list),
         routine' = [routine EXCEPT ![r] = "select"],
         received' = [received EXCEPT ![r] = NoEvent],
         UNCHANGED events
  PROVE  /\ Where' /\ Calls'
         /\ Head(list) \notin Live
         /\ Live' = Live \cup {Head(list)}
         /\ req' = [req EXCEPT ![Head(list)] = list]
<1> DEFINE id == Head(list)
<1>0. id \in Events /\ id \in Range(list)
  BY TailOne
<1>1. /\ task' = [task EXCEPT ![id] = "ready"]
      /\ req' = [req EXCEPT ![id] = list]
      /\ batch' = [batch EXCEPT ![r] = << >>]
      /\ retryCount' = retryCount
  BY DEF StartTask
<1> HIDE DEF id
<1>2. \A x \in Range(list) :
        /\ x \in Inside /\ x \in Events /\ Fresh(x) /\ x # NoEvent
        /\ x = received[r] \/ x \in Batched(r)
  BY ClientAssumption DEF Where, Held, Fresh, Inside
<1>3. /\ task[id] = "none" /\ retryCount[id] = 0 /\ id \notin Live
      /\ \A x \in Range(list) : attempts[x] = 0 /\ \A other \in Events : x \notin Tried(other)
  BY <1>0, <1>2 DEF Calls, Live
<1>4. Live' = Live \cup {id}
  BY <1>0, <1>1, <1>3 DEF Live, TypeOK
<1>5. /\ Tried(id) = {} /\ Tried(id)' = Range(list)
      /\ \A other \in Events : other # id => Tried(other)' = Tried(other)
  BY <1>0, <1>1, <1>3, <1>4 DEF Tried, TypeOK
<1>6. \A s \in Routines :
        /\ Batched(s)' = IF s = r THEN {} ELSE Batched(s)
        /\ received'[s] = IF s = r THEN NoEvent ELSE received[s]
        /\ routine'[s] = IF s = r THEN "select" ELSE routine[s]
  <2>1. Range(<< >>) = {}
    BY DEF Range
  <2>2. \A s \in Routines : batch'[s] = IF s = r THEN << >> ELSE batch[s]
    BY <1>1 DEF TypeOK
  <2>3. \A s \in Routines : Batched(s)' = IF s = r THEN {} ELSE Batched(s)
    BY <2>1, <2>2 DEF Batched
  <2>4. \A s \in Routines :
          /\ received'[s] = IF s = r THEN NoEvent ELSE received[s]
          /\ routine'[s] = IF s = r THEN "select" ELSE routine[s]
    BY DEF TypeOK
  <2> QED  BY <2>3, <2>4
<1>7. Queued' = Queued /\ Inside' = Inside /\ eventsChannel' = eventsChannel
      /\ caller' = caller /\ acked' = acked /\ dropped' = dropped /\ attempts' = attempts
  BY DEF events, Queued, Inside
<1>8. Where'
  <2>1. Ended'
    BY <1>7 DEF Where, Ended
  <2>2. Held'
    <3>1. \A other \in Events : Tried(other)' \subseteq Inside
      BY <1>2, <1>5 DEF Where, Held
    <3> QED  BY <3>1, <1>6, <1>7 DEF Where, Held
  <2>3. Covered'
    <3> SUFFICES ASSUME NEW e \in Inside
                 PROVE  \/ e \in Queued
                        \/ \E s \in Routines : received'[s] = e \/ e \in Batched(s)'
                        \/ \E other \in Events : e \in Tried(other)'
      BY <1>7 DEF Covered
    <3>1. CASE e \in Range(list)
      BY <3>1, <1>0, <1>5
    <3>2. CASE e \notin Range(list)
      <4>1. e # NoEvent
        BY ClientAssumption DEF Inside
      <4>2. e # received[r] /\ e \notin Batched(r)
        BY <3>2, <4>1
      <4>3. ASSUME NEW other \in Events, e \in Tried(other) PROVE e \in Tried(other)'
        BY <4>3, <1>5
      <4> QED  BY <4>2, <4>3, <1>6 DEF Where, Covered
    <3> QED  BY <3>1, <3>2
  <2>4. Apart'
    <3>1. \A s \in Routines : received'[s] \notin Queued' /\ Queued' \cap Batched(s)' = {}
      BY <1>6, <1>7, ClientAssumption DEF Where, Apart, Held, Inside
    <3>2. ASSUME NEW s \in Routines, NEW t \in Routines
          PROVE  /\ received'[s] \notin Batched(t)'
                 /\ s # t => /\ received'[s] = received'[t] => received'[s] = NoEvent
                             /\ Batched(s)' \cap Batched(t)' = {}
      <4>1. NoEvent \notin Batched(t)
        BY ClientAssumption DEF Where, Held, Inside
      <4> QED  BY <4>1, <1>6 DEF Where, Apart
    <3>3. \A one, other \in Events : one # other => Tried(one)' \cap Tried(other)' = {}
      BY <1>3, <1>5 DEF Where, Apart
    <3> QED  BY <3>1, <3>2, <3>3 DEF Apart
  <2>5. Distinct'
    <3>1. \A s \in Routines : IsInjective(batch'[s])
      BY <1>1, EmptyOne DEF Where, Distinct, TypeOK
    <3>2. \A other \in Live' : IsInjective(req'[other])
      BY <1>0, <1>1, <1>4 DEF Where, Distinct, TypeOK, Live
    <3> QED  BY <3>1, <3>2, <1>7 DEF Where, Distinct
  <2>6. Hands'
    BY <1>6 DEF Where, Hands
  <2> QED  BY <2>1, <2>2, <2>3, <2>4, <2>5, <2>6 DEF Where
<1>9. Calls'
  <2>1. ASSUME NEW x \in Events, Fresh(x)'
        PROVE  Fresh(x) /\ x \notin Range(list)
    <3>1. Fresh(x)
      BY <2>1, <1>6, <1>7, ClientAssumption DEF Fresh
    <3>2. ASSUME x \in Range(list) PROVE FALSE
      <4>1. caller[x] = "returned" /\ x \notin Queued
        BY <3>2, <1>2 DEF Inside, Where, Apart
      <4>2. PICK s \in Routines : received'[s] = x \/ x \in Batched(s)'
        BY <2>1, <4>1, <1>7 DEF Fresh
      <4>3. s # r /\ (received[s] = x \/ x \in Batched(s))
        BY <4>2, <1>6, ClientAssumption
      <4> QED  BY <4>3, <3>2, <1>2 DEF Where, Apart
    <3> QED  BY <3>1, <3>2
  <2>2. ASSUME NEW x \in Events, Fresh(x)'
        PROVE  /\ task'[x] = "none" /\ attempts'[x] = 0
               /\ \A other \in Events : x \notin Tried(other)'
    <3>1. /\ x # id /\ task[x] = "none" /\ attempts[x] = 0
          /\ \A other \in Events : x \notin Tried(other)
      BY <2>1, <2>2, <1>0 DEF Calls
    <3>2. task'[x] = task[x]
      BY <3>1, <1>1 DEF TypeOK
    <3>3. ASSUME NEW other \in Events PROVE x \notin Tried(other)'
      BY <2>1, <2>2, <3>1, <1>5
    <3> QED  BY <3>1, <3>2, <3>3, <1>7
  <2>3. \A other \in Events : task'[other] = "none" => retryCount'[other] = 0
    BY <1>1 DEF Calls, TypeOK
  <2>4. \A other \in Events : task'[other] = "calling" => retryCount'[other] <= MaxRetries
    BY <1>1 DEF Calls, TypeOK
  <2>5. ASSUME NEW other \in Events, NEW x \in Tried(other)'
        PROVE  attempts'[x] = retryCount'[other] + IF task'[other] = "calling" THEN 1 ELSE 0
    <3>1. CASE other = id
      <4>1. task'[id] = "ready" /\ retryCount'[id] = 0 /\ attempts'[x] = 0
        BY <3>1, <2>5, <1>0, <1>1, <1>3, <1>5, <1>7 DEF TypeOK
      <4> QED  BY <3>1, <4>1
    <3>2. CASE other # id
      BY <3>2, <2>5, <1>1, <1>5, <1>7 DEF Calls, TypeOK
    <3> QED  BY <3>1, <3>2
  <2> QED  BY <2>2, <2>3, <2>4, <2>5 DEF Calls
<1> QED  BY <1>1, <1>3, <1>4, <1>8, <1>9 DEF id

\* The event joins the batch, which goes to a task when it is full.
LEMMA BatchKeeps ==
  ASSUME IInv, NEW r \in Routines, Batch(r)
  PROVE  IInv'
<1> DEFINE h == received[r]
           list == Append(batch[r], h)
<1>0. /\ routine[r] = "registered" /\ h \in Events /\ h # NoEvent /\ h \in Inside
      /\ h \notin Batched(r)
  BY ClientAssumption DEF Batch, IInv, TypeOK, Where, Hands, Held, Apart
<1>1. /\ list \in Seq(Events) /\ list # << >> /\ IsInjective(list)
      /\ Len(list) = Len(batch[r]) + 1
      /\ Range(list) = Batched(r) \cup {h}
  <2>1. batch[r] \in Seq(Events) /\ IsInjective(batch[r])
    BY DEF IInv, TypeOK, Where, Distinct
  <2> QED  BY <2>1, <1>0, AppendOne DEF Batched
<1>2. /\ routine' = [routine EXCEPT ![r] = "select"]
      /\ received' = [received EXCEPT ![r] = NoEvent]
      /\ Done
      /\ \/ Full(list) /\ StartTask(r, list)
         \/ ~Full(list) /\ batch' = [batch EXCEPT ![r] = list] /\ UNCHANGED tasks
      /\ UNCHANGED events
  BY DEF Batch
<1> HIDE DEF list, h
<1>3. wg > 0 /\ wg \in Nat
  <2>1. r \in Busy
    BY <1>0 DEF Busy
  <2> QED  BY <2>1, WgZero DEF IInv, TypeOK
<1>4. \A s \in Routines :
        /\ received'[s] = IF s = r THEN NoEvent ELSE received[s]
        /\ routine'[s] = IF s = r THEN "select" ELSE routine[s]
  BY <1>2 DEF IInv, TypeOK
<1>5. /\ eventsChannel' = eventsChannel /\ Queued' = Queued /\ Inside' = Inside
      /\ caller' = caller /\ acked' = acked /\ dropped' = dropped /\ attempts' = attempts
  BY <1>2 DEF events, Queued, Inside
<1>6. NBusy' = NBusy - 1 /\ NSending' = NSending /\ wg' = wg - 1
      /\ Len(eventsChannel) \in Nat
  <2>1. r \in Busy /\ Busy' = Busy \ {r}
    BY <1>0, <1>2 DEF IInv, TypeOK, Busy
  <2>2. Sending' = Sending
    BY <1>5 DEF Sending
  <2> QED  BY <2>1, <2>2, <1>2, EmptyOne, Finite, CountLoses
           DEF NBusy, NSending, Done, IInv, TypeOK
<1>7. TypeOK'
  <2>1. wg' \in Nat
    BY <1>3, <1>6
  <2>2. stop' \in {"open", "waiting", "woken", "closing", "closed", "panicked"}
        /\ owed' \in SUBSET Events
    BY <1>2 DEF Done, IInv, TypeOK
  <2>3. Head(list) \in Events /\ << >> \in Seq(Events)
    BY <1>1, TailOne
  <2>4. /\ batch' \in [Routines -> Seq(Events)]
        /\ task' \in [Events -> {"none", "ready", "calling", "done"}]
        /\ req' \in [Events -> Seq(Events)]
        /\ retryCount' \in [Events -> 0 .. MaxRetries + 1]
    <3>1. CASE StartTask(r, list)
      BY <2>3, <3>1, <1>1 DEF StartTask, IInv, TypeOK
    <3>2. CASE batch' = [batch EXCEPT ![r] = list] /\ UNCHANGED tasks
      BY <3>2, <1>1 DEF tasks, IInv, TypeOK
    <3> QED  BY <3>1, <3>2, <1>2
  <2>5. /\ routine' \in [Routines -> {"select", "received", "registered"}]
        /\ received' \in [Routines -> Events \cup {NoEvent}]
    BY <1>2 DEF IInv, TypeOK
  <2> QED  BY <2>1, <2>2, <2>4, <2>5, <1>5 DEF IInv, TypeOK
<1>8. ASSUME Full(list) /\ StartTask(r, list)
      PROVE  Where' /\ Calls' /\ Sizes' /\ WgAccounts'
  <2>1. /\ Where' /\ Calls'
        /\ Head(list) \notin Live /\ Live' = Live \cup {Head(list)}
        /\ req' = [req EXCEPT ![Head(list)] = list]
    <3>1. Range(list) = Batched(r) \cup ({received[r]} \ {NoEvent})
      BY <1>0, <1>1 DEF h
    <3> QED  BY <3>1, <1>1, <1>2, <1>8, HandedOver DEF IInv
  <2>2. Sizes'
    <3>1. Len(list) = BatchSize /\ Head(list) \in Events
      BY <1>1, <1>8, TailOne DEF Full
    <3>2. \A id \in Live' :
            req'[id] # << >> /\ (BatchSize > 0 => Len(req'[id]) <= BatchSize)
      <4> SUFFICES ASSUME NEW id \in Live'
                   PROVE  req'[id] # << >> /\ (BatchSize > 0 => Len(req'[id]) <= BatchSize)
        OBVIOUS
      <4>1. CASE id = Head(list)
        <5>1. req'[id] = list
          BY <4>1, <2>1, <3>1 DEF IInv, TypeOK
        <5> QED  BY <5>1, <3>1, <1>1, ClientAssumption
      <4>2. CASE id # Head(list)
        <5>1. id \in Live /\ req'[id] = req[id]
          BY <4>2, <2>1 DEF IInv, TypeOK, Live
        <5> QED  BY <5>1 DEF IInv, Sizes
      <4> QED  BY <4>1, <4>2
    <3>3. \A s \in Routines : BatchSize > 0 => Len(batch'[s]) < BatchSize
      BY <1>8, EmptyOne DEF StartTask, IInv, Sizes, TypeOK
    <3> QED  BY <3>2, <3>3 DEF Sizes
  <2>3. WgAccounts'
    <3>1. NLive' = NLive + 1
      BY <2>1, Finite, CountGains DEF NLive
    <3>2. NCounted' = NCounted - 1
      <4>1. r \in Counted /\ Counted' = Counted \ {r}
        BY <1>0, <1>4, <1>8 DEF Counted, StartTask, IInv, TypeOK
      <4> QED  BY <4>1, Finite, CountLoses DEF NCounted
    <3> QED  BY <3>1, <3>2, <1>5, <1>6, Accounts, AccountsNext, Numbers DEF IInv
  <2> QED  BY <2>1, <2>2, <2>3
<1>9. ASSUME ~Full(list) /\ batch' = [batch EXCEPT ![r] = list] /\ UNCHANGED tasks
      PROVE  Where' /\ Calls' /\ Sizes' /\ WgAccounts'
  <2>1. /\ Live' = Live /\ req' = req /\ task' = task /\ retryCount' = retryCount
        /\ \A id \in Events : Tried(id)' = Tried(id)
    BY <1>9 DEF tasks, Live, Tried
  <2>2. \A s \in Routines : Batched(s)' = IF s = r THEN Batched(r) \cup {h} ELSE Batched(s)
    BY <1>1, <1>9 DEF Batched, IInv, TypeOK
  <2>3. \A x \in Events : Fresh(x)' => Fresh(x)
    BY <1>4, <1>5, <2>2, ClientAssumption DEF Fresh, h
  <2>4. Where'
    <3>1. Ended'
      BY <1>5 DEF IInv, Where, Ended
    <3>2. Held'
      BY <1>0, <1>4, <1>5, <2>1, <2>2 DEF IInv, Where, Held
    <3>3. Covered'
      <4> SUFFICES ASSUME NEW e \in Inside
                   PROVE  \/ e \in Queued
                          \/ \E s \in Routines : received'[s] = e \/ e \in Batched(s)'
                          \/ \E id \in Events : e \in Tried(id)
        BY <1>5, <2>1 DEF Covered
      <4>1. CASE e = h
        BY <4>1, <2>2
      <4>2. CASE e # h
        BY <4>2, <1>4, <2>2 DEF IInv, Where, Covered, h
      <4> QED  BY <4>1, <4>2
    <3>4. Apart'
      <4>1. \A s \in Routines : received'[s] \notin Queued' /\ Queued' \cap Batched(s)' = {}
        <5>1. NoEvent \notin Queued /\ h \notin Queued
          BY ClientAssumption DEF IInv, Where, Held, Apart, Inside, h
        <5> QED  BY <5>1, <1>4, <1>5, <2>2 DEF IInv, Where, Apart
      <4>2. ASSUME NEW s \in Routines, NEW t \in Routines
            PROVE  /\ received'[s] \notin Batched(t)'
                   /\ s # t => /\ received'[s] = received'[t] => received'[s] = NoEvent
                               /\ Batched(s)' \cap Batched(t)' = {}
        <5>1. NoEvent \notin Batched(t)
          BY ClientAssumption DEF IInv, Where, Held, Inside
        <5>2. received'[s] \notin Batched(t)'
          BY <5>1, <1>0, <1>4, <2>2 DEF IInv, Where, Apart, h
        <5>3. ASSUME s # t PROVE Batched(s)' \cap Batched(t)' = {}
          BY <5>3, <2>2 DEF IInv, Where, Apart, h
        <5> QED  BY <5>2, <5>3, <1>4 DEF IInv, Where, Apart
      <4>3. \A id, other \in Events : id # other => Tried(id)' \cap Tried(other)' = {}
        BY <2>1 DEF IInv, Where, Apart
      <4> QED  BY <4>1, <4>2, <4>3 DEF Apart
    <3>5. Distinct'
      BY <1>1, <1>5, <1>9, <2>1 DEF IInv, Where, Distinct, TypeOK
    <3>6. Hands'
      BY <1>4 DEF IInv, Where, Hands
    <3> QED  BY <3>1, <3>2, <3>3, <3>4, <3>5, <3>6 DEF Where
  <2>5. Calls'
    BY <1>5, <2>1, <2>3, CallsKept DEF IInv
  <2>6. Sizes'
    <3>1. BatchSize > 0 => Len(list) < BatchSize
      <4>1. Len(batch[r]) \in Nat /\ Len(list) # BatchSize
        BY <1>9, EmptyOne DEF Full, IInv, TypeOK
      <4> QED  BY <4>1, <1>1, ClientAssumption DEF IInv, Sizes
    <3> QED  BY <3>1, <1>9, <2>1 DEF IInv, Sizes, TypeOK
  <2>7. WgAccounts'
    <3>1. Counted' = Counted
      BY <1>0, <1>1, <1>2, <1>9 DEF Counted, IInv, TypeOK
    <3>2. NCounted' = NCounted /\ NLive' = NLive
      BY <3>1, <2>1 DEF NCounted, NLive
    <3> QED  BY <3>2, <1>5, <1>6, Accounts, AccountsNext, Numbers DEF IInv
  <2> QED  BY <2>4, <2>5, <2>6, <2>7
<1>10. Where' /\ Calls' /\ Sizes' /\ WgAccounts'
  BY <1>2, <1>8, <1>9
<1>11. Released'
  <2>1. wg' = 0 => Pending' = {}
    BY <1>7, <1>10, WgZeroNext
  <2>2. owed' = owed
    BY <1>2 DEF Done
  <2> QED  BY <2>1, <2>2, <1>2, <1>3, <1>5, ReleasedKept DEF IInv
<1> QED  BY <1>7, <1>10, <1>11 DEF IInv

\* The ticker hands over a batch that is not full.
LEMMA TickKeeps ==
  ASSUME IInv, NEW r \in Routines, Tick(r)
  PROVE  IInv'
<1> DEFINE list == batch[r]
<1>1. /\ list \in Seq(Events) /\ list # << >> /\ IsInjective(list)
      /\ Range(list) = Batched(r)
      /\ received[r] = NoEvent /\ routine[r] = "select"
  BY DEF Tick, Lingering, IInv, TypeOK, Where, Distinct, Batched, Hands
<1>2. StartTask(r, list) /\ UNCHANGED <<events, routine, received, wg, stopping>>
  BY DEF Tick
<1>3. /\ eventsChannel' = eventsChannel /\ caller' = caller
      /\ acked' = acked /\ dropped' = dropped
      /\ wg' = wg /\ stop' = stop /\ owed' = owed
  BY <1>2 DEF events, stopping
<1>4. Head(list) \in Events
  BY <1>1, TailOne
<1>5. /\ Where' /\ Calls'
      /\ Head(list) \notin Live /\ Live' = Live \cup {Head(list)}
      /\ req' = [req EXCEPT ![Head(list)] = list]
  <2>1. /\ routine' = [routine EXCEPT ![r] = "select"]
        /\ received' = [received EXCEPT ![r] = NoEvent]
    BY <1>1, <1>2 DEF IInv, TypeOK
  <2>2. Range(list) = Batched(r) \cup ({received[r]} \ {NoEvent})
    BY <1>1
  <2> QED  BY <2>1, <2>2, <1>1, <1>2, HandedOver DEF IInv
<1>6. TypeOK'
  BY <1>1, <1>2, <1>4 DEF StartTask, events, stopping, IInv, TypeOK
<1>7. Sizes'
  <2>1. BatchSize > 0 => Len(list) <= BatchSize
    BY <1>1, EmptyOne, ClientAssumption DEF IInv, Sizes
  <2>2. \A id \in Live' :
          req'[id] # << >> /\ (BatchSize > 0 => Len(req'[id]) <= BatchSize)
    BY <2>1, <1>1, <1>5, <1>4 DEF IInv, Sizes, TypeOK, Live
  <2>3. \A s \in Routines : BatchSize > 0 => Len(batch'[s]) < BatchSize
    BY <1>2, EmptyOne DEF StartTask, IInv, Sizes, TypeOK
  <2> QED  BY <2>2, <2>3 DEF Sizes
<1>8. WgAccounts'
  <2>1. NLive' = NLive + 1
    BY <1>5, Finite, CountGains DEF NLive
  <2>2. NCounted' = NCounted - 1
    <3>1. r \in Counted /\ Counted' = Counted \ {r}
      BY <1>1, <1>2 DEF Counted, StartTask, IInv, TypeOK
    <3> QED  BY <3>1, Finite, CountLoses DEF NCounted
  <2>3. NSending' = NSending /\ NBusy' = NBusy /\ Len(eventsChannel) \in Nat
    BY <1>2, <1>3, EmptyOne DEF NSending, NBusy, Sending, Busy, IInv, TypeOK
  <2> QED  BY <2>1, <2>2, <2>3, <1>3, Accounts, AccountsNext, Numbers DEF IInv
<1>9. Released'
  <2>1. wg' = 0 => Pending' = {}
    BY <1>5, <1>6, <1>8, WgZeroNext
  <2> QED  BY <2>1, <1>3, ReleasedKept DEF IInv
<1> QED  BY <1>5, <1>6, <1>7, <1>8, <1>9 DEF IInv

-----------------------------------------------------------------------------
(* A task.                                                                  *)

\* The events of the request become part of one more call.
LEMMA AttemptKeeps ==
  ASSUME IInv, NEW id \in Events, Attempt(id)
  PROVE  IInv'
<1>0. /\ id \in Live /\ task[id] = "ready" /\ task' = [task EXCEPT ![id] = "calling"]
      /\ Tried(id) = Range(req[id])
      /\ retryCount[id] \in Nat /\ retryCount[id] <= MaxRetries
  BY ClientAssumption DEF Attempt, OutOfRetries, Live, Tried, IInv, TypeOK
<1>1. /\ eventsChannel' = eventsChannel /\ received' = received /\ batch' = batch
      /\ routine' = routine /\ caller' = caller /\ acked' = acked /\ dropped' = dropped
      /\ req' = req /\ retryCount' = retryCount /\ wg' = wg /\ stop' = stop /\ owed' = owed
      /\ Live' = Live
  BY <1>0 DEF Attempt, routines, stopping, Live, IInv, TypeOK
<1>2. \A e \in Events :
        attempts'[e] = IF e \in Tried(id) THEN attempts[e] + 1 ELSE attempts[e]
  BY <1>0 DEF Attempt
<1>3. \A e \in Tried(id) : e \in Events /\ attempts[e] = retryCount[id]
  BY <1>0 DEF IInv, Calls, Where, Held, Inside
<1>4. TypeOK'
  <2>1. attempts' \in [Events -> 0 .. MaxRetries + 1]
    <3>1. attempts' = [e \in Events |->
                         IF e \in Tried(id) THEN attempts[e] + 1 ELSE attempts[e]]
      BY <1>0 DEF Attempt
    <3>2. \A e \in Events : attempts[e] \in 0 .. MaxRetries + 1
      BY DEF IInv, TypeOK
    <3>3. ASSUME NEW e \in Events
          PROVE  (IF e \in Tried(id) THEN attempts[e] + 1 ELSE attempts[e])
                   \in 0 .. MaxRetries + 1
      BY <1>0, <1>3, <3>2, ClientAssumption
    <3> QED  BY <3>1, <3>3
  <2> QED  BY <2>1, <1>0, <1>1 DEF IInv, TypeOK
<1>5. /\ Where'
      /\ \A other \in Events : Tried(other)' = Tried(other)
      /\ \A x \in Events : Fresh(x)' <=> Fresh(x)
  <2>1. Hands'
    BY <1>1 DEF Hands, IInv, Where
  <2> QED  BY <2>1, <1>1, Undisturbed DEF IInv
<1>6. Sizes'
  BY <1>1 DEF Sizes, IInv
<1>7. Calls'
  <2>1. ASSUME NEW e \in Events, Fresh(e)'
        PROVE  /\ task'[e] = "none" /\ attempts'[e] = 0
               /\ \A other \in Events : e \notin Tried(other)'
    <3>1. /\ task[e] = "none" /\ attempts[e] = 0
          /\ \A other \in Events : e \notin Tried(other)
      BY <2>1, <1>5 DEF IInv, Calls
    <3>2. e # id
      BY <3>1, <1>0
    <3> QED  BY <3>1, <3>2, <1>0, <1>2, <1>5 DEF IInv, TypeOK
  <2>2. \A x \in Events : task'[x] = "none" => retryCount'[x] = 0
    BY <1>0, <1>1 DEF IInv, Calls, TypeOK
  <2>3. \A x \in Events : task'[x] = "calling" => retryCount'[x] <= MaxRetries
    BY <1>0, <1>1 DEF IInv, Calls, TypeOK
  <2>4. ASSUME NEW other \in Events, NEW e \in Tried(other)'
        PROVE  attempts'[e] = retryCount'[other] + IF task'[other] = "calling" THEN 1 ELSE 0
    <3>0. e \in Tried(other) /\ e \in Events
      BY <1>5 DEF IInv, Where, Held, Inside
    <3>1. CASE other = id
      <4>1. task'[id] = "calling"
        BY <1>0 DEF IInv, TypeOK
      <4> QED  BY <4>1, <3>0, <3>1, <1>1, <1>2, <1>3
    <3>2. CASE other # id
      <4>1. e \notin Tried(id)
        BY <3>0, <3>2 DEF IInv, Where, Apart
      <4>2. task'[other] = task[other]
        BY <3>2, <1>0 DEF IInv, TypeOK
      <4> QED  BY <4>1, <4>2, <3>0, <1>1, <1>2 DEF IInv, Calls
    <3> QED  BY <3>1, <3>2
  <2> QED  BY <2>1, <2>2, <2>3, <2>4 DEF Calls
<1>8. WgAccounts'
  BY <1>1 DEF IInv, WgAccounts, Sending, Busy, Counted
<1>9. Released'
  <2>1. wg' = 0 => Pending' = {}
    BY <1>4, <1>5, <1>8, WgZeroNext
  <2> QED  BY <2>1, <1>1, ReleasedKept DEF IInv
<1> QED  BY <1>4, <1>5, <1>6, <1>7, <1>8, <1>9 DEF IInv

\* A task ends, and with it all events of its request.
LEMMA TaskEnds ==
  ASSUME IInv, NEW id \in Events, id \in Live,
         task' = [task EXCEPT ![id] = "done"],
         acked \subseteq acked', dropped \subseteq dropped',
         acked' \cup dropped' = acked \cup dropped \cup Range(req[id]),
         acked' \cap dropped' = {},
         Done,
         UNCHANGED <<caller, eventsChannel, attempts, routines, req, retryCount>>
  PROVE  IInv'
<1>0. wg > 0 /\ wg \in Nat
  BY WgZero DEF IInv, TypeOK
<1>1. /\ received' = received /\ batch' = batch /\ routine' = routine
      /\ wg' = wg - 1 /\ owed' = owed
      /\ eventsChannel' = eventsChannel /\ caller' = caller /\ attempts' = attempts
      /\ req' = req /\ retryCount' = retryCount
  BY DEF routines, Done
<1>2. /\ Live' = Live \ {id} /\ id \in Live
      /\ Tried(id) = Range(req[id]) /\ Tried(id)' = {}
      /\ \A other \in Events : other # id => Tried(other)' = Tried(other)
  BY <1>1 DEF Live, Tried, IInv, TypeOK
<1>3. Inside' = Inside \ Tried(id) /\ Tried(id) \subseteq Inside
  BY <1>1, <1>2 DEF Inside, IInv, Where, Held
<1>4. /\ \A e \in Tried(id) : ~Fresh(e) /\ caller[e] = "returned" /\ e \in Events
      /\ \A e \in Events : Fresh(e)' <=> Fresh(e)
  BY <1>1, <1>3 DEF Fresh, IInv, Calls, Inside, Queued, Batched
<1>5. TypeOK'
  <2>1. wg' \in Nat
    BY <1>0, <1>1
  <2>2. stop' \in {"open", "waiting", "woken", "closing", "closed", "panicked"}
    BY DEF Done, IInv, TypeOK
  <2>3. acked' \in SUBSET Events /\ dropped' \in SUBSET Events
    BY <1>2, <1>4 DEF IInv, TypeOK
  <2> QED  BY <2>1, <2>2, <2>3, <1>1 DEF IInv, TypeOK
<1>6. Where'
  <2>1. Ended'
    BY <1>1, <1>2, <1>4 DEF Ended, IInv, Where
  <2>2. Queued' = Queued /\ \A r \in Routines : Batched(r)' = Batched(r)
    BY <1>1 DEF Queued, Batched
  <2>3. ASSUME NEW e \in Tried(id)
        PROVE  /\ e \notin Queued
               /\ \A r \in Routines : received[r] # e /\ e \notin Batched(r)
               /\ \A other \in Events : other # id => e \notin Tried(other)
    BY <1>4 DEF Fresh, IInv, Where, Apart
  <2>4. Held'
    <3>1. \A r \in Routines : received'[r] \in Inside' \cup {NoEvent}
      BY <2>3, <1>1, <1>3 DEF IInv, Where, Held
    <3>2. \A other \in Events : Tried(other)' \subseteq Inside'
      BY <2>3, <1>2, <1>3 DEF IInv, Where, Held
    <3> QED  BY <2>2, <2>3, <3>1, <3>2, <1>3 DEF IInv, Where, Held
  <2>5. Covered'
    BY <2>2, <1>1, <1>2, <1>3 DEF IInv, Where, Covered
  <2>6. Apart'
    BY <2>2, <1>1, <1>2 DEF IInv, Where, Apart
  <2>7. Distinct' /\ Hands'
    BY <1>1, <1>2 DEF IInv, Where, Distinct, Hands
  <2> QED  BY <2>1, <2>4, <2>5, <2>6, <2>7 DEF Where
<1>7. Sizes'
  BY <1>1, <1>2 DEF IInv, Sizes
<1>8. Calls'
  <2>1. ASSUME NEW e \in Events, Fresh(e)'
        PROVE  /\ task'[e] = "none" /\ attempts'[e] = 0
               /\ \A other \in Events : e \notin Tried(other)'
    <3>1. /\ task[e] = "none" /\ attempts[e] = 0
          /\ \A other \in Events : e \notin Tried(other)
      BY <2>1, <1>4 DEF IInv, Calls
    <3>2. e # id
      BY <3>1, <1>2 DEF Live
    <3>3. task'[e] = "none"
      BY <3>1, <3>2 DEF IInv, TypeOK
    <3>4. ASSUME NEW other \in Events PROVE e \notin Tried(other)'
      BY <3>1, <1>2
    <3> QED  BY <3>1, <3>3, <3>4, <1>1
  <2>2. \A x \in Events : /\ task'[x] = "none" => retryCount'[x] = 0
                          /\ task'[x] = "calling" => retryCount'[x] <= MaxRetries
    BY <1>1 DEF IInv, Calls, TypeOK
  <2>3. ASSUME NEW other \in Events, NEW e \in Tried(other)'
        PROVE  attempts'[e] = retryCount'[other] + IF task'[other] = "calling" THEN 1 ELSE 0
    <3>1. other # id /\ e \in Tried(other)
      BY <1>2
    <3>2. task'[other] = task[other]
      BY <3>1 DEF IInv, TypeOK
    <3> QED  BY <3>1, <3>2, <1>1 DEF IInv, Calls
  <2> QED  BY <2>1, <2>2, <2>3 DEF Calls
<1>9. WgAccounts'
  <2>1. NLive' = NLive - 1
    BY <1>2, Finite, CountLoses DEF NLive
  <2>2. /\ NSending' = NSending /\ NBusy' = NBusy /\ NCounted' = NCounted
        /\ Len(eventsChannel) \in Nat
    BY <1>1, EmptyOne
       DEF NSending, NBusy, NCounted, Sending, Busy, Counted, IInv, TypeOK
  <2> QED  BY <2>1, <2>2, <1>1, Accounts, AccountsNext, Numbers DEF IInv
<1>10. Released'
  <2>1. wg' = 0 => Pending' = {}
    BY <1>5, <1>6, <1>9, WgZeroNext
  <2> QED  BY <2>1, <1>0, <1>1, ReleasedKept DEF IInv
<1> QED  BY <1>5, <1>6, <1>7, <1>8, <1>9, <1>10 DEF IInv

LEMMA GiveUpKeeps ==
  ASSUME IInv, NEW id \in Events, GiveUp(id)
  PROVE  IInv'
<1>1. id \in Live /\ Tried(id) = Range(req[id])
  BY DEF GiveUp, Live, Tried
<1>2. Tried(id) \cap acked = {}
  BY DEF IInv, Where, Held, Inside
<1>3. /\ acked' = acked /\ dropped' = dropped \cup Range(req[id])
      /\ acked' \cap dropped' = {}
  BY <1>1, <1>2 DEF GiveUp, IInv, Where, Ended
<1> QED  BY <1>1, <1>3, TaskEnds DEF GiveUp

LEMMA CallSucceedsKeeps ==
  ASSUME IInv, NEW id \in Events, CallSucceeds(id)
  PROVE  IInv'
<1>1. id \in Live /\ Tried(id) = Range(req[id])
  BY DEF CallSucceeds, Live, Tried
<1>2. Tried(id) \cap dropped = {}
  BY DEF IInv, Where, Held, Inside
<1>3. /\ dropped' = dropped /\ acked' = acked \cup Range(req[id])
      /\ acked' \cap dropped' = {}
  BY <1>1, <1>2 DEF CallSucceeds, IInv, Where, Ended
<1> QED  BY <1>1, <1>3, TaskEnds DEF CallSucceeds

\* A task goes on with some events of its request; the others are delivered.
LEMMA TaskRetries ==
  ASSUME IInv, NEW id \in Events, task[id] = "calling",
         NEW list \in Seq(Events), list # << >>, IsInjective(list),
         Len(list) <= Len(req[id]), Range(list) \subseteq Range(req[id]),
         Retry(id, list),
         acked' = acked \cup (Range(req[id]) \ Range(list)),
         UNCHANGED <<caller, eventsChannel, dropped, attempts, routines, wg, stopping>>
  PROVE  IInv'
<1>1. /\ received' = received /\ batch' = batch /\ routine' = routine
      /\ wg' = wg /\ owed' = owed /\ stop' = stop
      /\ eventsChannel' = eventsChannel /\ caller' = caller
      /\ attempts' = attempts /\ dropped' = dropped
      /\ task' = [task EXCEPT ![id] = "ready"]
      /\ req' = [req EXCEPT ![id] = list]
      /\ retryCount' = [retryCount EXCEPT ![id] = @ + 1]
  BY DEF routines, stopping, Retry
<1>2. Live' = Live /\ id \in Live
  BY <1>1 DEF Live, IInv, TypeOK
<1>3. /\ Tried(id) = Range(req[id]) /\ Tried(id)' = Range(list)
      /\ Tried(id)' \subseteq Tried(id)
      /\ \A other \in Events : other # id => Tried(other)' = Tried(other)
      /\ acked' = acked \cup (Tried(id) \ Tried(id)')
  BY <1>1, <1>2 DEF Tried, IInv, TypeOK
<1>4. /\ Inside' = Inside \ (Tried(id) \ Tried(id)')
      /\ Tried(id) \subseteq Inside
  BY <1>1, <1>3 DEF Inside, IInv, Where, Held
<1>5. /\ \A e \in Tried(id) : ~Fresh(e) /\ caller[e] = "returned" /\ e \in Events
      /\ \A e \in Events : Fresh(e)' <=> Fresh(e)
  BY <1>1, <1>4 DEF Fresh, IInv, Calls, Inside, Queued, Batched
<1>6. retryCount[id] \in Nat /\ retryCount[id] <= MaxRetries
  BY ClientAssumption DEF IInv, TypeOK, Calls
<1>7. TypeOK'
  <2>1. retryCount' \in [Events -> 0 .. MaxRetries + 1]
    <3>1. retryCount[id] + 1 \in 0 .. MaxRetries + 1
      BY <1>6, ClientAssumption
    <3> QED  BY <3>1, <1>1 DEF IInv, TypeOK
  <2>2. acked' \in SUBSET Events
    BY <1>3, <1>5 DEF IInv, TypeOK
  <2> QED  BY <2>1, <2>2, <1>1 DEF IInv, TypeOK
<1>8. Where'
  <2>1. Ended'
    <3>1. Tried(id) \cap dropped = {}
      BY <1>4 DEF Inside
    <3> QED  BY <3>1, <1>1, <1>3, <1>5 DEF Ended, IInv, Where
  <2>2. Queued' = Queued /\ \A r \in Routines : Batched(r)' = Batched(r)
    BY <1>1 DEF Queued, Batched
  <2>3. ASSUME NEW e \in Tried(id)
        PROVE  /\ e \notin Queued
               /\ \A r \in Routines : received[r] # e /\ e \notin Batched(r)
               /\ \A other \in Events : other # id => e \notin Tried(other)
    BY <1>5 DEF Fresh, IInv, Where, Apart
  <2>4. Held'
    <3>1. \A r \in Routines : received'[r] \in Inside' \cup {NoEvent}
      BY <2>3, <1>1, <1>4 DEF IInv, Where, Held
    <3>2. ASSUME NEW other \in Events PROVE Tried(other)' \subseteq Inside'
      <4>1. CASE other = id
        BY <4>1, <1>3, <1>4
      <4>2. CASE other # id
        BY <4>2, <2>3, <1>3, <1>4 DEF IInv, Where, Held
      <4> QED  BY <4>1, <4>2
    <3> QED  BY <2>2, <2>3, <3>1, <3>2, <1>4 DEF IInv, Where, Held
  <2>5. Covered'
    <3> SUFFICES ASSUME NEW e \in Inside'
                 PROVE  \/ e \in Queued
                        \/ \E r \in Routines : received[r] = e \/ e \in Batched(r)
                        \/ \E other \in Events : e \in Tried(other)'
      BY <1>1, <2>2 DEF Covered
    <3>1. e \in Inside /\ (e \in Tried(id) => e \in Tried(id)')
      BY <1>4
    <3>2. ASSUME NEW other \in Events, e \in Tried(other) PROVE e \in Tried(other)'
      BY <3>1, <3>2, <1>3
    <3> QED  BY <3>1, <3>2 DEF IInv, Where, Covered
  <2>6. Apart'
    <3>1. ASSUME NEW one \in Events, NEW other \in Events, one # other
          PROVE  Tried(one)' \cap Tried(other)' = {}
      <4>1. Tried(one)' \subseteq Tried(one) /\ Tried(other)' \subseteq Tried(other)
        BY <1>3
      <4> QED  BY <3>1, <4>1 DEF IInv, Where, Apart
    <3> QED  BY <2>2, <3>1, <1>1 DEF IInv, Where, Apart
  <2>7. Distinct'
    <3>1. \A other \in Live : req'[other] = IF other = id THEN list ELSE req[other]
      BY <1>1 DEF IInv, TypeOK, Live
    <3> QED  BY <3>1, <1>1, <1>2 DEF IInv, Where, Distinct
  <2>8. Hands'
    BY <1>1 DEF IInv, Where, Hands
  <2> QED  BY <2>1, <2>4, <2>5, <2>6, <2>7, <2>8 DEF Where
<1>9. Sizes'
  <2>1. BatchSize > 0 => Len(list) <= BatchSize
    <3>1. Len(list) \in Nat /\ Len(req[id]) \in Nat
      BY EmptyOne DEF IInv, TypeOK
    <3> QED  BY <3>1, <1>2, ClientAssumption DEF IInv, Sizes
  <2>2. ASSUME NEW other \in Live
        PROVE  req'[other] # << >> /\ (BatchSize > 0 => Len(req'[other]) <= BatchSize)
    <3>1. CASE other = id
      <4>1. req'[id] = list
        BY <1>1 DEF IInv, TypeOK
      <4> QED  BY <3>1, <4>1, <2>1
    <3>2. CASE other # id
      <4>1. req'[other] = req[other]
        BY <3>2, <1>1 DEF IInv, TypeOK, Live
      <4> QED  BY <4>1 DEF IInv, Sizes
    <3> QED  BY <3>1, <3>2
  <2> QED  BY <2>2, <1>1, <1>2 DEF IInv, Sizes
<1>10. Calls'
  <2>1. ASSUME NEW e \in Events, Fresh(e)'
        PROVE  /\ task'[e] = "none" /\ attempts'[e] = 0
               /\ \A other \in Events : e \notin Tried(other)'
    <3>1. /\ task[e] = "none" /\ attempts[e] = 0
          /\ \A other \in Events : e \notin Tried(other)
      BY <2>1, <1>5 DEF IInv, Calls
    <3>2. task'[e] = "none"
      BY <3>1, <1>1 DEF IInv, TypeOK
    <3>3. ASSUME NEW other \in Events PROVE e \notin Tried(other)'
      BY <3>1, <1>3
    <3> QED  BY <3>1, <3>2, <3>3, <1>1
  <2>2. \A x \in Events : /\ task'[x] = "none" => retryCount'[x] = 0
                          /\ task'[x] = "calling" => retryCount'[x] <= MaxRetries
    BY <1>1 DEF IInv, Calls, TypeOK
  <2>3. ASSUME NEW other \in Events, NEW e \in Tried(other)'
        PROVE  attempts'[e] = retryCount'[other] + IF task'[other] = "calling" THEN 1 ELSE 0
    <3>1. CASE other = id
      <4>1. task'[id] = "ready" /\ retryCount'[id] = retryCount[id] + 1
        BY <1>1 DEF IInv, TypeOK
      <4>2. e \in Tried(id) /\ attempts[e] = retryCount[id] + 1
        BY <3>1, <1>3 DEF IInv, Calls
      <4> QED  BY <3>1, <4>1, <4>2, <1>1, <1>6
    <3>2. CASE other # id
      <4>1. e \in Tried(other) /\ task'[other] = task[other]
            /\ retryCount'[other] = retryCount[other]
        BY <3>2, <1>1, <1>3 DEF IInv, TypeOK
      <4> QED  BY <4>1, <1>1 DEF IInv, Calls
    <3> QED  BY <3>1, <3>2
  <2> QED  BY <2>1, <2>2, <2>3 DEF Calls
<1>11. WgAccounts'
  BY <1>1, <1>2 DEF IInv, WgAccounts, Sending, Busy, Counted
<1>12. Released'
  <2>1. wg' = 0 => Pending' = {}
    BY <1>7, <1>8, <1>11, WgZeroNext
  <2> QED  BY <2>1, <1>1, ReleasedKept DEF IInv
<1> QED  BY <1>7, <1>8, <1>9, <1>10, <1>11, <1>12 DEF IInv

LEMMA CallFailsKeeps ==
  ASSUME IInv, NEW id \in Events, CallFails(id)
  PROVE  IInv'
<1>1. id \in Live
  BY DEF CallFails, Live
<1>2. /\ req[id] \in Seq(Events) /\ req[id] # << >> /\ IsInjective(req[id])
      /\ Len(req[id]) <= Len(req[id])
  BY <1>1, EmptyOne DEF IInv, TypeOK, Sizes, Where, Distinct
<1>3. /\ task[id] = "calling" /\ Retry(id, req[id])
      /\ acked' = acked \cup (Range(req[id]) \ Range(req[id]))
      /\ UNCHANGED <<caller, eventsChannel, dropped, attempts, routines, wg, stopping>>
  BY DEF CallFails, events
<1> QED  BY <1>2, <1>3, TaskRetries

LEMMA CallReturnsFailuresKeeps ==
  ASSUME IInv, NEW id \in Events, CallReturnsFailures(id)
  PROVE  IInv'
<1>1. task[id] = "calling" /\ id \in Live
  BY DEF CallReturnsFailures, Live
<1>2. PICK indexes \in FailureIndexes(req[id]) :
        LET failedEvents == [i \in DOMAIN indexes |-> req[id][indexes[i]]] IN
        /\ Retry(id, failedEvents)
        /\ acked' = acked \cup (Range(req[id]) \ Range(failedEvents))
        /\ UNCHANGED <<caller, eventsChannel, dropped, attempts, routines, wg, stopping>>
  BY DEF CallReturnsFailures
<1> DEFINE failedEvents == [i \in DOMAIN indexes |-> req[id][indexes[i]]]
<1>3. /\ failedEvents \in Seq(Events) /\ failedEvents # << >> /\ IsInjective(failedEvents)
      /\ Len(failedEvents) <= Len(req[id])
      /\ Range(failedEvents) \subseteq Range(req[id])
  <2>1. req[id] \in Seq(Events) /\ IsInjective(req[id])
    BY <1>1 DEF IInv, TypeOK, Where, Distinct
  <2> HIDE DEF IInv
  <2> QED  BY <2>1, Selection
<1>4. /\ Retry(id, failedEvents)
      /\ acked' = acked \cup (Range(req[id]) \ Range(failedEvents))
      /\ UNCHANGED <<caller, eventsChannel, dropped, attempts, routines, wg, stopping>>
  BY <1>2
<1> HIDE DEF failedEvents
<1> QED  BY <1>1, <1>3, <1>4, TaskRetries

-----------------------------------------------------------------------------
(* GracefulStop.                                                            *)

\* A step of GracefulStop moves no event.
LEMMA StopMovesNone ==
  ASSUME IInv, UNCHANGED <<events, routines, wg, tasks>>
  PROVE  /\ Where' /\ Sizes' /\ Calls' /\ WgAccounts'
         /\ Pending' = Pending /\ Sent' = Sent
<1>1. /\ UNCHANGED <<eventsChannel, received, batch, acked, dropped>>
      /\ UNCHANGED <<caller, attempts, routine, wg, task, req, retryCount>>
      /\ Live' = Live /\ \A id \in Live : req'[id] = req[id]
  BY DEF events, routines, tasks, Live
<1>2. Hands'
  BY <1>1 DEF IInv, Where, Hands
<1>3. /\ Where'
      /\ \A id \in Events : Tried(id)' = Tried(id)
      /\ \A x \in Events : Fresh(x)' <=> Fresh(x)
  BY <1>1, <1>2, Undisturbed DEF IInv
<1>4. Calls'
  BY <1>1, <1>3, CallsKept DEF IInv
<1>5. Sizes' /\ WgAccounts' /\ Pending' = Pending /\ Sent' = Sent
  BY <1>1 DEF IInv, Sizes, WgAccounts, Sending, Busy, Counted, Pending, Sent
<1> QED  BY <1>3, <1>4, <1>5

LEMMA GracefulStopKeeps ==
  ASSUME IInv, GracefulStop
  PROVE  IInv'
<1>1. Where' /\ Sizes' /\ Calls' /\ WgAccounts' /\ Pending' = Pending /\ Sent' = Sent
  BY StopMovesNone DEF GracefulStop
<1>2. /\ wg' = wg /\ owed' = Sent /\ caller' = caller
      /\ stop' = IF wg = 0 THEN "closing" ELSE "waiting"
  BY DEF GracefulStop, events
<1>3. TypeOK'
  BY <1>2 DEF GracefulStop, events, routines, tasks, Sent, IInv, TypeOK
<1>4. Released'
  <2>1. wg = 0 => Pending = {}
    BY WgZero DEF IInv
  <2> QED  BY <1>1, <1>2, <2>1 DEF Released
<1> QED  BY <1>1, <1>3, <1>4 DEF IInv

LEMMA ResumeKeeps ==
  ASSUME IInv, Resume
  PROVE  IInv'
<1>1. Where' /\ Sizes' /\ Calls' /\ WgAccounts' /\ Pending' = Pending /\ Sent' = Sent
  BY StopMovesNone DEF Resume
<1>2. /\ wg' = wg /\ owed' = owed /\ caller' = caller /\ stop = "woken"
      /\ stop' = IF wg = 0 THEN "closing" ELSE "panicked"
  BY DEF Resume, events
<1>3. TypeOK'
  BY <1>2 DEF Resume, events, routines, tasks, IInv, TypeOK
<1>4. Released'
  BY <1>1, <1>2 DEF IInv, Released, SentLate
<1> QED  BY <1>1, <1>3, <1>4 DEF IInv

LEMMA CloseKeeps ==
  ASSUME IInv, Close
  PROVE  IInv'
<1>1. Where' /\ Sizes' /\ Calls' /\ WgAccounts' /\ Pending' = Pending /\ Sent' = Sent
  BY StopMovesNone DEF Close
<1>2. wg' = wg /\ owed' = owed /\ caller' = caller /\ stop = "closing" /\ stop' = "closed"
  BY DEF Close, events
<1>3. TypeOK'
  BY <1>2 DEF Close, events, routines, tasks, IInv, TypeOK
<1>4. Released'
  BY <1>1, <1>2 DEF IInv, Released, SentLate
<1> QED  BY <1>1, <1>3, <1>4 DEF IInv

-----------------------------------------------------------------------------
(* The invariant.                                                           *)

LEMMA InitIInv == Init => IInv
<1> SUFFICES ASSUME Init PROVE IInv
  OBVIOUS
<1>1. /\ Range(<< >>) = {} /\ IsInjective(<< >>) /\ Len(<< >>) = 0
      /\ << >> \in Seq(Events)
  BY DEF Range, IsInjective
<1>2. /\ Live = {} /\ Sending = {} /\ Busy = {} /\ Counted = {} /\ Pending = {}
      /\ Queued = {} /\ Inside = {}
      /\ \A r \in Routines : Batched(r) = {}
      /\ \A id \in Events : Tried(id) = {}
  BY <1>1 DEF Init, Live, Sending, Busy, Counted, Pending, Sent, Queued, Inside, Batched, Tried
<1>3. TypeOK
  BY <1>1, ClientAssumption DEF Init, TypeOK
<1>4. Where
  BY <1>1, <1>2 DEF Init, Where, Ended, Held, Covered, Apart, Distinct, Hands
<1>5. Sizes
  BY <1>1, <1>2, ClientAssumption DEF Init, Sizes
<1>6. Calls
  BY <1>2, ClientAssumption DEF Init, Calls
<1>7. WgAccounts
  BY <1>1, <1>2, FS_EmptySet DEF Init, WgAccounts
<1>8. Released
  BY DEF Init, Released
<1> QED  BY <1>3, <1>4, <1>5, <1>6, <1>7, <1>8 DEF IInv

LEMMA StutterKeeps == ASSUME IInv, UNCHANGED vars PROVE IInv'
<1>1. Where' /\ Sizes' /\ Calls' /\ WgAccounts' /\ Pending' = Pending /\ Sent' = Sent
  BY StopMovesNone DEF vars
<1>2. TypeOK' /\ Released'
  BY <1>1 DEF vars, events, routines, tasks, stopping, IInv, TypeOK, Released, SentLate
<1> QED  BY <1>1, <1>2 DEF IInv

LEMMA NextIInv == IInv /\ [Next]_vars => IInv'
<1> SUFFICES ASSUME IInv, [Next]_vars PROVE IInv'
  OBVIOUS
<1>1. ASSUME NEW e \in Events, Send(e) \/ Enqueue(e) PROVE IInv'
  BY <1>1, SendKeeps, EnqueueKeeps
<1>2. ASSUME NEW r \in Routines, SendRoutine(r) \/ Tick(r) PROVE IInv'
  BY <1>2, ReceiveKeeps, RegisterKeeps, BatchKeeps, TickKeeps DEF SendRoutine
<1>3. ASSUME NEW id \in Events, Attempt(id) \/ GiveUp(id) \/ CallEnds(id) PROVE IInv'
  BY <1>3, AttemptKeeps, GiveUpKeeps, CallFailsKeeps, CallSucceedsKeeps,
     CallReturnsFailuresKeeps DEF CallEnds
<1>4. CASE GracefulStop \/ Resume \/ Close
  BY <1>4, GracefulStopKeeps, ResumeKeeps, CloseKeeps
<1>5. CASE UNCHANGED vars
  BY <1>5, StutterKeeps
<1> QED  BY <1>1, <1>2, <1>3, <1>4, <1>5 DEF Next

LEMMA Invariance == Spec => []IInv
BY InitIInv, NextIInv, PTL DEF Spec

-----------------------------------------------------------------------------
(* What follows from it.                                                    *)

\* The variables keep their types: the WaitGroup never goes below 0, and the
\* channel never holds more events than its size.
THEOREM TypeCorrect == Spec => []TypeOK
<1>1. IInv => TypeOK
  BY DEF IInv
<1> QED  BY <1>1, Invariance, PTL

\* The WaitGroup counts the events on their way into a batch, and the batches.
THEOREM WaitGroupIsExact == Spec => []WgAccounts
<1>1. IInv => WgAccounts
  BY DEF IInv
<1> QED  BY <1>1, Invariance, PTL

\* A request has an event, and no more than batchSize.
THEOREM RequestsFit == Spec => []RequestFits
<1>1. IInv => RequestFits
  BY DEF IInv, Sizes, RequestFits
<1> QED  BY <1>1, Invariance, PTL

\* GracefulStop leaves no event behind that was sent before it.
THEOREM StopWaitsForAll == Spec => []StopWaits
<1>1. IInv => StopWaits
  BY DEF IInv, Released, StopWaits
<1> QED  BY <1>1, Invariance, PTL

\* GracefulStop does not panic unless the application sends an event after it.
THEOREM StopIsSafe == Spec => []PanicBySendOnly
<1>1. IInv => PanicBySendOnly
  BY DEF IInv, Released, PanicBySendOnly
<1> QED  BY <1>1, Invariance, PTL

-----------------------------------------------------------------------------
(* The place of an event.                                                   *)

\* An event that a sequence holds once has one slot in it.
LEMMA OneSlot ==
  ASSUME NEW place, NEW list, NEW e
  PROVE  /\ e \notin Range(list) => AtSlots(place, list, e) = {}
         /\ e \in Range(list) /\ IsInjective(list) =>
              \E p : AtSlots(place, list, e) = {p}
<1>1. ASSUME e \notin Range(list) PROVE AtSlots(place, list, e) = {}
  BY <1>1 DEF AtSlots, Range
<1>2. ASSUME e \in Range(list), IsInjective(list)
      PROVE  \E p : AtSlots(place, list, e) = {p}
  <2>1. PICK i \in DOMAIN list : list[i] = e
    BY <1>2 DEF Range
  <2>2. {n \in DOMAIN list : list[n] = e} = {i}
    BY <1>2, <2>1 DEF IsInjective
  <2>3. AtSlots(place, list, e) = {<<place, i>>}
    BY <2>2 DEF AtSlots
  <2> QED  BY <2>3
<1> QED  BY <1>1, <1>2

\* What the invariant says of the places of one event.
LEMMA NoneOrOne ==
  ASSUME IInv, NEW e \in Events
  PROVE  /\ e \notin Inside =>
              InHand(e) = {} /\ InBatches(e) = {} /\ InTasks(e) = {} /\ e \notin Queued
         /\ e \in Queued => InHand(e) = {} /\ InBatches(e) = {} /\ InTasks(e) = {}
         /\ \A r \in Routines : received[r] = e =>
              /\ \E p : InHand(e) = {p}
              /\ InBatches(e) = {} /\ InTasks(e) = {} /\ e \notin Queued
         /\ \A r \in Routines : e \in Batched(r) =>
              /\ \E p : InBatches(e) = {p}
              /\ InHand(e) = {} /\ InTasks(e) = {} /\ e \notin Queued
         /\ \A id \in Events : e \in Tried(id) =>
              /\ \E p : InTasks(e) = {p}
              /\ InHand(e) = {} /\ InBatches(e) = {} /\ e \notin Queued
<1>0. e # NoEvent /\ \A id \in Live : id \in Events /\ Tried(id) = Range(req[id])
  BY ClientAssumption DEF Live, Tried
<1>1. ASSUME \A r \in Routines : received[r] # e PROVE InHand(e) = {}
  BY <1>1 DEF InHand
<1>2. ASSUME \A r \in Routines : e \notin Batched(r) PROVE InBatches(e) = {}
  <2>1. \A r \in Routines : AtSlots(<<"batch", r>>, batch[r], e) = {}
    BY <1>2, OneSlot DEF Batched
  <2> QED  BY <2>1 DEF InBatches
<1>3. ASSUME \A id \in Events : e \notin Tried(id) PROVE InTasks(e) = {}
  <2>1. \A id \in Live : AtSlots(<<"task", id>>, req[id], e) = {}
    BY <1>0, <1>3, OneSlot
  <2> QED  BY <2>1 DEF InTasks
<1>4. e \in Queued \/ (\E r \in Routines : received[r] = e \/ e \in Batched(r))
        => \A id \in Events : e \notin Tried(id)
  BY DEF IInv, Calls, Fresh
<1>5. ASSUME e \notin Inside
      PROVE  InHand(e) = {} /\ InBatches(e) = {} /\ InTasks(e) = {} /\ e \notin Queued
  BY <1>0, <1>1, <1>2, <1>3, <1>5 DEF IInv, Where, Held
<1>6. ASSUME e \in Queued PROVE InHand(e) = {} /\ InBatches(e) = {} /\ InTasks(e) = {}
  BY <1>1, <1>2, <1>3, <1>4, <1>6 DEF IInv, Where, Apart
<1>7. ASSUME NEW r \in Routines, received[r] = e
      PROVE  /\ \E p : InHand(e) = {p}
             /\ InBatches(e) = {} /\ InTasks(e) = {} /\ e \notin Queued
  <2>1. {x \in Routines : received[x] = e} = {r}
    BY <1>0, <1>7 DEF IInv, Where, Apart
  <2>2. InHand(e) = {<<"received", r>>}
    BY <2>1 DEF InHand
  <2> QED  BY <2>2, <1>2, <1>3, <1>4, <1>7 DEF IInv, Where, Apart
<1>8. ASSUME NEW r \in Routines, e \in Batched(r)
      PROVE  /\ \E p : InBatches(e) = {p}
             /\ InHand(e) = {} /\ InTasks(e) = {} /\ e \notin Queued
  <2>1. PICK p : AtSlots(<<"batch", r>>, batch[r], e) = {p}
    BY <1>8, OneSlot DEF Batched, IInv, Where, Distinct
  <2>2. \A s \in Routines : s # r => AtSlots(<<"batch", s>>, batch[s], e) = {}
    BY <1>8, OneSlot DEF Batched, IInv, Where, Apart
  <2>3. InBatches(e) = {p}
    BY <2>1, <2>2 DEF InBatches
  <2> QED  BY <2>3, <1>1, <1>3, <1>4, <1>8 DEF IInv, Where, Apart
<1>9. ASSUME NEW id \in Events, e \in Tried(id)
      PROVE  /\ \E p : InTasks(e) = {p}
             /\ InHand(e) = {} /\ InBatches(e) = {} /\ e \notin Queued
  <2>0. id \in Live
    BY <1>9 DEF Tried
  <2>1. PICK p : AtSlots(<<"task", id>>, req[id], e) = {p}
    BY <1>0, <1>9, <2>0, OneSlot DEF IInv, Where, Distinct
  <2>2. ASSUME NEW other \in Live, other # id
        PROVE  AtSlots(<<"task", other>>, req[other], e) = {}
    <3>1. other \in Events /\ Tried(other) = Range(req[other])
      BY <1>0
    <3>2. e \notin Tried(other)
      BY <3>1, <1>9, <2>2 DEF IInv, Where, Apart
    <3> QED  BY <3>1, <3>2, OneSlot
  <2>3. InTasks(e) = {p}
    BY <2>0, <2>1, <2>2 DEF InTasks
  <2> QED  BY <2>3, <1>1, <1>2, <1>4, <1>9
<1> QED  BY <1>5, <1>6, <1>7, <1>8, <1>9

\* No event is lost or duplicated: it is in exactly one place.
THEOREM EventsAreInOnePlace == Spec => []ExactlyOnePlace
<1>1. ASSUME IInv, NEW e \in Events
      PROVE  Cardinality(Places(e)) = IF caller[e] = "idle" THEN 0 ELSE 1
  <2> DEFINE sending == InSet("sending", Sending, e)
             channel == AtSlots("channel", eventsChannel, e)
             endings == InSet("acked", acked, e) \cup InSet("dropped", dropped, e)
  <2>1. Places(e) = sending \cup channel \cup InHand(e) \cup InBatches(e)
                    \cup InTasks(e) \cup endings
    BY DEF Places
  <2>2. /\ e \notin Queued => channel = {}
        /\ e \in Queued => \E p : channel = {p}
    BY <1>1, OneSlot DEF Queued, IInv, Where, Distinct
  <2>3. /\ caller[e] # "sending" => sending = {}
        /\ caller[e] = "sending" => sending = {<<"sending", 0>>}
    BY DEF InSet, Sending
  <2>4. /\ e \notin acked \cup dropped => endings = {}
        /\ e \in acked \cup dropped => \E p : endings = {p}
    BY <1>1 DEF InSet, IInv, Where, Ended
  <2>5. /\ e \in acked \cup dropped => caller[e] = "returned"
        /\ e \in Inside <=> caller[e] = "returned" /\ e \notin acked \cup dropped
        /\ e \in Queued => e \in Inside
    BY <1>1 DEF Inside, IInv, Where, Ended, Held
  <2>6. /\ e \notin Inside =>
             InHand(e) = {} /\ InBatches(e) = {} /\ InTasks(e) = {} /\ e \notin Queued
        /\ e \in Inside => \/ e \in Queued
                           \/ \E r \in Routines : received[r] = e \/ e \in Batched(r)
                           \/ \E id \in Events : e \in Tried(id)
    BY <1>1, NoneOrOne DEF IInv, Where, Covered
  <2> HIDE DEF sending, channel, endings
  <2>7. CASE caller[e] = "idle"
    <3>1. Places(e) = {}
      BY <2>1, <2>2, <2>3, <2>4, <2>5, <2>6, <2>7
    <3> QED  BY <2>7, <3>1, FS_EmptySet
  <2>8. CASE caller[e] # "idle"
    <3>1. ASSUME e \in Inside PROVE \E p : Places(e) = {p}
      <4>1. sending = {} /\ endings = {}
        BY <3>1, <2>3, <2>4, <2>5
      <4>2. CASE e \in Queued
        BY <4>1, <4>2, <1>1, <2>1, <2>2, NoneOrOne
      <4>3. ASSUME NEW r \in Routines, received[r] = e PROVE \E p : Places(e) = {p}
        BY <4>1, <4>3, <1>1, <2>1, <2>2, NoneOrOne
      <4>4. ASSUME NEW r \in Routines, e \in Batched(r) PROVE \E p : Places(e) = {p}
        BY <4>1, <4>4, <1>1, <2>1, <2>2, NoneOrOne
      <4>5. ASSUME NEW id \in Events, e \in Tried(id) PROVE \E p : Places(e) = {p}
        BY <4>1, <4>5, <1>1, <2>1, <2>2, NoneOrOne
      <4> QED  BY <3>1, <2>6, <4>2, <4>3, <4>4, <4>5
    <3>2. ASSUME e \notin Inside PROVE \E p : Places(e) = {p}
      <4>1. /\ channel = {} /\ InHand(e) = {} /\ InBatches(e) = {} /\ InTasks(e) = {}
        BY <3>2, <2>2, <2>6
      <4>2. caller[e] = "sending" \/ e \in acked \cup dropped
        BY <1>1, <2>5, <2>8, <3>2 DEF IInv, TypeOK
      <4> QED  BY <4>1, <4>2, <2>1, <2>3, <2>4, <2>5
    <3>3. PICK p : Places(e) = {p}
      BY <3>1, <3>2
    <3> QED  BY <2>8, <3>3, FS_Singleton
  <2> QED  BY <2>7, <2>8
<1>2. IInv => ExactlyOnePlace
  BY <1>1 DEF ExactlyOnePlace
<1> QED  BY <1>2, Invariance, PTL

-----------------------------------------------------------------------------
(* The client keeps the promise of AsyncDelivery.                           *)

LEMMA InitPromise == Init => Promise!Init
BY DEF Init, Promise!Init, Pending, Sent, Stop

\* Where the promise sees GracefulStop.
LEMMA StopIs ==
  ASSUME TypeOK
  PROVE  /\ stop = "open" => Stop = "open"
         /\ stop = "closed" <=> Stop = "closed"
         /\ stop \in {"waiting", "woken", "closing", "panicked"} => Stop = "waiting"
BY DEF TypeOK, Stop

LEMMA StopKept ==
  ASSUME TypeOK, stop' = stop \/ Done
  PROVE  Stop' = Stop
<1>1. CASE stop' = stop
  BY <1>1 DEF Stop
<1>2. CASE Done
  <2>1. stop' = stop \/ (stop = "waiting" /\ stop' = "woken")
    BY <1>2 DEF Done
  <2> QED  BY <2>1 DEF Stop
<1> QED  BY <1>1, <1>2

\* The events of a live task are pending, and have been part of its calls.
LEMMA TriedArePending ==
  ASSUME IInv, NEW id \in Live
  PROVE  /\ Range(req[id]) \subseteq Pending
         /\ retryCount[id] \in 0 .. MaxRetries + 1
         /\ \A e \in Range(req[id]) :
              attempts[e] = retryCount[id] + IF task[id] = "calling" THEN 1 ELSE 0
<1>1. id \in Events /\ Tried(id) = Range(req[id])
  BY DEF Live, Tried
<1> QED  BY <1>1 DEF IInv, TypeOK, Where, Held, Inside, Pending, Sent, Calls

\* A step that moves events that have ended before, or none, is internal.
LEMMA Internal ==
  ASSUME TypeOK, UNCHANGED <<acked, dropped, attempts, owed>>,
         \A e \in Events : caller'[e] = "idle" <=> caller[e] = "idle",
         Stop' = Stop
  PROVE  UNCHANGED Promise!vars
BY DEF Promise!vars, Pending, Sent

\* Send, calls, their ends and GracefulStop are steps of the promise; the
\* channel, the routines and the WaitGroup are internal.
LEMMA StepPromise == IInv /\ [Next]_vars => [Promise!Next]_(Promise!vars)
<1> SUFFICES ASSUME IInv, [Next]_vars
             PROVE  Promise!Next \/ UNCHANGED Promise!vars
  OBVIOUS
<1>0. TypeOK
  BY DEF IInv
<1>1. ASSUME NEW e \in Events, Send(e)
      PROVE  Promise!Accept(e)
  <2>1. /\ caller[e] = "idle" /\ caller' = [caller EXCEPT ![e] = "sending"]
        /\ UNCHANGED <<acked, dropped, attempts, owed, stop>>
    BY <1>1 DEF Send, Add, stopping
  <2>2. e \notin acked \cup dropped
    BY <2>1 DEF IInv, Where, Ended
  <2>3. e \notin Pending /\ Pending' = Pending \cup {e}
    BY <2>1, <2>2 DEF Pending, Sent, IInv, TypeOK
  <2> QED  BY <1>0, <2>1, <2>2, <2>3, StopKept DEF Promise!Accept
<1>2. ASSUME NEW e \in Events, Enqueue(e)
      PROVE  UNCHANGED Promise!vars
  BY <1>0, <1>2, StopKept, Internal DEF Enqueue, stopping, TypeOK
<1>3. ASSUME NEW r \in Routines, Receive(r) \/ Register(r) \/ Tick(r)
      PROVE  UNCHANGED Promise!vars
  <2>1. UNCHANGED <<caller, acked, dropped, attempts, owed, stop>>
    BY <1>3 DEF Receive, Register, Tick, Add, events, stopping
  <2> QED  BY <1>0, <2>1, StopKept, Internal
<1>4. ASSUME NEW r \in Routines, Batch(r)
      PROVE  UNCHANGED Promise!vars
  <2>1. UNCHANGED <<caller, acked, dropped, attempts>> /\ Done /\ owed' = owed
    BY <1>4 DEF Batch, Done, events
  <2> QED  BY <1>0, <2>1, StopKept, Internal
<1>5. ASSUME NEW id \in Events, Attempt(id)
      PROVE  \E S \in SUBSET Events : Promise!Attempt(S)
  <2> DEFINE S == Range(req[id])
  <2>1. /\ id \in Live /\ task[id] = "ready" /\ ~(retryCount[id] > MaxRetries)
        /\ attempts' = [e \in Events |-> IF e \in S THEN attempts[e] + 1 ELSE attempts[e]]
        /\ UNCHANGED <<caller, acked, dropped, owed, stop>>
    BY <1>5 DEF Attempt, OutOfRetries, Live, stopping
  <2> HIDE DEF S
  <2>2. /\ S \subseteq Pending /\ S \subseteq Events
        /\ \A e \in S : attempts[e] <= MaxRetries
    BY <2>1, TriedArePending, ClientAssumption DEF S, Pending, Sent
  <2>3. attempts' = [e \in Events |-> attempts[e] + IF e \in S THEN 1 ELSE 0]
    BY <1>0, <2>1 DEF TypeOK
  <2>4. Pending' = Pending /\ Stop' = Stop
    BY <1>0, <2>1, StopKept DEF Pending, Sent
  <2> QED  BY <2>1, <2>2, <2>3, <2>4 DEF Promise!Attempt
<1>6. ASSUME NEW id \in Events, GiveUp(id)
      PROVE  \E S \in SUBSET Events : Promise!Drop(S)
  <2> DEFINE S == Range(req[id])
  <2>1. /\ id \in Live /\ task[id] = "ready" /\ retryCount[id] > MaxRetries
        /\ dropped' = dropped \cup S
        /\ UNCHANGED <<caller, acked, attempts>> /\ Done /\ owed' = owed
    BY <1>6 DEF GiveUp, OutOfRetries, Live, Done
  <2> HIDE DEF S
  <2>2. /\ S \subseteq Pending /\ S \subseteq Events
        /\ \A e \in S : attempts[e] = MaxRetries + 1
    BY <2>1, TriedArePending, ClientAssumption DEF S, Pending, Sent
  <2>3. Pending' = Pending \ S /\ Stop' = Stop
    BY <1>0, <2>1, StopKept DEF Pending, Sent
  <2> QED  BY <2>1, <2>2, <2>3 DEF Promise!Drop
<1>7. ASSUME NEW id \in Events, task[id] = "calling", stop # "closed",
             NEW S \in SUBSET Range(req[id]),
             acked' = acked \cup S,
             UNCHANGED <<caller, dropped, attempts, owed>>,
             Stop' = Stop
      PROVE  \E T \in SUBSET Events : Promise!Acknowledge(T)
  <2>1. id \in Live
    BY <1>7 DEF Live
  <2>2. /\ S \subseteq Pending /\ S \subseteq Events
        /\ \A e \in S : attempts[e] > 0
    BY <2>1, <1>7, TriedArePending, ClientAssumption DEF Pending, Sent
  <2>3. Pending' = Pending \ S /\ Stop # "closed"
    BY <1>0, <1>7, StopIs DEF Pending, Sent
  <2> QED  BY <1>7, <2>2, <2>3 DEF Promise!Acknowledge
<1>8. ASSUME NEW id \in Events, CallSucceeds(id)
      PROVE  \E S \in SUBSET Events : Promise!Acknowledge(S)
  <2>1. /\ task[id] = "calling" /\ stop # "closed"
        /\ acked' = acked \cup Range(req[id])
        /\ UNCHANGED <<caller, dropped, attempts, owed>> /\ Done
    BY <1>8 DEF CallSucceeds, Done
  <2> QED  BY <1>0, <1>7, <2>1, StopKept
<1>9. ASSUME NEW id \in Events, CallFails(id)
      PROVE  UNCHANGED Promise!vars
  BY <1>0, <1>9, StopKept, Internal DEF CallFails, events, stopping
<1>10. ASSUME NEW id \in Events, CallReturnsFailures(id)
       PROVE  \E S \in SUBSET Events : Promise!Acknowledge(S)
  <2>1. PICK indexes \in FailureIndexes(req[id]) :
          LET failedEvents == [i \in DOMAIN indexes |-> req[id][indexes[i]]] IN
          /\ task[id] = "calling" /\ stop # "closed"
          /\ acked' = acked \cup (Range(req[id]) \ Range(failedEvents))
          /\ UNCHANGED <<caller, dropped, attempts, owed, stop>>
    BY <1>10 DEF CallReturnsFailures, stopping
  <2>2. PICK S \in SUBSET Range(req[id]) :
          /\ task[id] = "calling" /\ stop # "closed"
          /\ acked' = acked \cup S
          /\ UNCHANGED <<caller, dropped, attempts, owed, stop>>
    BY <2>1
  <2> QED  BY <1>0, <1>7, <2>2, StopKept
<1>11. ASSUME GracefulStop
       PROVE  Promise!GracefulStop
  <2>1. /\ stop = "open" /\ stop' \in {"closing", "waiting"} /\ owed' = Sent
        /\ UNCHANGED <<caller, acked, dropped, attempts>>
    BY <1>11 DEF GracefulStop, events
  <2>2. Pending' = Pending /\ Stop = "open" /\ Stop' = "waiting"
    BY <2>1 DEF Pending, Sent, Stop
  <2>3. Sent = Pending \cup acked \cup dropped
    BY DEF Pending, Sent, IInv, TypeOK, Where, Ended
  <2> QED  BY <2>1, <2>2, <2>3 DEF Promise!GracefulStop
<1>12. ASSUME Resume
       PROVE  UNCHANGED Promise!vars
  <2>1. /\ stop = "woken" /\ stop' \in {"closing", "panicked"}
        /\ UNCHANGED <<caller, acked, dropped, attempts, owed>>
    BY <1>12 DEF Resume, events
  <2>2. Stop' = Stop
    BY <2>1 DEF Stop
  <2> QED  BY <1>0, <2>1, <2>2, Internal
<1>13. ASSUME Close
       PROVE  Promise!Close
  <2>1. /\ stop = "closing" /\ stop' = "closed"
        /\ UNCHANGED <<caller, acked, dropped, attempts, owed>>
    BY <1>13 DEF Close, events
  <2>2. Pending' = Pending /\ Stop = "waiting" /\ Stop' = "closed"
    BY <2>1 DEF Pending, Sent, Stop
  <2>3. owed \cap Pending = {}
    BY <2>1 DEF IInv, Released
  <2> QED  BY <2>1, <2>2, <2>3 DEF Promise!Close
<1>14. CASE UNCHANGED vars
  BY <1>0, <1>14, StopKept, Internal DEF vars, events, stopping
<1> QED
  BY <1>1, <1>2, <1>3, <1>4, <1>5, <1>6, <1>8, <1>9, <1>10, <1>11, <1>12, <1>13,
     <1>14 DEF Next, SendRoutine, CallEnds, Promise!Next

\* The client, with its routines, batches and retries, keeps the promise: every
\* event that Send accepts is part of at most maxRetries + 1 calls and ends
\* once, and GracefulStop closes the connection after all that was sent before it.
THEOREM ClientKeepsPromise == Spec => KeepsPromise
<1> QED
  BY InitPromise, StepPromise, Invariance, PTL DEF Spec, KeepsPromise, Promise!Spec
=============================================================================
