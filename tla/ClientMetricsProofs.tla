------------------------- MODULE ClientMetricsProofs -------------------------
(***************************************************************************)
(* Proofs about ClientMetrics, for any finite batches and topics and any    *)
(* number of retries.                                                       *)
(*                                                                         *)
(* The totals are sums over the topics. SumTheorems gives how they change   *)
(* when one counter does; the rest is that the events of a request, which   *)
(* are counted by its length, are as many, and are not acked or dropped     *)
(* yet.                                                                     *)
(***************************************************************************)
EXTENDS ClientMetrics, SumTheorems

(***************************************************************************)
(* Sequences whose elements are different.                                  *)
(***************************************************************************)
\* The elements of a sequence, and the first of them, are of its type.
LEMMA ItemsIn ==
  ASSUME NEW T, NEW s \in Seq(T)
  PROVE  Range(s) \subseteq T /\ (s # <<>> => Head(s) \in Range(s))
BY DEF Range

\* It has as many elements as its length says.
LEMMA InjectiveCard ==
  ASSUME NEW T, NEW s \in Seq(T), IsInjective(s)
  PROVE  IsFiniteSet(Range(s)) /\ Cardinality(Range(s)) = Len(s)
<1>1. s \in Bijection(1 .. Len(s), Range(s))
  BY DEF Bijection, Injection, Surjection, Range, IsInjective
<1>2. ExistsBijection(1 .. Len(s), Range(s)) /\ Len(s) \in Nat
  BY <1>1 DEF ExistsBijection
<1> QED BY <1>2, FS_CountingElements, FS_NatBijection

\* A list of some of the elements, and what it leaves.
LEMMA SubList ==
  ASSUME NEW T, NEW s \in Seq(T), IsInjective(s),
         NEW t \in Seq(Range(s)), IsInjective(t)
  PROVE  /\ Range(t) \subseteq Range(s)
         /\ Len(s) \in Nat /\ Len(t) \in Nat /\ Len(s) - Len(t) \in Nat
         /\ IsFiniteSet(Range(s) \ Range(t))
         /\ Cardinality(Range(s) \ Range(t)) = Len(s) - Len(t)
<1>1. Range(t) \subseteq Range(s)
  BY ItemsIn
<1>2. /\ IsFiniteSet(Range(s)) /\ Cardinality(Range(s)) = Len(s)
      /\ IsFiniteSet(Range(t)) /\ Cardinality(Range(t)) = Len(t)
  BY InjectiveCard
<1>3. Range(s) \cap Range(t) = Range(t)
  BY <1>1
<1>4. /\ IsFiniteSet(Range(s) \ Range(t))
      /\ Cardinality(Range(s) \ Range(t))
           = Cardinality(Range(s)) - Cardinality(Range(s) \cap Range(t))
  BY <1>2, FS_Difference
<1>5. Cardinality(Range(t)) <= Cardinality(Range(s))
  BY <1>1, <1>2, FS_Subset
<1>6. Len(s) \in Nat /\ Len(t) \in Nat
  OBVIOUS
<1>7. Cardinality(Range(s) \ Range(t)) = Len(s) - Len(t)
  BY <1>2, <1>3, <1>4
<1>8. Len(s) - Len(t) \in Nat
  BY <1>2, <1>5, <1>6
<1> QED BY <1>1, <1>4, <1>6, <1>7, <1>8

\* The union of finite sets without common elements.
LEMMA JoinCard ==
  ASSUME NEW S, NEW T, IsFiniteSet(S), IsFiniteSet(T), S \cap T = {}
  PROVE  Cardinality(S \cup T) = Cardinality(S) + Cardinality(T)
<1>1. Cardinality({}) = 0 /\ Cardinality(S) \in Nat /\ Cardinality(T) \in Nat
  BY FS_EmptySet, FS_CardinalityType
<1>2. Cardinality(S \cup T)
        = Cardinality(S) + Cardinality(T) - Cardinality(S \cap T)
  BY FS_Union, Zenon
<1>3. S \cap T = {}
  OBVIOUS
<1>4. Cardinality(S \cap T) = 0
  BY <1>1, <1>3, Zenon
<1> QED BY <1>1, <1>2, <1>4

\* There are finitely many events.
LEMMA EventsFinite == IsFiniteSet(Events)
<1>1. \A b \in Batches : IsFiniteSet(Range(b))
  BY InjectiveCard, MetricsAssumption
<1> DEFINE Sets == {Range(b) : b \in Batches}
<1>2. [b \in Batches |-> Range(b)] \in Surjection(Batches, Sets)
  BY DEF Surjection
<1>3. IsFiniteSet(Sets)
  BY <1>2, FS_Surjection, MetricsAssumption
<1> QED BY <1>1, <1>3, FS_UNION DEF Events

-----------------------------------------------------------------------------
(* The invariant.                                                           *)

\* Requests and answers list an event once.
EachOnce ==
  \A b \in Batches : IsInjective(req[b]) /\ IsInjective(answer[b])

\* A call is made only while there are retries left.
InTime ==
  \A b \in Batches :
    task[b] \in {"calling", "error", "answered"} => retryCount[b] <= MaxRetries

\* The type, and the parts about the requests, answers and retries of tasks.
Shape == TypeOK /\ EachOnce /\ InTime

\* The events of a request under way are not acked or dropped.
Pending ==
  \A b \in Batches :
    task[b] # "done" => Range(req[b]) \cap (acked \cup dropped) = {}

\* The events that the answer in hand leaves, of the batches in B.
Part(b) == IF task[b] = "answered" THEN Len(req[b]) - Len(answer[b]) ELSE 0
Held(B) == SumFunction([b \in Batches |-> IF b \in B THEN Part(b) ELSE 0])

OfTopic(S, topic) == {e \in S : TopicOf[e] = topic}
BatchesOf(topic) == {b \in Batches : TopicOf[Head(b)] = topic}

\* CountsTopic, with what is in hand.
PureDropped(topic) ==
  counter[<<topic, "dropped">>] = Cardinality(OfTopic(dropped, topic))
PureOk(topic) ==
  late = 0 => counter[<<topic, "ok">>]
                = Cardinality(OfTopic(acked, topic)) + Held(BatchesOf(topic))
PureCounts ==
  \A topic \in Topics : Pure(topic) => PureDropped(topic) /\ PureOk(topic)

IInv ==
  /\ Shape /\ Pending
  /\ DroppedIsExact /\ OkExceedsByLate /\ EveryTryCounted /\ PureCounts

-----------------------------------------------------------------------------
(* What every state of the right type has.                                  *)

\* The events of a request, and of its answer, are among those of the batch.
LEMMA RequestFacts ==
  ASSUME TypeOK, EachOnce, NEW b \in Batches
  PROVE  /\ Range(req[b]) \subseteq Range(b)
         /\ Range(b) \subseteq Events
         /\ IsFiniteSet(Range(req[b]))
         /\ Cardinality(Range(req[b])) = Len(req[b])
         /\ Head(req[b]) \in Range(req[b]) /\ Head(b) \in Range(b)
         /\ topicName(b) \in Topics
         /\ Len(req[b]) \in Nat
<1>1. req[b] \in Seq(Range(b)) /\ req[b] # <<>> /\ IsInjective(req[b])
  BY DEF TypeOK, EachOnce
<1>2. Range(req[b]) \subseteq Range(b) /\ Head(req[b]) \in Range(req[b])
  BY <1>1, ItemsIn
<1>3. b \in Seq(Range(b)) /\ b # <<>>
  BY MetricsAssumption
<1>4. Head(b) \in Range(b)
  BY <1>3, ItemsIn
<1>5. Range(b) \subseteq Events
  BY DEF Events
<1>6. topicName(b) \in Topics
  BY <1>2, <1>5, MetricsAssumption DEF topicName
<1>7. IsFiniteSet(Range(req[b])) /\ Cardinality(Range(req[b])) = Len(req[b])
  BY <1>1, InjectiveCard
<1>8. Len(req[b]) \in Nat
  BY <1>1
<1> QED BY <1>2, <1>4, <1>5, <1>6, <1>7, <1>8

LEMMA AnswerFacts ==
  ASSUME TypeOK, EachOnce, NEW b \in Batches
  PROVE  /\ Range(answer[b]) \subseteq Range(req[b])
         /\ Len(answer[b]) \in Nat /\ Len(req[b]) - Len(answer[b]) \in Nat
         /\ IsFiniteSet(Range(req[b]) \ Range(answer[b]))
         /\ Cardinality(Range(req[b]) \ Range(answer[b]))
              = Len(req[b]) - Len(answer[b])
<1>1. /\ req[b] \in Seq(Range(b)) /\ IsInjective(req[b])
      /\ answer[b] \in Seq(Range(req[b])) /\ IsInjective(answer[b])
  BY DEF TypeOK, EachOnce
<1> QED BY <1>1, SubList

\* An answer lists events of the request, each once.
LEMMA AnswerShape ==
  ASSUME TypeOK, EachOnce, NEW b \in Batches, NEW list \in Answers(b)
  PROVE  /\ list \in Seq(Range(req[b])) /\ IsInjective(list)
         /\ Len(list) \in Nat /\ Len(req[b]) - Len(list) \in Nat
<1>1. PICK s \in SUBSET Range(req[b]) : list \in SetToSeqs(s)
  BY DEF Answers
<1>2. Cardinality(s) \in Nat
  BY RequestFacts, FS_Subset, FS_CardinalityType
<1>3. list \in [1 .. Cardinality(s) -> s] /\ IsInjective(list)
  BY <1>1 DEF SetToSeqs, IsInjective
<1>4. list \in Seq(Range(req[b]))
  BY <1>1, <1>2, <1>3
<1>5. req[b] \in Seq(Range(b)) /\ IsInjective(req[b])
  BY DEF TypeOK, EachOnce
<1> QED BY <1>3, <1>4, <1>5, SubList

\* acked and dropped are finite.
LEMMA HistoryFinite ==
  ASSUME TypeOK
  PROVE  /\ IsFiniteSet(acked) /\ IsFiniteSet(dropped)
         /\ Cardinality(acked) \in Nat /\ Cardinality(dropped) \in Nat
BY EventsFinite, FS_Subset, FS_CardinalityType DEF TypeOK

-----------------------------------------------------------------------------
(* Requests and answers.                                                    *)

LEMMA ShapeInit == Init => Shape
<1> SUFFICES ASSUME Init PROVE Shape
  OBVIOUS
<1>1. \A b \in Batches : b \in Seq(Events)
  <2> SUFFICES ASSUME NEW b \in Batches PROVE b \in Seq(Events)
    OBVIOUS
  <2>1. b \in Seq(Range(b)) /\ Range(b) \subseteq Events
    BY MetricsAssumption DEF Events
  <2> QED BY <2>1
<1>2. {req, answer} \subseteq [Batches -> Seq(Events)]
  BY <1>1 DEF Init
<1>3. TypeOK
  BY <1>2, MetricsAssumption DEF Init, TypeOK
<1>4. EachOnce
  BY MetricsAssumption DEF Init, EachOnce, IsInjective
<1>5. InTime
  BY DEF Init, InTime
<1> QED BY <1>3, <1>4, <1>5 DEF Shape

\* What adding to two counters of a topic gives.
AddBoth(c, topic, m, n) ==
  [c EXCEPT ![<<topic, "failed">>] = @ + m, ![<<topic, "ok">>] = @ + n]

HasBoth(d, c, topic, m, n) ==
  /\ d \in [Topics \X Statuses -> Nat]
  /\ d[<<topic, "failed">>] = c[<<topic, "failed">>] + m
  /\ d[<<topic, "ok">>] = c[<<topic, "ok">>] + n
  /\ \A u \in Topics : d[<<u, "dropped">>] = c[<<u, "dropped">>]
  /\ \A u \in Topics \ {topic}, s \in Statuses : d[<<u, s>>] = c[<<u, s>>]

LEMMA AddTwo ==
  ASSUME NEW c \in [Topics \X Statuses -> Nat], NEW topic \in Topics,
         NEW m \in Nat, NEW n \in Nat
  PROVE  HasBoth(AddBoth(c, topic, m, n), c, topic, m, n)
<1> DEFINE d == AddBoth(c, topic, m, n)
<1> DEFINE e == [c EXCEPT ![<<topic, "failed">>] = @ + m]
<1>1. /\ e \in [Topics \X Statuses -> Nat]
      /\ e[<<topic, "failed">>] = c[<<topic, "failed">>] + m
      /\ e[<<topic, "ok">>] = c[<<topic, "ok">>]
      /\ \A u \in Topics : e[<<u, "dropped">>] = c[<<u, "dropped">>]
      /\ \A u \in Topics \ {topic}, s \in Statuses : e[<<u, s>>] = c[<<u, s>>]
  BY DEF Statuses
<1>2. d = [e EXCEPT ![<<topic, "ok">>] = @ + n]
  BY <1>1 DEF AddBoth
<1> HIDE DEF d, e
<1>3. HasBoth(d, c, topic, m, n)
  BY <1>1, <1>2 DEF Statuses, HasBoth
<1> QED BY <1>3 DEF d

\* Counting keeps the type of the counters.
LEMMA CounterType ==
  ASSUME Shape, NEW b \in Batches
  PROVE  /\ GiveUp(b) => counter' \in [Topics \X Statuses -> Nat]
         /\ InvokerFails(b) => counter' \in [Topics \X Statuses -> Nat]
         /\ InvokerReturns(b) => counter' \in [Topics \X Statuses -> Nat]
<1>1. counter \in [Topics \X Statuses -> Nat]
  BY DEF Shape, TypeOK
<1>2. topicName(b) \in Topics /\ Len(req[b]) \in Nat
  BY RequestFacts DEF Shape
<1>3. GiveUp(b) => counter' \in [Topics \X Statuses -> Nat]
  BY <1>1, <1>2 DEF GiveUp, Add, DropCount, Statuses
<1>4. InvokerFails(b) => counter' \in [Topics \X Statuses -> Nat]
  BY <1>1, <1>2 DEF InvokerFails, Add, Statuses
<1>5. ASSUME InvokerReturns(b)
      PROVE  counter' \in [Topics \X Statuses -> Nat]
  <2>1. PICK list \in Answers(b) :
          counter' = [counter EXCEPT
            ![<<topicName(b), "failed">>] = @ + FailedCount(b, list),
            ![<<topicName(b), "ok">>] = @ + OkCount(b, list)]
    BY <1>5 DEF InvokerReturns
  <2>2. FailedCount(b, list) \in Nat /\ OkCount(b, list) \in Nat
    BY AnswerShape DEF Shape, FailedCount, OkCount
  <2>3. counter' = AddBoth(counter, topicName(b), FailedCount(b, list),
                           OkCount(b, list))
    BY <2>1 DEF AddBoth
  <2> QED BY <1>1, <1>2, <2>2, <2>3, AddTwo DEF HasBoth
<1> QED BY <1>3, <1>4, <1>5

LEMMA ShapeStep ==
  ASSUME Shape, [Next]_vars
  PROVE  Shape'
<1> USE DEF Shape
<1>1. CASE UNCHANGED vars
  BY <1>1 DEF vars, TypeOK, EachOnce, InTime
<1>2. ASSUME NEW b \in Batches, Call(b)
      PROVE  Shape'
  BY <1>2, MetricsAssumption
     DEF Call, OutOfRetries, TypeOK, EachOnce, InTime
<1>3. ASSUME NEW b \in Batches, GiveUp(b)
      PROVE  Shape'
  <2>1. dropped' \in SUBSET Events
    BY <1>3, RequestFacts DEF GiveUp, TypeOK
  <2>2. TypeOK'
    BY <1>3, <2>1, CounterType DEF GiveUp, TypeOK
  <2> QED BY <1>3, <2>2 DEF GiveUp, TypeOK, EachOnce, InTime
<1>4. ASSUME NEW b \in Batches, InvokerFails(b)
      PROVE  Shape'
  <2>1. tries' \in Nat
    BY <1>4, RequestFacts DEF InvokerFails, TypeOK
  <2>2. TypeOK'
    BY <1>4, <2>1, CounterType DEF InvokerFails, TypeOK
  <2> QED BY <1>4, <2>2 DEF InvokerFails, TypeOK, EachOnce, InTime
<1>5. ASSUME NEW b \in Batches, InvokerReturns(b)
      PROVE  Shape'
  <2>1. PICK list \in Answers(b) : answer' = [answer EXCEPT ![b] = list]
    BY <1>5 DEF InvokerReturns
  <2>2. list \in Seq(Range(req[b])) /\ IsInjective(list)
    BY AnswerShape
  <2>3. list \in Seq(Events)
    <3>1. Range(req[b]) \subseteq Events
      BY RequestFacts
    <3> QED BY <2>2, <3>1
  <2>4. tries' \in Nat
    BY <1>5, RequestFacts DEF InvokerReturns, TypeOK
  <2>5. /\ answer' \in [Batches -> Seq(Events)]
        /\ \A d \in Batches : answer'[d] \in Seq(Range(req[d]))
    BY <2>1, <2>2, <2>3 DEF TypeOK
  <2>6. /\ task' = [task EXCEPT ![b] = "answered"] /\ task[b] = "calling"
        /\ UNCHANGED <<req, retryCount, acked, dropped, late>>
    BY <1>5 DEF InvokerReturns
  <2>7. TypeOK'
    BY <1>5, <2>4, <2>5, <2>6, CounterType DEF TypeOK
  <2> QED BY <2>1, <2>2, <2>6, <2>7 DEF TypeOK, EachOnce, InTime
<1>6. ASSUME NEW b \in Batches, RetryAll(b)
      PROVE  Shape'
  BY <1>6, MetricsAssumption DEF RetryAll, TypeOK, EachOnce, InTime
<1>7. ASSUME NEW b \in Batches, PutAside(b)
      PROVE  Shape'
  <2>1. late' \in Nat
    <3>1. OkCount(b, answer[b]) \in Nat
      BY AnswerFacts DEF OkCount
    <3> QED BY <1>7, <3>1 DEF PutAside, TypeOK
  <2>2. TypeOK'
    BY <1>7, <2>1, MetricsAssumption DEF PutAside, TypeOK, InTime
  <2> QED BY <1>7, <2>2 DEF PutAside, TypeOK, EachOnce, InTime, IsInjective
<1>8. ASSUME NEW b \in Batches, UseAnswer(b)
      PROVE  Shape'
  <2>1. acked' \in SUBSET Events
    BY <1>8, RequestFacts DEF UseAnswer, TypeOK
  <2>2. answer' \in [Batches -> Seq(Events)]
    BY <1>8 DEF UseAnswer, TypeOK
  <2>3. \A d \in Batches : IsInjective(answer'[d])
    BY <1>8 DEF UseAnswer, EachOnce, TypeOK, IsInjective
  <2>4. CASE answer[b] = <<>>
    <3>1. task' = [task EXCEPT ![b] = "done"] /\ UNCHANGED <<req, retryCount>>
      BY <1>8, <2>4 DEF UseAnswer
    <3>2. \A d \in Batches : answer'[d] \in Seq(Range(req'[d]))
      BY <1>8, <3>1 DEF UseAnswer, TypeOK
    <3>3. TypeOK'
      BY <1>8, <2>1, <2>2, <3>1, <3>2 DEF UseAnswer, TypeOK
    <3> QED BY <2>3, <3>1, <3>3 DEF TypeOK, EachOnce, InTime
  <2>5. CASE answer[b] # <<>>
    <3>1. /\ task' = [task EXCEPT ![b] = "ready"]
          /\ req' = [req EXCEPT ![b] = answer[b]]
          /\ retryCount' = [retryCount EXCEPT ![b] = @ + 1]
      BY <1>8, <2>5 DEF UseAnswer
    <3>2. /\ answer[b] \in Seq(Range(b)) /\ answer[b] \in Seq(Events)
          /\ IsInjective(answer[b])
      <4>1. answer[b] \in Seq(Range(req[b])) /\ Range(req[b]) \subseteq Range(b)
        BY RequestFacts DEF TypeOK
      <4> QED BY <4>1 DEF TypeOK, EachOnce
    <3>3. \A d \in Batches : req'[d] \in Seq(Range(d)) /\ req'[d] # <<>>
      BY <2>5, <3>1, <3>2 DEF TypeOK
    <3>4. \A d \in Batches : answer'[d] \in Seq(Range(req'[d]))
      <4>1. answer' = [answer EXCEPT ![b] = <<>>]
        BY <1>8 DEF UseAnswer
      <4>2. answer'[b] = <<>>
        BY <4>1 DEF TypeOK
      <4>3. \A d \in Batches \ {b} : answer'[d] = answer[d] /\ req'[d] = req[d]
        BY <3>1, <4>1 DEF TypeOK
      <4>4. \A d \in Batches : answer[d] \in Seq(Range(req[d]))
        BY DEF TypeOK
      <4>5. answer'[b] \in Seq(Range(req'[b]))
        BY <4>2
      <4> QED BY <4>3, <4>4, <4>5
    <3>5. retryCount[b] \in 0 .. MaxRetries
      BY <1>8, MetricsAssumption DEF UseAnswer, TypeOK, InTime
    <3>6. TypeOK'
      BY <1>8, <2>1, <2>2, <3>1, <3>2, <3>3, <3>4, <3>5, MetricsAssumption
         DEF UseAnswer, TypeOK
    <3>7. EachOnce'
      BY <2>3, <3>1, <3>2 DEF TypeOK, EachOnce
    <3> QED BY <3>1, <3>6, <3>7 DEF TypeOK, InTime
  <2> QED BY <2>4, <2>5
<1> QED BY <1>1, <1>2, <1>3, <1>4, <1>5, <1>6, <1>7, <1>8 DEF Next

-----------------------------------------------------------------------------
(* Events of unfinished requests.                                           *)

\* Requests have no common events.
LEMMA RequestsApart ==
  ASSUME Shape, NEW b \in Batches, NEW d \in Batches, b # d
  PROVE  Range(req[b]) \cap Range(req[d]) = {}
BY RequestFacts, MetricsAssumption DEF Shape

LEMMA PendingStep ==
  ASSUME Shape, Pending, [Next]_vars
  PROVE  Pending'
<1>1. CASE UNCHANGED vars
  BY <1>1 DEF vars, Pending
<1>2. ASSUME NEW b \in Batches,
             \/ Call(b) \/ InvokerFails(b) \/ InvokerReturns(b)
             \/ RetryAll(b) \/ PutAside(b)
      PROVE  Pending'
  BY <1>2 DEF Call, InvokerFails, InvokerReturns, RetryAll, PutAside,
              Pending, Shape, TypeOK
<1>3. ASSUME NEW b \in Batches, GiveUp(b)
      PROVE  Pending'
  <2>1. task' = [task EXCEPT ![b] = "done"] /\ UNCHANGED <<req, acked>>
        /\ dropped' = dropped \cup Range(req[b])
    BY <1>3 DEF GiveUp
  <2>2. ASSUME NEW d \in Batches, task'[d] # "done"
        PROVE  Range(req'[d]) \cap (acked' \cup dropped') = {}
    <3>1. d # b /\ task[d] # "done"
      BY <2>1, <2>2 DEF Shape, TypeOK
    <3>2. Range(req[d]) \cap (acked \cup dropped) = {}
      BY <3>1 DEF Pending
    <3> QED BY <2>1, <3>1, <3>2, RequestsApart
  <2> QED BY <2>2 DEF Pending
<1>4. ASSUME NEW b \in Batches, UseAnswer(b)
      PROVE  Pending'
  <2>1. acked' = acked \cup (Range(req[b]) \ Range(answer[b]))
        /\ dropped' = dropped /\ task[b] = "answered"
    BY <1>4 DEF UseAnswer
  <2>2. ASSUME NEW d \in Batches, task'[d] # "done"
        PROVE  Range(req'[d]) \cap (acked' \cup dropped') = {}
    <3>1. CASE d = b
      <4>1. req'[b] = answer[b]
        BY <1>4, <2>2, <3>1 DEF UseAnswer, Shape, TypeOK
      <4>2. Range(req[b]) \cap (acked \cup dropped) = {}
        BY <2>1 DEF Pending
      <4> QED BY <2>1, <3>1, <4>1, <4>2, AnswerFacts DEF Shape
    <3>2. CASE d # b
      <4>1. task[d] # "done" /\ req'[d] = req[d]
        BY <1>4, <2>2, <3>2 DEF UseAnswer, Shape, TypeOK
      <4>2. Range(req[d]) \cap (acked \cup dropped) = {}
        BY <4>1 DEF Pending
      <4> QED BY <2>1, <3>2, <4>1, <4>2, RequestsApart
    <3> QED BY <3>1, <3>2
  <2> QED BY <2>2 DEF Pending
<1> QED BY <1>1, <1>2, <1>3, <1>4 DEF Next

-----------------------------------------------------------------------------
(* The totals.                                                              *)

TotalOf(c, status) == SumFunction([topic \in Topics |-> c[<<topic, status>>]])

\* A total is a number, and grows with one of its counters.
LEMMA TotalType ==
  ASSUME NEW c \in [Topics \X Statuses -> Nat], NEW status \in Statuses
  PROVE  TotalOf(c, status) \in Int
<1> DEFINE f == [topic \in Topics |-> c[<<topic, status>>]]
<1>1. f \in [Topics -> Int]
  OBVIOUS
<1>2. TotalOf(c, status) = SumFunction(f)
  BY DEF TotalOf
<1>3. IsFiniteSet(Topics)
  BY MetricsAssumption
<1> HIDE DEF f
<1> QED BY <1>1, <1>2, <1>3, SumType

LEMMA TotalSame ==
  ASSUME NEW c, NEW d, NEW status,
         \A topic \in Topics : d[<<topic, status>>] = c[<<topic, status>>]
  PROVE  TotalOf(d, status) = TotalOf(c, status)
<1>1. [topic \in Topics |-> d[<<topic, status>>]]
        = [topic \in Topics |-> c[<<topic, status>>]]
  OBVIOUS
<1> QED BY <1>1 DEF TotalOf

LEMMA TotalAdd ==
  ASSUME NEW c \in [Topics \X Statuses -> Nat],
         NEW d \in [Topics \X Statuses -> Nat],
         NEW topic \in Topics, NEW status \in Statuses, NEW n \in Nat,
         d[<<topic, status>>] = c[<<topic, status>>] + n,
         \A u \in Topics \ {topic} : d[<<u, status>>] = c[<<u, status>>]
  PROVE  TotalOf(d, status) = TotalOf(c, status) + n
<1> DEFINE f == [t \in Topics |-> c[<<t, status>>]]
<1> DEFINE g == [t \in Topics |-> d[<<t, status>>]]
<1>1. f \in [Topics -> Int] /\ g \in [Topics -> Int]
  OBVIOUS
<1>2. g[topic] = f[topic] + n /\ f[topic] \in Int
  BY <1>1
<1>3. \A u \in Topics \ {topic} : g[u] = f[u]
  OBVIOUS
<1>4. TotalOf(d, status) = SumFunction(g) /\ TotalOf(c, status) = SumFunction(f)
  BY DEF TotalOf
<1> HIDE DEF f, g
<1>5. IsFiniteSet(Topics)
  BY MetricsAssumption
<1>6. SumFunction(g) = SumFunction(f) + g[topic] - f[topic]
  BY <1>1, <1>3, <1>5, SumUpdate, Zenon
<1>7. SumFunction(f) \in Int
  BY <1>1, <1>5, SumType
<1> QED BY <1>2, <1>4, <1>6, <1>7

\* The same for a counter that is increased.
LEMMA AddOne ==
  ASSUME NEW c \in [Topics \X Statuses -> Nat], NEW topic \in Topics,
         NEW status \in Statuses, NEW n \in Nat, NEW d,
         d = [c EXCEPT ![<<topic, status>>] = @ + n]
  PROVE  /\ d \in [Topics \X Statuses -> Nat]
         /\ d[<<topic, status>>] = c[<<topic, status>>] + n
         /\ \A u \in Topics, s \in Statuses :
              u # topic \/ s # status => d[<<u, s>>] = c[<<u, s>>]
BY DEF Statuses

\* The totals when two counters of a topic are increased.
TotalsHave(d, c, m, n) ==
  /\ TotalOf(d, "failed") = TotalOf(c, "failed") + m
  /\ TotalOf(d, "ok") = TotalOf(c, "ok") + n
  /\ TotalOf(d, "dropped") = TotalOf(c, "dropped")

LEMMA TotalAddTwo ==
  ASSUME NEW c \in [Topics \X Statuses -> Nat], NEW topic \in Topics,
         NEW m \in Nat, NEW n \in Nat
  PROVE  TotalsHave(AddBoth(c, topic, m, n), c, m, n)
<1> DEFINE d == AddBoth(c, topic, m, n)
<1>1. HasBoth(d, c, topic, m, n)
  BY AddTwo
<1> HIDE DEF d
<1>2. "failed" \in Statuses /\ "ok" \in Statuses
  BY DEF Statuses
<1>3. \A u \in Topics \ {topic} : d[<<u, "failed">>] = c[<<u, "failed">>]
  BY <1>1, <1>2 DEF HasBoth
<1>4. \A u \in Topics \ {topic} : d[<<u, "ok">>] = c[<<u, "ok">>]
  BY <1>1, <1>2 DEF HasBoth
<1>5. TotalOf(d, "failed") = TotalOf(c, "failed") + m
  BY <1>1, <1>2, <1>3, TotalAdd DEF HasBoth
<1>6. TotalOf(d, "ok") = TotalOf(c, "ok") + n
  BY <1>1, <1>2, <1>4, TotalAdd DEF HasBoth
<1>7. TotalOf(d, "dropped") = TotalOf(c, "dropped")
  BY <1>1, TotalSame DEF HasBoth
<1> QED BY <1>5, <1>6, <1>7 DEF d, TotalsHave

\* What a returned answer adds to the counters.
LEMMA Returned ==
  ASSUME Shape, NEW b \in Batches, InvokerReturns(b)
  PROVE  /\ topicName(b) \in Topics
         /\ Len(answer'[b]) \in Nat /\ Len(req[b]) - Len(answer'[b]) \in Nat
         /\ counter' = AddBoth(counter, topicName(b), Len(answer'[b]),
                               Len(req[b]) - Len(answer'[b]))
         /\ HasBoth(counter', counter, topicName(b), Len(answer'[b]),
                    Len(req[b]) - Len(answer'[b]))
<1>1. PICK list \in Answers(b) :
        /\ answer' = [answer EXCEPT ![b] = list]
        /\ counter' = [counter EXCEPT
             ![<<topicName(b), "failed">>] = @ + FailedCount(b, list),
             ![<<topicName(b), "ok">>] = @ + OkCount(b, list)]
  BY DEF InvokerReturns
<1>2. answer'[b] = list
  BY <1>1 DEF Shape, TypeOK
<1>3. /\ FailedCount(b, list) = Len(answer'[b])
      /\ OkCount(b, list) = Len(req[b]) - Len(answer'[b])
      /\ Len(answer'[b]) \in Nat /\ Len(req[b]) - Len(answer'[b]) \in Nat
  BY <1>2, AnswerShape DEF Shape, FailedCount, OkCount
<1> DEFINE m == Len(answer'[b])
<1> DEFINE n == Len(req[b]) - Len(answer'[b])
<1>4. counter' = AddBoth(counter, topicName(b), m, n)
  BY <1>1, <1>3 DEF AddBoth
<1>5. /\ counter \in [Topics \X Statuses -> Nat] /\ topicName(b) \in Topics
      /\ m \in Nat /\ n \in Nat
  BY <1>3, RequestFacts DEF Shape, TypeOK
<1> HIDE DEF m, n
<1>6. HasBoth(counter', counter, topicName(b), m, n)
  BY <1>4, <1>5, AddTwo
<1> QED BY <1>4, <1>5, <1>6 DEF m, n

\* What a step adds to the totals.
LEMMA Counting ==
  ASSUME Shape, NEW b \in Batches
  PROVE  /\ GiveUp(b) =>
              /\ Total("dropped")' = Total("dropped") + Len(req[b])
              /\ Total("ok")' = Total("ok") /\ Total("failed")' = Total("failed")
         /\ InvokerFails(b) =>
              /\ Total("failed")' = Total("failed") + Len(req[b])
              /\ Total("ok")' = Total("ok") /\ Total("dropped")' = Total("dropped")
         /\ InvokerReturns(b) =>
              /\ Total("ok")' = Total("ok") + (Len(req[b]) - Len(answer'[b]))
              /\ Total("failed")' = Total("failed") + Len(answer'[b])
              /\ Total("dropped")' = Total("dropped")
<1> USE DEF Shape
<1>1. \A s : Total(s) = TotalOf(counter, s) /\ Total(s)' = TotalOf(counter', s)
  BY DEF Total, TotalOf
<1>2. /\ counter \in [Topics \X Statuses -> Nat]
      /\ topicName(b) \in Topics /\ Len(req[b]) \in Nat
      /\ "ok" \in Statuses /\ "failed" \in Statuses /\ "dropped" \in Statuses
  BY RequestFacts DEF TypeOK, Statuses
<1>3. ASSUME GiveUp(b)
      PROVE  /\ Total("dropped")' = Total("dropped") + Len(req[b])
             /\ Total("ok")' = Total("ok") /\ Total("failed")' = Total("failed")
  <2>1. counter' = [counter EXCEPT ![<<topicName(b), "dropped">>] = @ + Len(req[b])]
    BY <1>3 DEF GiveUp, Add, DropCount
  <2>2. /\ counter' \in [Topics \X Statuses -> Nat]
        /\ counter'[<<topicName(b), "dropped">>]
             = counter[<<topicName(b), "dropped">>] + Len(req[b])
        /\ \A u \in Topics, s \in Statuses :
             u # topicName(b) \/ s # "dropped" =>
               counter'[<<u, s>>] = counter[<<u, s>>]
    BY <1>2, <2>1, AddOne
  <2>3. TotalOf(counter', "dropped") = TotalOf(counter, "dropped") + Len(req[b])
    <3>1. \A u \in Topics \ {topicName(b)} :
            counter'[<<u, "dropped">>] = counter[<<u, "dropped">>]
      BY <1>2, <2>2
    <3> QED BY <1>2, <2>2, <3>1, TotalAdd
  <2>4. \A u \in Topics, s \in {"ok", "failed"} :
          counter'[<<u, s>>] = counter[<<u, s>>]
    BY <2>2 DEF Statuses
  <2>5. /\ TotalOf(counter', "ok") = TotalOf(counter, "ok")
        /\ TotalOf(counter', "failed") = TotalOf(counter, "failed")
    BY <2>4, TotalSame
  <2> QED BY <1>1, <2>3, <2>5
<1>4. ASSUME InvokerFails(b)
      PROVE  /\ Total("failed")' = Total("failed") + Len(req[b])
             /\ Total("ok")' = Total("ok") /\ Total("dropped")' = Total("dropped")
  <2>1. counter' = [counter EXCEPT ![<<topicName(b), "failed">>] = @ + Len(req[b])]
    BY <1>4 DEF InvokerFails, Add
  <2>2. /\ counter' \in [Topics \X Statuses -> Nat]
        /\ counter'[<<topicName(b), "failed">>]
             = counter[<<topicName(b), "failed">>] + Len(req[b])
        /\ \A u \in Topics, s \in Statuses :
             u # topicName(b) \/ s # "failed" =>
               counter'[<<u, s>>] = counter[<<u, s>>]
    BY <1>2, <2>1, AddOne
  <2>3. TotalOf(counter', "failed") = TotalOf(counter, "failed") + Len(req[b])
    <3>1. \A u \in Topics \ {topicName(b)} :
            counter'[<<u, "failed">>] = counter[<<u, "failed">>]
      BY <1>2, <2>2
    <3> QED BY <1>2, <2>2, <3>1, TotalAdd
  <2>4. \A u \in Topics, s \in {"ok", "dropped"} :
          counter'[<<u, s>>] = counter[<<u, s>>]
    BY <2>2 DEF Statuses
  <2>5. /\ TotalOf(counter', "ok") = TotalOf(counter, "ok")
        /\ TotalOf(counter', "dropped") = TotalOf(counter, "dropped")
    BY <2>4, TotalSame
  <2> QED BY <1>1, <2>3, <2>5
<1>5. ASSUME InvokerReturns(b)
      PROVE  /\ Total("ok")' = Total("ok") + (Len(req[b]) - Len(answer'[b]))
             /\ Total("failed")' = Total("failed") + Len(answer'[b])
             /\ Total("dropped")' = Total("dropped")
  <2> DEFINE m == Len(answer'[b])
  <2> DEFINE n == Len(req[b]) - Len(answer'[b])
  <2>1. m \in Nat /\ n \in Nat /\ counter' = AddBoth(counter, topicName(b), m, n)
    BY <1>5, Returned
  <2> HIDE DEF m, n
  <2>2. TotalsHave(counter', counter, m, n)
    BY <1>2, <2>1, TotalAddTwo
  <2> QED BY <1>1, <2>2 DEF m, n, TotalsHave
<1> QED BY <1>3, <1>4, <1>5

-----------------------------------------------------------------------------
(* Answers in hand.                                                         *)

\* What the answer in hand leaves is a number of events, not a negative one.
PartsAreNat == \A b \in Batches : Part(b) \in Nat

LEMMA PartType == Shape => PartsAreNat
BY AnswerFacts DEF Shape, Part, PartsAreNat

LEMMA HeldType ==
  ASSUME Shape, NEW B
  PROVE  Held(B) \in Int
<1> DEFINE f == [d \in Batches |-> IF d \in B THEN Part(d) ELSE 0]
<1>1. f \in [Batches -> Int]
  BY PartType DEF PartsAreNat
<1>2. Held(B) = SumFunction(f) /\ IsFiniteSet(Batches)
  BY MetricsAssumption DEF Held
<1> HIDE DEF f
<1> QED BY <1>1, <1>2, SumType

\* It changes with the task that takes a step.
LEMMA HeldStep ==
  ASSUME Shape, Shape', NEW B, NEW b \in Batches,
         \A d \in Batches \ {b} : Part(d)' = Part(d)
  PROVE  /\ b \in B => Held(B)' = Held(B) + Part(b)' - Part(b)
         /\ b \notin B => Held(B)' = Held(B)
<1> DEFINE f == [d \in Batches |-> IF d \in B THEN Part(d) ELSE 0]
<1> DEFINE g == [d \in Batches |-> IF d \in B THEN Part(d)' ELSE 0]
<1>1. f \in [Batches -> Int]
  BY PartType DEF PartsAreNat
<1>2. g \in [Batches -> Int]
  <2>1. PartsAreNat'
    BY PartType, PTL
  <2> QED BY <2>1 DEF PartsAreNat
<1>3. Held(B) = SumFunction(f) /\ Held(B)' = SumFunction(g)
  BY DEF Held
<1>4. \A d \in Batches \ {b} : g[d] = f[d]
  OBVIOUS
<1>5. /\ b \in B => f[b] = Part(b) /\ g[b] = Part(b)'
      /\ b \notin B => f[b] = 0 /\ g[b] = 0
  OBVIOUS
<1>6. IsFiniteSet(Batches)
  BY MetricsAssumption
<1> HIDE DEF f, g
<1>7. SumFunction(g) = SumFunction(f) + g[b] - f[b]
  BY <1>1, <1>2, <1>4, <1>6, SumUpdate, Zenon
<1>8. SumFunction(f) \in Int
  BY <1>1, <1>6, SumType
<1> QED BY <1>3, <1>5, <1>7, <1>8

LEMMA HeldSame ==
  ASSUME NEW B, \A d \in Batches : Part(d)' = Part(d)
  PROVE  Held(B)' = Held(B)
<1>1. [d \in Batches |-> IF d \in B THEN Part(d)' ELSE 0]
        = [d \in Batches |-> IF d \in B THEN Part(d) ELSE 0]
  OBVIOUS
<1> QED BY <1>1 DEF Held

\* What the steps do to the answer in hand.
LEMMA PartStep ==
  ASSUME Shape, NEW b \in Batches
  PROVE  /\ Call(b) \/ GiveUp(b) \/ InvokerFails(b) \/ RetryAll(b) =>
              \A d \in Batches : Part(d)' = Part(d)
         /\ InvokerReturns(b) =>
              /\ Part(b) = 0 /\ Part(b)' = Len(req[b]) - Len(answer'[b])
              /\ \A d \in Batches \ {b} : Part(d)' = Part(d)
         /\ PutAside(b) \/ UseAnswer(b) =>
              /\ Part(b) = Len(req[b]) - Len(answer[b]) /\ Part(b)' = 0
              /\ \A d \in Batches \ {b} : Part(d)' = Part(d)
<1> USE DEF Shape, TypeOK, Part
<1>1. Call(b) \/ GiveUp(b) \/ InvokerFails(b) \/ RetryAll(b) =>
        \A d \in Batches : Part(d)' = Part(d)
  BY DEF Call, GiveUp, InvokerFails, RetryAll
<1>2. InvokerReturns(b) =>
        /\ Part(b) = 0 /\ Part(b)' = Len(req[b]) - Len(answer'[b])
        /\ \A d \in Batches \ {b} : Part(d)' = Part(d)
  BY DEF InvokerReturns
<1>3. PutAside(b) =>
        /\ Part(b) = Len(req[b]) - Len(answer[b]) /\ Part(b)' = 0
        /\ \A d \in Batches \ {b} : Part(d)' = Part(d)
  BY DEF PutAside
<1>4. UseAnswer(b) =>
        /\ Part(b) = Len(req[b]) - Len(answer[b]) /\ Part(b)' = 0
        /\ \A d \in Batches \ {b} : Part(d)' = Part(d)
  BY DEF UseAnswer
<1> QED BY <1>1, <1>2, <1>3, <1>4

\* The events that an answer in hand acks are new ones.
LEMMA NewAcks ==
  ASSUME Shape, Pending, NEW b \in Batches, UseAnswer(b)
  PROVE  /\ (Range(req[b]) \ Range(answer[b])) \cap (acked \cup dropped) = {}
         /\ acked' = acked \cup (Range(req[b]) \ Range(answer[b]))
         /\ Cardinality(acked')
              = Cardinality(acked) + (Len(req[b]) - Len(answer[b]))
<1>1. /\ Range(req[b]) \cap (acked \cup dropped) = {}
      /\ acked' = acked \cup (Range(req[b]) \ Range(answer[b]))
  BY DEF UseAnswer, Pending
<1>2. (Range(req[b]) \ Range(answer[b])) \cap (acked \cup dropped) = {}
  BY <1>1
<1>3. /\ IsFiniteSet(Range(req[b]) \ Range(answer[b]))
      /\ Cardinality(Range(req[b]) \ Range(answer[b]))
           = Len(req[b]) - Len(answer[b])
  BY AnswerFacts DEF Shape
<1> DEFINE new == Range(req[b]) \ Range(answer[b])
<1>4. IsFiniteSet(acked) /\ acked \cap new = {} /\ acked' = acked \cup new
  BY <1>1, <1>2, HistoryFinite DEF Shape
<1>5. IsFiniteSet(new) /\ Cardinality(new) = Len(req[b]) - Len(answer[b])
  BY <1>3
<1> HIDE DEF new
<1>6. Cardinality(acked') = Cardinality(acked) + Cardinality(new)
  BY <1>4, <1>5, JoinCard
<1> QED BY <1>1, <1>2, <1>5, <1>6

-----------------------------------------------------------------------------
(* The totals in the steps.                                                 *)

LEMMA TotalsType ==
  ASSUME Shape, NEW status \in Statuses
  PROVE  Total(status) \in Int
<1>1. Total(status) = TotalOf(counter, status)
  BY DEF Total, TotalOf
<1> QED BY <1>1, TotalType DEF Shape, TypeOK

LEMMA TotalsSame ==
  ASSUME counter' = counter, NEW status
  PROVE  Total(status)' = Total(status)
BY DEF Total

LEMMA DroppedStep ==
  ASSUME Shape, Pending, DroppedIsExact, [Next]_vars
  PROVE  DroppedIsExact'
<1>1. CASE UNCHANGED vars
  BY <1>1, TotalsSame DEF vars, DroppedIsExact
<1>2. ASSUME NEW b \in Batches, Call(b) \/ RetryAll(b) \/ PutAside(b)
      PROVE  DroppedIsExact'
  BY <1>2, TotalsSame DEF Call, RetryAll, PutAside, DroppedIsExact
<1>3. ASSUME NEW b \in Batches, InvokerFails(b)
      PROVE  DroppedIsExact'
  BY <1>3, Counting DEF InvokerFails, DroppedIsExact
<1>4. ASSUME NEW b \in Batches, InvokerReturns(b)
      PROVE  DroppedIsExact'
  BY <1>4, Counting DEF InvokerReturns, DroppedIsExact
<1>5. ASSUME NEW b \in Batches, UseAnswer(b)
      PROVE  DroppedIsExact'
  <2>1. counter' = counter /\ dropped' = dropped
    BY <1>5 DEF UseAnswer
  <2>2. acked' \cap dropped = {}
    BY <1>5, NewAcks DEF DroppedIsExact
  <2> QED BY <2>1, <2>2, TotalsSame DEF DroppedIsExact
<1>6. ASSUME NEW b \in Batches, GiveUp(b)
      PROVE  DroppedIsExact'
  <2>1. /\ dropped' = dropped \cup Range(req[b]) /\ acked' = acked
        /\ Range(req[b]) \cap (acked \cup dropped) = {}
    BY <1>6 DEF GiveUp, Pending
  <2>2. IsFiniteSet(dropped) /\ IsFiniteSet(Range(req[b]))
        /\ Cardinality(Range(req[b])) = Len(req[b])
    BY RequestFacts, HistoryFinite DEF Shape
  <2>3. Cardinality(dropped') = Cardinality(dropped) + Len(req[b])
    <3>1. dropped \cap Range(req[b]) = {}
      BY <2>1
    <3>2. Cardinality(dropped \cup Range(req[b]))
            = Cardinality(dropped) + Cardinality(Range(req[b]))
      BY <2>2, <3>1, JoinCard
    <3> QED BY <2>1, <2>2, <3>2
  <2>4. Total("dropped")' = Total("dropped") + Len(req[b])
    BY <1>6, Counting
  <2> QED BY <2>1, <2>3, <2>4 DEF DroppedIsExact
<1> QED BY <1>1, <1>2, <1>3, <1>4, <1>5, <1>6 DEF Next

LEMMA TriesStep ==
  ASSUME Shape, EveryTryCounted, [Next]_vars
  PROVE  EveryTryCounted'
<1>1. CASE UNCHANGED vars
  BY <1>1, TotalsSame DEF vars, EveryTryCounted
<1>2. ASSUME NEW b \in Batches,
             Call(b) \/ RetryAll(b) \/ PutAside(b) \/ UseAnswer(b)
      PROVE  EveryTryCounted'
  BY <1>2, TotalsSame DEF Call, RetryAll, PutAside, UseAnswer, EveryTryCounted
<1>3. ASSUME NEW b \in Batches, GiveUp(b)
      PROVE  EveryTryCounted'
  BY <1>3, Counting DEF GiveUp, EveryTryCounted
<1>4. Total("ok") \in Int /\ Total("failed") \in Int
  BY TotalsType DEF Statuses
<1>5. ASSUME NEW b \in Batches, InvokerFails(b)
      PROVE  EveryTryCounted'
  <2>1. /\ Total("failed")' = Total("failed") + Len(req[b])
        /\ Total("ok")' = Total("ok")
    BY <1>5, Counting
  <2>2. tries' = tries + Len(req[b]) /\ Len(req[b]) \in Nat
    BY <1>5, RequestFacts DEF InvokerFails, Shape
  <2> QED BY <1>4, <2>1, <2>2 DEF EveryTryCounted
<1>6. ASSUME NEW b \in Batches, InvokerReturns(b)
      PROVE  EveryTryCounted'
  <2>1. /\ Total("ok")' = Total("ok") + (Len(req[b]) - Len(answer'[b]))
        /\ Total("failed")' = Total("failed") + Len(answer'[b])
    BY <1>6, Counting
  <2>2. tries' = tries + Len(req[b]) /\ Len(req[b]) \in Nat
    BY <1>6, RequestFacts DEF InvokerReturns, Shape
  <2>3. Len(answer'[b]) \in Nat
    <3>1. PICK list \in Answers(b) : answer' = [answer EXCEPT ![b] = list]
      BY <1>6 DEF InvokerReturns
    <3>2. answer'[b] = list
      BY <3>1 DEF Shape, TypeOK
    <3> QED BY <3>2, AnswerShape DEF Shape
  <2> DEFINE m == Len(answer'[b])
  <2> DEFINE n == Len(req[b])
  <2>4. m \in Nat /\ n \in Nat
    BY <2>2, <2>3
  <2>5. /\ Total("ok")' = Total("ok") + (n - m)
        /\ Total("failed")' = Total("failed") + m /\ tries' = tries + n
    BY <2>1, <2>2
  <2>6. Total("ok") + Total("failed") = tries
    BY DEF EveryTryCounted
  <2> HIDE DEF m, n
  <2>7. Total("ok")' + Total("failed")' = tries'
    BY <1>4, <2>4, <2>5, <2>6
  <2> QED BY <2>7 DEF EveryTryCounted
<1> QED BY <1>1, <1>2, <1>3, <1>5, <1>6 DEF Next

LEMMA OkForm ==
  OkExceedsByLate <=> Total("ok") = Cardinality(acked) + late + Held(Batches)
<1>1. [b \in Batches |-> IF task[b] = "answered"
                         THEN Len(req[b]) - Len(answer[b]) ELSE 0]
        = [b \in Batches |-> IF b \in Batches THEN Part(b) ELSE 0]
  BY DEF Part
<1> QED BY <1>1 DEF OkExceedsByLate, Held

LEMMA OkStep ==
  ASSUME Shape, Shape', Pending, OkExceedsByLate, [Next]_vars
  PROVE  OkExceedsByLate'
<1>1. Total("ok") = Cardinality(acked) + late + Held(Batches)
  BY OkForm
<1>2. SUFFICES Total("ok")' = Cardinality(acked') + late' + Held(Batches)'
  <2>1. (OkExceedsByLate
          <=> Total("ok") = Cardinality(acked) + late + Held(Batches))'
    BY OkForm, PTL
  <2> QED BY <2>1
<1>3. /\ Total("ok") \in Int /\ Held(Batches) \in Int
      /\ late \in Nat /\ Cardinality(acked) \in Nat
  BY TotalsType, HeldType, HistoryFinite DEF Shape, TypeOK, Statuses
<1>4. CASE UNCHANGED vars
  <2>1. \A b \in Batches : Part(b)' = Part(b)
    BY <1>4 DEF vars, Part
  <2> QED BY <1>1, <1>4, <2>1, HeldSame, TotalsSame DEF vars
<1>5. ASSUME NEW b \in Batches, Call(b) \/ RetryAll(b)
      PROVE  Total("ok")' = Cardinality(acked') + late' + Held(Batches)'
  <2>1. \A d \in Batches : Part(d)' = Part(d)
    BY <1>5, PartStep
  <2> QED BY <1>1, <1>5, <2>1, HeldSame, TotalsSame DEF Call, RetryAll
<1>6. ASSUME NEW b \in Batches, GiveUp(b) \/ InvokerFails(b)
      PROVE  Total("ok")' = Cardinality(acked') + late' + Held(Batches)'
  <2>1. \A d \in Batches : Part(d)' = Part(d)
    BY <1>6, PartStep
  <2>2. Total("ok")' = Total("ok")
    BY <1>6, Counting
  <2> QED BY <1>1, <1>6, <2>1, <2>2, HeldSame DEF GiveUp, InvokerFails
<1>7. ASSUME NEW b \in Batches, InvokerReturns(b)
      PROVE  Total("ok")' = Cardinality(acked') + late' + Held(Batches)'
  <2>1. /\ Part(b) = 0 /\ Part(b)' = Len(req[b]) - Len(answer'[b])
        /\ \A d \in Batches \ {b} : Part(d)' = Part(d)
    BY <1>7, PartStep
  <2>2. Held(Batches)' = Held(Batches) + Part(b)' - Part(b)
    BY <2>1, HeldStep
  <2>3. (Part(b) \in Nat)'
    <3>1. PartsAreNat'
      BY PartType, PTL
    <3> QED BY <3>1 DEF PartsAreNat
  <2>4. Total("ok")' = Total("ok") + Part(b)'
    BY <1>7, <2>1, Counting
  <2>5. UNCHANGED <<acked, late>>
    BY <1>7 DEF InvokerReturns
  <2>6. Part(b) = 0
    BY <2>1
  <2> QED BY <1>1, <1>3, <2>2, <2>3, <2>4, <2>5, <2>6
<1>8. ASSUME NEW b \in Batches, PutAside(b)
      PROVE  Total("ok")' = Cardinality(acked') + late' + Held(Batches)'
  <2>1. /\ Part(b) = Len(req[b]) - Len(answer[b]) /\ Part(b)' = 0
        /\ \A d \in Batches \ {b} : Part(d)' = Part(d)
    BY <1>8, PartStep
  <2>2. Held(Batches)' = Held(Batches) + Part(b)' - Part(b)
    BY <2>1, HeldStep
  <2>3. Part(b) \in Nat
    BY PartType DEF PartsAreNat
  <2>4. late' = late + Part(b) /\ UNCHANGED <<acked, counter>>
    BY <1>8, <2>1 DEF PutAside, OkCount
  <2>5. Total("ok")' = Total("ok")
    BY <2>4, TotalsSame
  <2>6. Part(b)' = 0
    BY <2>1
  <2> QED BY <1>1, <1>3, <2>2, <2>3, <2>4, <2>5, <2>6
<1>9. ASSUME NEW b \in Batches, UseAnswer(b)
      PROVE  Total("ok")' = Cardinality(acked') + late' + Held(Batches)'
  <2>1. /\ Part(b) = Len(req[b]) - Len(answer[b]) /\ Part(b)' = 0
        /\ \A d \in Batches \ {b} : Part(d)' = Part(d)
    BY <1>9, PartStep
  <2>2. Held(Batches)' = Held(Batches) + Part(b)' - Part(b)
    BY <2>1, HeldStep
  <2>3. Part(b) \in Nat
    BY PartType DEF PartsAreNat
  <2>4. Cardinality(acked') = Cardinality(acked) + Part(b)
    BY <1>9, <2>1, NewAcks
  <2>5. UNCHANGED <<late, counter>>
    BY <1>9 DEF UseAnswer
  <2>6. Total("ok")' = Total("ok")
    BY <2>5, TotalsSame
  <2>7. Part(b)' = 0
    BY <2>1
  <2> QED BY <1>1, <1>3, <2>2, <2>3, <2>4, <2>5, <2>6, <2>7
<1> QED BY <1>4, <1>5, <1>6, <1>7, <1>8, <1>9 DEF Next

-----------------------------------------------------------------------------
(* The counters of a topic whose events share no batch with others.         *)

\* The events of a request are all of that topic, or none of them is.
LEMMA PureRequest ==
  ASSUME Shape, NEW topic \in Topics, Pure(topic), NEW b \in Batches
  PROVE  /\ b \in BatchesOf(topic) =>
              topicName(b) = topic /\ \A e \in Range(req[b]) : TopicOf[e] = topic
         /\ b \notin BatchesOf(topic) =>
              topicName(b) # topic /\ \A e \in Range(req[b]) : TopicOf[e] # topic
<1>1. /\ Range(req[b]) \subseteq Range(b)
      /\ Head(req[b]) \in Range(req[b]) /\ Head(b) \in Range(b)
  BY RequestFacts DEF Shape
<1>2. \A e, f \in Range(b) : TopicOf[e] = topic => TopicOf[f] = topic
  BY DEF Pure
<1> QED BY <1>1, <1>2 DEF BatchesOf, topicName

\* The events of the topic when there are new ones.
LEMMA TopicCard ==
  ASSUME NEW S, NEW X, IsFiniteSet(S), IsFiniteSet(X), S \cap X = {}, NEW topic,
         \A e \in X : TopicOf[e] = topic
  PROVE  Cardinality(OfTopic(S \cup X, topic))
           = Cardinality(OfTopic(S, topic)) + Cardinality(X)
<1> DEFINE T == OfTopic(S, topic)
<1>1. OfTopic(S \cup X, topic) = T \cup X
  BY DEF OfTopic
<1>2. T \subseteq S
  BY DEF OfTopic
<1> HIDE DEF T
<1>3. IsFiniteSet(T) /\ T \cap X = {}
  BY <1>2, FS_Subset
<1>4. Cardinality(T \cup X) = Cardinality(T) + Cardinality(X)
  BY <1>3, JoinCard
<1> QED BY <1>1, <1>4 DEF T

LEMMA PureDroppedStep ==
  ASSUME Shape, Pending, [Next]_vars,
         NEW topic \in Topics, Pure(topic), PureDropped(topic)
  PROVE  PureDropped(topic)'
<1> USE DEF PureDropped
<1>1. CASE UNCHANGED vars
  BY <1>1 DEF vars
<1>2. ASSUME NEW b \in Batches,
             Call(b) \/ RetryAll(b) \/ PutAside(b) \/ UseAnswer(b)
      PROVE  PureDropped(topic)'
  BY <1>2 DEF Call, RetryAll, PutAside, UseAnswer
<1>3. /\ counter \in [Topics \X Statuses -> Nat]
      /\ "ok" \in Statuses /\ "failed" \in Statuses /\ "dropped" \in Statuses
  BY DEF Shape, TypeOK, Statuses
<1>4. ASSUME NEW b \in Batches, GiveUp(b)
      PROVE  PureDropped(topic)'
  <2>1. /\ counter' = [counter EXCEPT ![<<topicName(b), "dropped">>]
                                        = @ + Len(req[b])]
        /\ dropped' = dropped \cup Range(req[b])
        /\ dropped \cap Range(req[b]) = {}
    BY <1>4 DEF GiveUp, Add, DropCount, Pending
  <2>2. /\ topicName(b) \in Topics /\ Len(req[b]) \in Nat
        /\ IsFiniteSet(dropped) /\ IsFiniteSet(Range(req[b]))
        /\ Cardinality(Range(req[b])) = Len(req[b])
    BY RequestFacts, HistoryFinite DEF Shape
  <2>3. CASE b \in BatchesOf(topic)
    <3>1. topicName(b) = topic /\ \A e \in Range(req[b]) : TopicOf[e] = topic
      BY <2>3, PureRequest
    <3>2. Cardinality(OfTopic(dropped', topic))
            = Cardinality(OfTopic(dropped, topic)) + Cardinality(Range(req[b]))
      BY <2>1, <2>2, <3>1, TopicCard
    <3>3. counter'[<<topic, "dropped">>]
            = counter[<<topic, "dropped">>] + Len(req[b])
      BY <1>3, <2>1, <2>2, <3>1, AddOne
    <3> QED BY <2>2, <3>2, <3>3
  <2>4. CASE b \notin BatchesOf(topic)
    <3>1. topicName(b) # topic /\ \A e \in Range(req[b]) : TopicOf[e] # topic
      BY <2>4, PureRequest
    <3>2. OfTopic(dropped', topic) = OfTopic(dropped, topic)
      BY <2>1, <3>1 DEF OfTopic
    <3>3. counter'[<<topic, "dropped">>] = counter[<<topic, "dropped">>]
      BY <1>3, <2>1, <2>2, <3>1, AddOne
    <3> QED BY <3>2, <3>3
  <2> QED BY <2>3, <2>4
<1>5. ASSUME NEW b \in Batches, InvokerFails(b)
      PROVE  PureDropped(topic)'
  <2>1. /\ counter' = [counter EXCEPT ![<<topicName(b), "failed">>]
                                        = @ + Len(req[b])]
        /\ dropped' = dropped
    BY <1>5 DEF InvokerFails, Add
  <2>2. topicName(b) \in Topics /\ Len(req[b]) \in Nat
    BY RequestFacts DEF Shape
  <2>3. counter'[<<topic, "dropped">>] = counter[<<topic, "dropped">>]
    BY <1>3, <2>1, <2>2, AddOne
  <2> QED BY <2>1, <2>3
<1>6. ASSUME NEW b \in Batches, InvokerReturns(b)
      PROVE  PureDropped(topic)'
  <2>1. counter'[<<topic, "dropped">>] = counter[<<topic, "dropped">>]
    BY <1>6, Returned DEF HasBoth
  <2> QED BY <1>6, <2>1 DEF InvokerReturns
<1> QED BY <1>1, <1>2, <1>4, <1>5, <1>6 DEF Next

LEMMA PureOkStep ==
  ASSUME Shape, Shape', Pending, [Next]_vars,
         NEW topic \in Topics, Pure(topic), PureOk(topic)
  PROVE  PureOk(topic)'
<1> DEFINE B == BatchesOf(topic)
<1> DEFINE ok == counter[<<topic, "ok">>]
<1> DEFINE done == Cardinality(OfTopic(acked, topic))
<1>1. late = 0 => ok = done + Held(B)
  BY DEF PureOk
<1>2. SUFFICES ASSUME late' = 0
               PROVE  ok' = done' + Held(B)'
  BY DEF PureOk, BatchesOf
<1>3. /\ counter \in [Topics \X Statuses -> Nat]
      /\ "ok" \in Statuses /\ "failed" \in Statuses /\ "dropped" \in Statuses
  BY DEF Shape, TypeOK, Statuses
<1>4. ok \in Nat /\ done \in Nat /\ Held(B) \in Int
  <2>1. OfTopic(acked, topic) \subseteq acked /\ IsFiniteSet(acked)
    BY HistoryFinite DEF OfTopic, Shape
  <2>2. done \in Nat
    BY <2>1, FS_Subset, FS_CardinalityType
  <2> QED BY <1>3, <2>2, HeldType
<1>5. CASE UNCHANGED vars
  <2>1. \A b \in Batches : Part(b)' = Part(b)
    BY <1>5 DEF vars, Part
  <2>2. Held(B)' = Held(B)
    BY <2>1, HeldSame
  <2> QED BY <1>1, <1>2, <1>5, <2>2 DEF vars
<1>6. ASSUME NEW b \in Batches,
             Call(b) \/ RetryAll(b) \/ GiveUp(b) \/ InvokerFails(b)
      PROVE  ok' = done' + Held(B)'
  <2>1. \A d \in Batches : Part(d)' = Part(d)
    BY <1>6, PartStep
  <2>2. Held(B)' = Held(B)
    BY <2>1, HeldSame
  <2>3. topicName(b) \in Topics /\ Len(req[b]) \in Nat
    BY RequestFacts DEF Shape
  <2>4. /\ UNCHANGED <<acked, late>>
        /\ \/ counter' = counter
           \/ counter' = [counter EXCEPT ![<<topicName(b), "dropped">>]
                                           = @ + Len(req[b])]
           \/ counter' = [counter EXCEPT ![<<topicName(b), "failed">>]
                                           = @ + Len(req[b])]
    BY <1>6 DEF Call, RetryAll, GiveUp, InvokerFails, Add, DropCount
  <2>5. ok' = ok
    BY <1>3, <2>3, <2>4, AddOne
  <2> QED BY <1>1, <1>2, <2>2, <2>4, <2>5
<1>7. ASSUME NEW b \in Batches, InvokerReturns(b)
      PROVE  ok' = done' + Held(B)'
  <2>1. /\ Part(b) = 0 /\ Part(b)' = Len(req[b]) - Len(answer'[b])
        /\ \A d \in Batches \ {b} : Part(d)' = Part(d)
    BY <1>7, PartStep
  <2>2. /\ b \in B => Held(B)' = Held(B) + Part(b)' - Part(b)
        /\ b \notin B => Held(B)' = Held(B)
    BY <2>1, HeldStep
  <2>3. PartsAreNat'
    BY PartType, PTL
  <2>4. Part(b)' \in Nat /\ Part(b) = 0
    BY <2>1, <2>3 DEF PartsAreNat
  <2>5. UNCHANGED <<acked, late>>
    BY <1>7 DEF InvokerReturns
  <2>6. HasBoth(counter', counter, topicName(b), Len(answer'[b]), Part(b)')
    BY <1>7, <2>1, Returned
  <2>7. late = 0 /\ done' = done
    BY <1>2, <2>5
  <2> HIDE DEF B, ok, done
  <2>8. CASE b \in B
    <3>1. topicName(b) = topic
      BY <2>8, PureRequest DEF B
    <3>2. ok' = ok + Part(b)'
      BY <2>6, <3>1 DEF HasBoth, ok
    <3> QED BY <1>1, <1>4, <2>2, <2>4, <2>7, <2>8, <3>2
  <2>9. CASE b \notin B
    <3>1. topicName(b) # topic
      BY <2>9, PureRequest DEF B
    <3>2. ok' = ok
      BY <1>3, <2>6, <3>1 DEF HasBoth, ok
    <3> QED BY <1>1, <2>2, <2>7, <2>9, <3>2
  <2> QED BY <2>8, <2>9
<1>8. ASSUME NEW b \in Batches, PutAside(b)
      PROVE  ok' = done' + Held(B)'
  <2>1. /\ Part(b) = Len(req[b]) - Len(answer[b]) /\ Part(b)' = 0
        /\ \A d \in Batches \ {b} : Part(d)' = Part(d)
    BY <1>8, PartStep
  <2>2. /\ b \in B => Held(B)' = Held(B) + Part(b)' - Part(b)
        /\ b \notin B => Held(B)' = Held(B)
    BY <2>1, HeldStep
  <2>3. /\ late' = late + Part(b) /\ UNCHANGED <<acked, counter>>
        /\ Part(b)' = 0
    BY <1>8, <2>1 DEF PutAside, OkCount
  <2>4. Part(b) \in Nat /\ late \in Nat
    BY PartType DEF PartsAreNat, Shape, TypeOK
  <2>5. late = 0 /\ Part(b) = 0
    BY <1>2, <2>3, <2>4
  <2>6. ok' = ok /\ done' = done
    BY <2>3
  <2> HIDE DEF B, ok, done
  <2>7. Held(B)' = Held(B)
    BY <1>4, <2>2, <2>3, <2>5
  <2> QED BY <1>1, <2>5, <2>6, <2>7
<1>9. ASSUME NEW b \in Batches, UseAnswer(b)
      PROVE  ok' = done' + Held(B)'
  <2> DEFINE new == Range(req[b]) \ Range(answer[b])
  <2>1. /\ Part(b) = Len(req[b]) - Len(answer[b]) /\ Part(b)' = 0
        /\ \A d \in Batches \ {b} : Part(d)' = Part(d)
    BY <1>9, PartStep
  <2>2. /\ b \in B => Held(B)' = Held(B) + Part(b)' - Part(b)
        /\ b \notin B => Held(B)' = Held(B)
    BY <2>1, HeldStep
  <2>3. UNCHANGED <<late, counter>>
    BY <1>9 DEF UseAnswer
  <2>4. late = 0 /\ ok' = ok
    BY <1>2, <2>3
  <2>5. Part(b) \in Nat /\ Part(b)' = 0
    BY <2>1, PartType DEF PartsAreNat
  <2>6. new \cap acked = {} /\ acked' = acked \cup new /\ IsFiniteSet(acked)
    BY <1>9, NewAcks, HistoryFinite DEF Shape
  <2>7. IsFiniteSet(new) /\ Cardinality(new) = Part(b)
    BY <2>1, AnswerFacts DEF Shape
  <2>8. new \subseteq Range(req[b])
    OBVIOUS
  <2> HIDE DEF B, ok, new
  <2>9. CASE b \in B
    <3>1. \A e \in new : TopicOf[e] = topic
      BY <2>8, <2>9, PureRequest DEF B
    <3>2. Cardinality(OfTopic(acked', topic))
            = Cardinality(OfTopic(acked, topic)) + Cardinality(new)
      BY <2>6, <2>7, <3>1, TopicCard
    <3>3. done' = done + Part(b)
      BY <2>7, <3>2
    <3> HIDE DEF done
    <3> QED BY <1>1, <1>4, <2>2, <2>4, <2>5, <2>9, <3>3
  <2>10. CASE b \notin B
    <3>1. \A e \in new : TopicOf[e] # topic
      BY <2>8, <2>10, PureRequest DEF B
    <3>2. OfTopic(acked', topic) = OfTopic(acked, topic)
      BY <2>6, <3>1 DEF OfTopic
    <3>3. done' = done
      BY <3>2
    <3> HIDE DEF done
    <3> QED BY <1>1, <2>2, <2>4, <2>10, <3>3
  <2> QED BY <2>9, <2>10
<1> QED BY <1>5, <1>6, <1>7, <1>8, <1>9 DEF Next

-----------------------------------------------------------------------------
(* Results.                                                                 *)

LEMMA InitIInv == Init => IInv
<1> SUFFICES ASSUME Init PROVE IInv
  OBVIOUS
<1>1. Shape
  BY ShapeInit
<1>2. Pending
  BY DEF Init, Pending
<1>3. /\ acked = {} /\ dropped = {} /\ late = 0 /\ tries = 0
      /\ counter = [l \in Topics \X Statuses |-> 0]
      /\ \A b \in Batches : task[b] = "ready"
  BY DEF Init
<1>4. Cardinality({}) = 0 /\ IsFiniteSet(Topics) /\ IsFiniteSet(Batches)
  BY FS_EmptySet, MetricsAssumption
<1>5. \A status \in Statuses : Total(status) = 0
  <2> SUFFICES ASSUME NEW status \in Statuses PROVE Total(status) = 0
    OBVIOUS
  <2> DEFINE f == [topic \in Topics |-> counter[<<topic, status>>]]
  <2>1. \A topic \in Topics : f[topic] = 0
    BY <1>3
  <2>2. DOMAIN f = Topics /\ Total(status) = SumFunction(f)
    BY DEF Total
  <2> HIDE DEF f
  <2> QED BY <1>4, <2>1, <2>2, SumZero
<1>6. \A B : Held(B) = 0
  <2> SUFFICES ASSUME NEW B PROVE Held(B) = 0
    OBVIOUS
  <2> DEFINE f == [b \in Batches |-> IF b \in B THEN Part(b) ELSE 0]
  <2>1. \A b \in Batches : f[b] = 0
    BY <1>3 DEF Part
  <2>2. DOMAIN f = Batches /\ Held(B) = SumFunction(f)
    BY DEF Held
  <2> HIDE DEF f
  <2> QED BY <1>4, <2>1, <2>2, SumZero
<1>7. /\ Total("ok") = 0 /\ Total("failed") = 0 /\ Total("dropped") = 0
  BY <1>5 DEF Statuses
<1>8. DroppedIsExact /\ EveryTryCounted
  BY <1>3, <1>4, <1>7 DEF DroppedIsExact, EveryTryCounted
<1>9. OkExceedsByLate
  BY <1>3, <1>4, <1>6, <1>7, OkForm
<1>10. PureCounts
  <2> SUFFICES ASSUME NEW topic \in Topics
               PROVE  PureDropped(topic) /\ PureOk(topic)
    BY DEF PureCounts
  <2>1. OfTopic(acked, topic) = {} /\ OfTopic(dropped, topic) = {}
    BY <1>3 DEF OfTopic
  <2>2. counter[<<topic, "ok">>] = 0 /\ counter[<<topic, "dropped">>] = 0
    BY <1>3 DEF Statuses
  <2>3. Held(BatchesOf(topic)) = 0
    BY <1>6
  <2> QED BY <1>4, <2>1, <2>2, <2>3 DEF PureDropped, PureOk
<1> QED BY <1>1, <1>2, <1>8, <1>9, <1>10 DEF IInv

LEMMA NextIInv == IInv /\ [Next]_vars => IInv'
<1> SUFFICES ASSUME IInv, [Next]_vars PROVE IInv'
  OBVIOUS
<1> USE DEF IInv
<1>1. Shape'
  BY ShapeStep
<1>2. Pending' /\ DroppedIsExact' /\ EveryTryCounted'
  BY PendingStep, DroppedStep, TriesStep
<1>3. OkExceedsByLate'
  BY <1>1, OkStep
<1>4. PureCounts'
  <2> SUFFICES ASSUME NEW topic \in Topics, Pure(topic)
               PROVE  PureDropped(topic)' /\ PureOk(topic)'
    BY DEF PureCounts, Pure
  <2>1. PureDropped(topic) /\ PureOk(topic)
    BY DEF PureCounts
  <2> QED BY <1>1, <2>1, PureDroppedStep, PureOkStep
<1> QED BY <1>1, <1>2, <1>3, <1>4

\* The inductive invariant holds.
THEOREM Invariance == Spec => []IInv
BY InitIInv, NextIInv, PTL DEF Spec

\* The variables keep their types: a request never becomes empty, an answer
\* lists events of its request, no task retries too often.
THEOREM TypeCorrect == Spec => []TypeOK
<1>1. IInv => TypeOK
  BY DEF IInv, Shape
<1> QED BY <1>1, Invariance, PTL

\* The dropped counter is the number of events that sendEvents gave up.
THEOREM DropsAreCounted == Spec => []DroppedIsExact
<1>1. IInv => DroppedIsExact
  BY DEF IInv
<1> QED BY <1>1, Invariance, PTL

\* The ok counter is ahead of the events delivered by those of answers that
\* came too late, and no others.
THEOREM OkIsAheadByLate == Spec => []OkExceedsByLate
<1>1. IInv => OkExceedsByLate
  BY DEF IInv
<1> QED BY <1>1, Invariance, PTL

\* The interceptor counts each event of each call once, as ok or as failed.
THEOREM TriesAreCounted == Spec => []EveryTryCounted
<1>1. IInv => EveryTryCounted
  BY DEF IInv
<1> QED BY <1>1, Invariance, PTL

\* Counters are by topic for topics that share no batch.
THEOREM PureTopicsAreCounted == Spec => []CountsPureTopics
<1>1. IInv => CountsPureTopics
  <2> SUFFICES ASSUME IInv, NEW topic \in Topics, Pure(topic)
               PROVE  CountsTopic(topic)
    BY DEF CountsPureTopics
  <2>1. PureDropped(topic) /\ PureOk(topic)
    BY DEF IInv, PureCounts
  <2>2. ASSUME \A b \in Batches : task[b] # "answered"
        PROVE  Held(BatchesOf(topic)) = 0
    <3> DEFINE f == [b \in Batches |->
                      IF b \in BatchesOf(topic) THEN Part(b) ELSE 0]
    <3>1. \A b \in Batches : f[b] = 0
      BY <2>2 DEF Part
    <3>2. DOMAIN f = Batches /\ Held(BatchesOf(topic)) = SumFunction(f)
          /\ IsFiniteSet(Batches)
      BY MetricsAssumption DEF Held
    <3> HIDE DEF f
    <3> QED BY <3>1, <3>2, SumZero
  <2>3. Cardinality(OfTopic(acked, topic)) \in Nat
    <3>1. OfTopic(acked, topic) \subseteq acked /\ IsFiniteSet(acked)
      BY HistoryFinite DEF OfTopic, IInv, Shape
    <3> QED BY <3>1, FS_Subset, FS_CardinalityType
  <2> QED BY <2>1, <2>2, <2>3 DEF CountsTopic, PureDropped, PureOk, OfTopic
<1> QED BY <1>1, Invariance, PTL

\* So the comment, "broken by topic and status", is true if no batch has events
\* of two topics, as when each application sends to one topic.
THEOREM CountsByTopicUnmixed ==
  ASSUME \A topic \in Topics : Pure(topic)
  PROVE  Spec => []CountsByTopic
<1>1. CountsPureTopics => CountsByTopic
  BY DEF CountsPureTopics, CountsByTopic
<1> QED BY <1>1, PureTopicsAreCounted, PTL
=============================================================================
