\* A batch of events of two topics next to a batch of one event, retried twice.
CONSTANTS
  e1 = e1
  e2 = e2
  e3 = e3
  t1 = t1
  t2 = t2
  t3 = t3
  Topics = {t1, t2, t3}
  Batches <- TwoBatches
  TopicOf <- Mixed
  MaxRetries = 2
SPECIFICATION Spec
INVARIANT TypeOK
INVARIANT DroppedIsExact
INVARIANT OkExceedsByLate
INVARIANT EveryTryCounted
INVARIANT CountsPureTopics
\* Every batch is done.
CHECK_DEADLOCK FALSE
