\* A batch that holds events of two topics.
CONSTANTS
  e1 = e1
  e2 = e2
  e3 = e3
  t1 = t1
  t2 = t2
  t3 = t3
  Topics = {t1, t2, t3}
  Batches <- TwoBatches
  TopicOf <- Mixed
  MaxRetries = 1
SPECIFICATION Spec
INVARIANT CountsByTopic
\* Every batch is done.
CHECK_DEADLOCK FALSE
