\* A batch of two, the smallest that can lose a failure index.
CONSTANTS
  e1 = e1
  e2 = e2
  e3 = e3
  Batches <- OneBatchOfTwo
  Singles <- NoSingle
  MaxRetries = 1
SPECIFICATION Spec
INVARIANT AtLeastOnce
\* Every request is done and every call answered or lost.
CHECK_DEADLOCK FALSE
