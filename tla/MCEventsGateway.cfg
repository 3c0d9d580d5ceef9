\* A batch of two, retried once, next to a synchronous Send on the same server.
CONSTANTS
  e1 = e1
  e2 = e2
  e3 = e3
  Batches <- OneBatchOfTwo
  Singles <- OneSingle
  MaxRetries = 1
SPECIFICATION Spec
INVARIANT TypeOK
INVARIANT LossOnlyByRace
INVARIANT NoNeedlessCopy
INVARIANT DroppedForCause
INVARIANT SyncOnce
\* Every request is done and every call answered or lost.
CHECK_DEADLOCK FALSE
