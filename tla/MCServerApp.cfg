\* Two connections, one of them with both calls; three signals, one more than
\* stopChan holds.
CONSTANTS
  c1 = c1
  c2 = c2
  k1 = k1
  k2 = k2
  Calls <- MCCalls
  Conns <- MCConns
  ConnOf <- MCConnOf
  MaxSignals = 3
SPECIFICATION FairSpec
INVARIANT TypeOK
INVARIANT NoCallCut
INVARIANT ReadyToServe
PROPERTY NoWriteWhileRead
PROPERTY StopLeadsToExit
\* The process has ended.
CHECK_DEADLOCK FALSE
