\* Two routines that fill a batch of two from a channel with room for one: a
\* sender blocks, one batch fills up and another waits for the ticker; events are
\* sent before GracefulStop, while it waits and after it.
CONSTANTS
  Events = {e1, e2, e3}
  Routines = {r1, r2}
  ChannelBuffer = 1
  BatchSize = 2
  MaxRetries = 1
  NoEvent = NoEvent
SPECIFICATION FairSpec
INVARIANT TypeOK
INVARIANT WgAccounts
INVARIANT ExactlyOnePlace
INVARIANT RequestFits
INVARIANT StopWaits
INVARIANT PanicBySendOnly
PROPERTY KeepsPromise
PROPERTY SendReturns
PROPERTY EventsEnd
PROPERTY StopEnds
\* Every event has ended, or GracefulStop has panicked.
CHECK_DEADLOCK FALSE
