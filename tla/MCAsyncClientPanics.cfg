\* The smallest case: a second Send while GracefulStop waits for the first.
CONSTANTS
  Events = {e1, e2}
  Routines = {r1}
  ChannelBuffer = 1
  BatchSize = 1
  MaxRetries = 0
  NoEvent = NoEvent
SPECIFICATION Spec
INVARIANT NoPanic
\* Every event has ended, or GracefulStop has panicked.
CHECK_DEADLOCK FALSE
