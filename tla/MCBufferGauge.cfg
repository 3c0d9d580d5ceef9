\* One topic and two routines, the least that share a gauge.
CONSTANTS
  Topics = {t1}
  Routines = {r1, r2}
  ChannelBuffer = 2
  MaxSends = 3
  NoTopic = NoTopic
SPECIFICATION Spec
INVARIANT ZeroWhenEmpty
\* The application stops sending and the channel is empty.
CHECK_DEADLOCK FALSE
