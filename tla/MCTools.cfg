\* Two clients: two runners with a topic each, or two calls of New with Sets in
\* between; the second event of a runner finds the channel full.
CONSTANTS
  Clients = {c1, c2}
  Files <- MCFiles
  Topics = {"t1", "t2"}
  AppSets <- MCAppSets
  MaxSends = 2
SPECIFICATION FairSpec
INVARIANT TypeOK
INVARIANT SettingsOfFirst
INVARIANT AllOrNothing
INVARIANT PanicHasCause
INVARIANT OwnTopic
PROPERTY RunnersEnd
\* A program ends, or waits for a signal that nobody sends.
CHECK_DEADLOCK FALSE
