\* A load test with two runners, each with a synchronous client.
CONSTANTS
  Clients = {c1, c2}
  Files <- MCSync
  Topics = {"t1", "t2"}
  AppSets <- MCAppSets
  MaxSends = 1
SPECIFICATION FairSpec
PROPERTY SummaryIsPrinted
\* A program ends, or waits for a signal that nobody sends.
CHECK_DEADLOCK FALSE
