------------------------------- MODULE MCTools -------------------------------
(* An instance of Tools for TLC.                                            *)
EXTENDS Tools

Sync == [topic |-> "t1", serverAddress |-> "gateway"]
Async == [async |-> TRUE, channelBuffer |-> 1, numRoutines |-> 1] ++ Sync

\* Complete configurations of both kinds, incomplete ones, and one for each
\* setting that has a value on the edge of what the code can do with it.
MCFiles ==
  {Sync, [metrics |-> "true", tracing |-> "jaeger"] ++ Sync,
   [topic |-> "t1"], [serverAddress |-> "gateway"],
   Async, [numRoutines |-> 0] ++ Async,
   [channelBuffer |-> -1] ++ Async, [lingerInterval |-> 0] ++ Async,
   [batchSize |-> -1] ++ Async,
   [threads |-> 0] ++ Sync, [threads |-> -1] ++ Sync,
   [randSleepCeilingMs |-> 0] ++ Sync, [randPropsSize |-> "huge"] ++ Sync}

\* A complete configuration, for a load test that ends.
MCSync == {Sync}

MCAppSets == {<<"async", TRUE>>, <<"async", FALSE>>, <<"timeout", 100>>,
              <<"retryInterval", 100>>}
=============================================================================
