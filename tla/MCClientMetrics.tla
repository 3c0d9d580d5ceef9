--------------------------- MODULE MCClientMetrics ---------------------------
(* Instances of ClientMetrics for TLC: model values are events and topics.  *)
EXTENDS ClientMetrics, TLC

CONSTANTS e1, e2, e3, t1, t2, t3

TwoBatches == {<<e1, e2>>, <<e3>>}

\* The first batch holds events of two topics, the second of a third one.
Mixed == e1 :> t1 @@ e2 :> t2 @@ e3 :> t3
=============================================================================
