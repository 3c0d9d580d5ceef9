--------------------------- MODULE MCEventsGateway ---------------------------
(* Instances of EventsGateway for TLC: model values are the events.         *)
EXTENDS EventsGateway, TLC

CONSTANTS e1, e2, e3

OneBatchOfTwo == {{e1, e2}}
OneSingle == {{e3}}
NoSingle == {}
=============================================================================
