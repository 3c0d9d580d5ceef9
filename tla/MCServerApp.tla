----------------------------- MODULE MCServerApp -----------------------------
(* Instance of ServerApp for TLC: two calls share a connection, and a second *)
(* connection carries none.  The other constants are in the .cfg.           *)
EXTENDS ServerApp

CONSTANTS c1, c2, k1, k2

MCCalls == {c1, c2}
MCConns == {k1, k2}
MCConnOf == [c \in MCCalls |-> k1]
=============================================================================
