---------------------------- MODULE MCBufferGauge ----------------------------
(* An instance of BufferGauge for TLC: the constants are in the .cfg.       *)
EXTENDS BufferGauge
=============================================================================
