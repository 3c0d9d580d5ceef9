---------------------------- MODULE MCKafkaSender ----------------------------
(* Instance of KafkaSender for TLC: the size of the batch is in the .cfg.   *)
EXTENDS KafkaSender
=============================================================================
