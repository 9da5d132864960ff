------------------------------ MODULE MCKafkaPop ------------------------------
(* KafkaPop for TLC: threads, topics and lists of brokers are model values.  *)
EXTENDS KafkaPop, TLC
=============================================================================
