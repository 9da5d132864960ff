----------------------------- MODULE MCKafkaPush -----------------------------
(* KafkaPush for TLC: threads and topics are model values.                   *)
EXTENDS KafkaPush, TLC
=============================================================================
