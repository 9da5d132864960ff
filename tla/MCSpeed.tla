------------------------------- MODULE MCSpeed -------------------------------
(* SpeedControl for TLC: an index with a limit, one without and one whose   *)
(* limit is negative.                                                       *)
EXTENDS SpeedControl, TLC

Limits == (0 :> 1) @@ (1 :> 0) @@ (2 :> -1)
=============================================================================
