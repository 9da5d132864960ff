------------------------------ MODULE MCRemain ------------------------------
(* RemainFile for TLC: gateways, threads and records are model values.      *)
EXTENDS RemainFile, TLC

\* Records, and gateways, are interchangeable. (Safety only.)
Interchangeable == Permutations(Recs) \cup Permutations(Gates)
=============================================================================
