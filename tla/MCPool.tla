-------------------------------- MODULE MCPool --------------------------------
(* ThreadPool for TLC: threads and tasks are model values.                   *)
EXTENDS ThreadPool, TLC

\* Tasks, workers and producers are interchangeable. (Safety run only.)
Interchangeable == Permutations(Tasks) \cup Permutations(Workers) \cup Permutations(Producers)
=============================================================================
