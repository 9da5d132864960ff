------------------------------- MODULE MCRedis -------------------------------
(* RedisAsync for TLC: threads and commands are model values.                *)
EXTENDS RedisAsync, TLC

\* Callers and commands are interchangeable. (Safety runs only.)
Interchangeable == Permutations(Users) \cup Permutations(Cmds)
=============================================================================
