------------------------------- MODULE MCCurl -------------------------------
(* CurlHttpCli for TLC: the threads, requests and URLs are model values.    *)
EXTENDS CurlHttpCli, TLC

\* Requests, and callers, are interchangeable: no action orders them. (Safety
\* runs only: symmetry is not sound for temporal properties.)
Interchangeable == Permutations(Reqs) \cup Permutations(Users)
=============================================================================
