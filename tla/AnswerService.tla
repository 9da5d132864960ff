---------------------------- MODULE AnswerService ----------------------------
(***************************************************************************)
(* What the asynchronous clients promise those who use them, without their *)
(* threads, queues and counters: a request that was taken is answered by    *)
(* one callback, and the close, when it returns, leaves none unanswered     *)
(* and lets none in.                                                        *)
(***************************************************************************)
CONSTANT Requests

VARIABLES
  asked,          \* the requests taken so far
  inCallback,     \* those whose callback runs
  told,           \* those whose callback has returned
  closed          \* has the exit of the client returned?

vars == <<asked, inCallback, told, closed>>

Init == asked = {} /\ inCallback = {} /\ told = {} /\ closed = FALSE

Ask(r) ==
  /\ ~closed /\ r \notin asked
  /\ asked' = asked \cup {r}
  /\ UNCHANGED <<inCallback, told, closed>>

\* A callback begins, the only one of its request,
Begin(r) ==
  /\ ~closed /\ r \in asked \ (inCallback \cup told)
  /\ inCallback' = inCallback \cup {r}
  /\ UNCHANGED <<asked, told, closed>>

\* and returns.
End(r) ==
  /\ r \in inCallback
  /\ inCallback' = inCallback \ {r}
  /\ told' = told \cup {r}
  /\ UNCHANGED <<asked, closed>>

Close ==
  /\ ~closed /\ asked = told
  /\ closed' = TRUE
  /\ UNCHANGED <<asked, inCallback, told>>

Next == Close \/ \E r \in Requests : Ask(r) \/ Begin(r) \/ End(r)

Spec == Init /\ [][Next]_vars
=============================================================================
