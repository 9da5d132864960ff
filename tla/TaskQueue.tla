------------------------------ MODULE TaskQueue ------------------------------
(***************************************************************************)
(* What common::ThreadPool promises, without its mutex, its condition       *)
(* variables and its threads' control: a first-in first-out queue of tasks  *)
(* with a limit, workers that each do one task at a time, and a close that  *)
(* finds no task half done and after which none begins.                     *)
(***************************************************************************)
EXTENDS Naturals, Sequences

CONSTANTS Workers, Tasks, NoTask, MaxQueue

VARIABLES
  phase,          \* "new", "open" or "closed"
  waiting,        \* the tasks accepted and not begun
  doing,          \* per worker: the task it does, or NoTask
  ran             \* the tasks that have been done

vars == <<phase, waiting, doing, ran>>

Init ==
  /\ phase = "new" /\ waiting = <<>>
  /\ doing = [w \in Workers |-> NoTask]
  /\ ran = {}

Open ==
  /\ phase = "new" /\ phase' = "open"
  /\ UNCHANGED <<waiting, doing, ran>>

\* A task is accepted when there is room, also after the close: it stays there.
Accept(x) ==
  /\ phase # "new"
  /\ MaxQueue = 0 \/ Len(waiting) < MaxQueue
  /\ waiting' = Append(waiting, x)
  /\ UNCHANGED <<phase, doing, ran>>

\* A free worker begins the task that has waited longest,
Begin(w) ==
  /\ phase = "open" /\ doing[w] = NoTask /\ waiting # <<>>
  /\ doing' = [doing EXCEPT ![w] = Head(waiting)]
  /\ waiting' = Tail(waiting)
  /\ UNCHANGED <<phase, ran>>

\* and ends it.
End(w) ==
  /\ doing[w] # NoTask
  /\ ran' = ran \cup {doing[w]}
  /\ doing' = [doing EXCEPT ![w] = NoTask]
  /\ UNCHANGED <<phase, waiting>>

Close ==
  /\ phase = "open" /\ \A w \in Workers : doing[w] = NoTask
  /\ phase' = "closed"
  /\ UNCHANGED <<waiting, doing, ran>>

Next ==
  \/ Open \/ Close
  \/ \E x \in Tasks : Accept(x)
  \/ \E w \in Workers : Begin(w) \/ End(w)

Spec == Init /\ [][Next]_vars
=============================================================================
