--------------------------- MODULE ThreadPoolProofs ---------------------------
(***************************************************************************)
(* Proofs about ThreadPool: its type invariant, that it is a queue, that   *)
(* stop() leaves no task half done, that neither condition variable loses  *)
(* a notify, and that it implements TaskQueue. All hold for any finite     *)
(* number of workers and callers, any tasks and any limit of the queue.    *)
(***************************************************************************)
EXTENDS ThreadPool, FiniteSetTheorems, TLAPS

\* What a step does to pc when GoAndNotify moves t to p and perhaps one of W
\* to w: the thread t and at most one of W move, the rest stay.
LEMMA NotifyType ==
  ASSUME TypeOK, NEW t \in Threads, NEW p, NEW W \in SUBSET Threads, NEW w,
         {p, w} \subseteq {"off", "idle", "started", "join", "stopped", "fullWait", "again",
                           "check", "take", "emptyWait", "exec", "done"},
         GoAndNotify(t, p, W, w)
  PROVE  pc' \in [Threads -> {"off", "idle", "started", "join", "stopped", "fullWait", "again",
                              "check", "take", "emptyWait", "exec", "done"}]
  BY DEF GoAndNotify, TypeOK

\* Pushing a task keeps the types of the queue, the record of tasks and pc.
LEMMA PushType ==
  ASSUME TypeOK, NEW p \in Producers, NEW x \in Tasks, Push(p, x)
  PROVE  /\ queue' \in Seq(Tasks) /\ accepted' \in Seq(Tasks)
         /\ pc' \in [Threads -> {"off", "idle", "started", "join", "stopped", "fullWait", "again",
                                 "check", "take", "emptyWait", "exec", "done"}]
<1>1. At(Workers, "emptyWait") \in SUBSET Threads /\ p \in Threads
  BY DEF At, Threads
<1>2. GoAndNotify(p, "idle", At(Workers, "emptyWait"), "take")
  BY DEF Push
<1>3. pc' \in [Threads -> {"off", "idle", "started", "join", "stopped", "fullWait", "again",
                           "check", "take", "emptyWait", "exec", "done"}]
  BY <1>1, <1>2, NotifyType
<1> QED  BY <1>3 DEF Push, TypeOK

\* A caller that waits for room holds a task.
HoldsTask == \A p \in Producers : pc[p] \in {"fullWait", "again"} => cur[p] \in Tasks

\* So does a worker that runs one.
Holding == HoldsTask /\ \A w \in Workers : pc[w] = "exec" => cur[w] \in Tasks

\* Every step keeps the types, given that waiting callers hold tasks.
LEMMA TypeStep ==
  ASSUME TypeOK, Holding, [Next]_vars
  PROVE  TypeOK'
<1>1. CASE Start
  BY <1>1 DEF Start, TypeOK
<1>2. CASE Stop
  BY <1>2 DEF Stop, TypeOK
<1>3. CASE Join
  BY <1>3 DEF Join, TypeOK
<1>4. ASSUME NEW p \in Producers, RunAgain(p)
      PROVE  TypeOK'
  <2>1. CASE IsFull
    BY <1>4, <2>1 DEF RunAgain, TypeOK, Threads
  <2>2. CASE ~IsFull
    <3>1. cur[p] \in Tasks
      BY <1>4 DEF RunAgain, Holding, HoldsTask
    <3>2. Push(p, cur[p]) /\ cur' = [cur EXCEPT ![p] = NoTask] /\ UNCHANGED <<running, taken, ran>>
      BY <1>4, <2>2 DEF RunAgain
    <3> QED  BY <3>1, <3>2, PushType DEF TypeOK
  <2> QED  BY <2>1, <2>2
<1>5. ASSUME NEW p \in Producers, NEW x \in Tasks, Run(p, x)
      PROVE  TypeOK'
  <2>1. CASE IsFull
    BY <1>5, <2>1 DEF Run, TypeOK, Threads
  <2>2. CASE ~IsFull
    <3>1. Push(p, x) /\ UNCHANGED <<running, cur, taken, ran>>
      BY <1>5, <2>2 DEF Run
    <3> QED  BY <3>1, PushType DEF TypeOK
  <2> QED  BY <2>1, <2>2
<1>6. ASSUME NEW p \in Producers, NEW x \in Tasks, TryRun(p, x)
      PROVE  TypeOK'
  BY <1>6, PushType DEF TryRun, TypeOK
<1>7. ASSUME NEW w \in Workers, Check(w)
      PROVE  TypeOK'
  BY <1>7 DEF Check, TypeOK, Threads
<1>8. ASSUME NEW w \in Workers, Take(w)
      PROVE  TypeOK'
  <2> DEFINE W == IF MaxQueue > 0 THEN At(Producers, "fullWait") ELSE {}
  <2>1. W \in SUBSET Threads /\ w \in Threads
    BY DEF At, Threads
  <2>2. GoAndNotify(w, "exec", W, "again")
    BY <1>8 DEF Take
  <2> HIDE DEF W
  <2>3. pc' \in [Threads -> {"off", "idle", "started", "join", "stopped", "fullWait", "again",
                             "check", "take", "emptyWait", "exec", "done"}]
    BY <2>1, <2>2, NotifyType
  <2>4. Head(queue) \in Tasks /\ Tail(queue) \in Seq(Tasks)
    BY <1>8 DEF Take, TypeOK
  <2>5. /\ queue' = Tail(queue) /\ taken' = Append(taken, Head(queue))
        /\ cur' = [cur EXCEPT ![w] = Head(queue)]
        /\ UNCHANGED <<running, accepted, ran>>
    BY <1>8 DEF Take
  <2>6. taken' \in Seq(Tasks)
    BY <2>4, <2>5 DEF TypeOK
  <2>7. cur' \in [Threads -> Tasks \cup {NoTask}]
    BY <2>4, <2>5 DEF TypeOK
  <2> QED  BY <2>3, <2>4, <2>5, <2>6, <2>7 DEF TypeOK
<1>9. ASSUME NEW w \in Workers, TakeNothing(w)
      PROVE  TypeOK'
  BY <1>9 DEF TakeNothing, TypeOK, Threads
<1>10. ASSUME NEW w \in Workers, Exec(w)
       PROVE  TypeOK'
  BY <1>10 DEF Exec, TypeOK, Threads, Holding
<1>11. CASE UNCHANGED vars
  BY <1>11 DEF vars, TypeOK
<1>12. ASSUME NEW t \in Workers \cup Producers, WakeUnasked(t)
       PROVE  TypeOK'
  BY <1>12 DEF WakeUnasked, TypeOK, Threads
<1> QED
  BY <1>1, <1>2, <1>3, <1>4, <1>5, <1>6, <1>7, <1>8, <1>9, <1>10, <1>11, <1>12
     DEF Next, WorkerStep

-----------------------------------------------------------------------------
(* What the threads hold, and where they are.                               *)

\* Before start() no worker runs and no call is under way; after stop() every
\* worker has ended.
Phases ==
  /\ pc[Owner] = "idle" => /\ \A w \in Workers : pc[w] = "off"
                           /\ \A p \in Producers : pc[p] = "idle"
  /\ pc[Owner] = "stopped" => \A w \in Workers : pc[w] = "done"

\* The tasks take() has given out
Taken == {taken[k] : k \in 1 .. Len(taken)}

\* A task given out has run or is in the hands of the worker that runs it.
ExecInv == ran \cup {cur[w] : w \in At(Workers, "exec")} = Taken

\* Each thread runs the steps of its own kind only.
Kinds ==
  /\ \A w \in Workers : pc[w] \in {"off", "check", "take", "emptyWait", "exec", "done"}
  /\ \A p \in Producers : pc[p] \in {"idle", "fullWait", "again"}

\* The three kinds of thread are different threads.
LEMMA Apart ==
  /\ \A w \in Workers : w \in Threads /\ w \notin Producers /\ w # Owner
  /\ \A p \in Producers : p \in Threads /\ p \notin Workers /\ p # Owner
  /\ Owner \in Threads
  BY PoolAssumption DEF Threads

\* Pushing moves the caller p and at most one sleeping worker, to take().
LEMMA PushMoves ==
  ASSUME TypeOK, NEW p \in Producers, NEW x, Push(p, x)
  PROVE  /\ pc'[p] = "idle"
         /\ \A q \in (Producers \cup {Owner}) \ {p} : pc'[q] = pc[q]
         /\ \/ At(Workers, "emptyWait") = {} /\ \A w \in Workers : pc'[w] = pc[w]
            \/ \E s \in At(Workers, "emptyWait") :
                 pc'[s] = "take" /\ \A w \in Workers \ {s} : pc'[w] = pc[w]
<1>1. GoAndNotify(p, "idle", At(Workers, "emptyWait"), "take")
  BY DEF Push
<1>2. CASE At(Workers, "emptyWait") = {} /\ pc' = [pc EXCEPT ![p] = "idle"]
  BY <1>2, Apart DEF TypeOK
<1>3. ASSUME NEW s \in At(Workers, "emptyWait"),
             pc' = [pc EXCEPT ![p] = "idle", ![s] = "take"]
      PROVE  /\ pc'[p] = "idle" /\ pc'[s] = "take"
             /\ \A t \in Threads \ {p, s} : pc'[t] = pc[t]
  BY <1>3, Apart DEF TypeOK, At
<1> QED
  BY <1>1, <1>2, <1>3, Apart DEF GoAndNotify, At

\* take() moves the worker w, and at most one caller that waits for room.
LEMMA TakeMoves ==
  ASSUME TypeOK, NEW w \in Workers, Take(w)
  PROVE  /\ pc'[w] = "exec"
         /\ \A v \in (Workers \cup {Owner}) \ {w} : pc'[v] = pc[v]
         /\ \/ /\ MaxQueue = 0 \/ At(Producers, "fullWait") = {}
               /\ \A p \in Producers : pc'[p] = pc[p]
            \/ \E s \in At(Producers, "fullWait") :
                 pc'[s] = "again" /\ \A p \in Producers \ {s} : pc'[p] = pc[p]
<1>1. GoAndNotify(w, "exec", IF MaxQueue > 0 THEN At(Producers, "fullWait") ELSE {}, "again")
  BY DEF Take
<1>2. CASE /\ MaxQueue = 0 \/ At(Producers, "fullWait") = {}
           /\ pc' = [pc EXCEPT ![w] = "exec"]
  BY <1>2, Apart DEF TypeOK
<1>3. ASSUME NEW s \in At(Producers, "fullWait"),
             pc' = [pc EXCEPT ![w] = "exec", ![s] = "again"]
      PROVE  /\ pc'[w] = "exec" /\ pc'[s] = "again"
             /\ \A t \in Threads \ {w, s} : pc'[t] = pc[t]
  BY <1>3, Apart DEF TypeOK, At
<1>4. \/ /\ MaxQueue = 0 \/ At(Producers, "fullWait") = {}
         /\ pc' = [pc EXCEPT ![w] = "exec"]
      \/ \E s \in At(Producers, "fullWait") : pc' = [pc EXCEPT ![w] = "exec", ![s] = "again"]
  BY <1>1, PoolAssumption DEF GoAndNotify
<1> QED
  BY <1>2, <1>3, <1>4, Apart DEF At

\* A wait that returns unasked moves its own thread only, one step on.
LEMMA UnaskedMoves ==
  ASSUME TypeOK, Kinds, NEW t \in Workers \cup Producers, WakeUnasked(t)
  PROVE  /\ UNCHANGED <<running, queue, cur, accepted, taken, ran>>
         /\ \A s \in Threads \ {t} : pc'[s] = pc[s]
         /\ t \in Threads /\ t # Owner
         /\ \/ t \in Workers /\ pc[t] = "emptyWait" /\ pc'[t] = "take"
            \/ t \in Producers /\ pc[t] = "fullWait" /\ pc'[t] = "again"
  BY Apart DEF WakeUnasked, TypeOK, Kinds

\* Every step keeps threads to their kind.
LEMMA KindsStep ==
  ASSUME TypeOK, Kinds, [Next]_vars
  PROVE  Kinds'
<1>1. CASE Start
  BY <1>1, Apart DEF Start, TypeOK, Kinds
<1>2. CASE Stop
  BY <1>2, Apart DEF Stop, TypeOK, Kinds
<1>3. CASE Join
  BY <1>3, Apart DEF Join, TypeOK, Kinds
<1>4. ASSUME NEW p \in Producers, NEW x, Push(p, x)
      PROVE  Kinds'
  BY <1>4, PushMoves DEF Kinds
<1>5. ASSUME NEW p \in Producers, RunAgain(p)
      PROVE  Kinds'
  BY <1>5, <1>4, Apart DEF RunAgain, Kinds, TypeOK
<1>6. ASSUME NEW p \in Producers, NEW x \in Tasks, Run(p, x)
      PROVE  Kinds'
  BY <1>6, <1>4, Apart DEF Run, Kinds, TypeOK
<1>7. ASSUME NEW p \in Producers, NEW x \in Tasks, TryRun(p, x)
      PROVE  Kinds'
  BY <1>7, <1>4 DEF TryRun
<1>8. ASSUME NEW w \in Workers, Check(w) \/ TakeNothing(w) \/ Exec(w)
      PROVE  Kinds'
  BY <1>8, Apart DEF Check, TakeNothing, Exec, Kinds, TypeOK
<1>9. ASSUME NEW w \in Workers, Take(w)
      PROVE  Kinds'
  BY <1>9, TakeMoves DEF Kinds
<1>10. CASE UNCHANGED vars
  BY <1>10 DEF vars, Kinds
<1>11. ASSUME NEW t \in Workers \cup Producers, WakeUnasked(t)
       PROVE  Kinds'
  BY <1>11, UnaskedMoves, Apart DEF Kinds
<1> QED
  BY <1>1, <1>2, <1>3, <1>5, <1>6, <1>7, <1>8, <1>9, <1>10, <1>11 DEF Next, WorkerStep

\* Every step keeps tasks in the hands of the threads that need them.
LEMMA HoldingStep ==
  ASSUME TypeOK, Kinds, Phases, Holding, [Next]_vars
  PROVE  Holding'
<1>1. CASE Start
  BY <1>1, Apart DEF Start, TypeOK, Holding, HoldsTask, Phases
<1>2. CASE Stop
  BY <1>2, Apart DEF Stop, TypeOK, Holding, HoldsTask
<1>3. CASE Join
  BY <1>3, Apart DEF Join, TypeOK, Holding, HoldsTask
<1>4. ASSUME NEW p \in Producers, NEW x, Push(p, x),
             cur' = cur \/ cur' = [cur EXCEPT ![p] = NoTask]
      PROVE  Holding'
  <2>1. \A t \in Threads \ {p} : cur'[t] = cur[t]
    BY <1>4 DEF TypeOK
  <2> QED  BY <1>4, <2>1, PushMoves, Apart DEF Holding, HoldsTask, At
<1>5. ASSUME NEW p \in Producers, RunAgain(p)
      PROVE  Holding'
  <2>1. CASE IsFull
    BY <1>5, <2>1, Apart DEF RunAgain, Holding, HoldsTask, TypeOK
  <2>2. CASE ~IsFull
    BY <1>5, <2>2, <1>4 DEF RunAgain
  <2> QED  BY <2>1, <2>2
<1>6. ASSUME NEW p \in Producers, NEW x \in Tasks, Run(p, x)
      PROVE  Holding'
  <2>1. CASE IsFull
    BY <1>6, <2>1, Apart DEF Run, Holding, HoldsTask, TypeOK
  <2>2. CASE ~IsFull
    BY <1>6, <2>2, <1>4 DEF Run
  <2> QED  BY <2>1, <2>2
<1>7. ASSUME NEW p \in Producers, NEW x \in Tasks, TryRun(p, x)
      PROVE  Holding'
  BY <1>7, <1>4 DEF TryRun
<1>8. ASSUME NEW w \in Workers, Check(w) \/ TakeNothing(w) \/ Exec(w)
      PROVE  Holding'
  BY <1>8, Apart DEF Check, TakeNothing, Exec, Holding, HoldsTask, TypeOK
<1>9. ASSUME NEW w \in Workers, Take(w)
      PROVE  Holding'
  <2>1. Head(queue) \in Tasks
    BY <1>9 DEF Take, TypeOK
  <2>2. cur'[w] = Head(queue) /\ \A t \in Threads \ {w} : cur'[t] = cur[t]
    BY <1>9, Apart DEF Take, TypeOK
  <2> QED  BY <1>9, <2>1, <2>2, TakeMoves, Apart DEF Holding, HoldsTask, At
<1>10. CASE UNCHANGED vars
  BY <1>10 DEF vars, Holding, HoldsTask
<1>11. ASSUME NEW t \in Workers \cup Producers, WakeUnasked(t)
       PROVE  Holding'
  BY <1>11, UnaskedMoves, Apart DEF Holding, HoldsTask
<1> QED
  BY <1>1, <1>2, <1>3, <1>5, <1>6, <1>7, <1>8, <1>9, <1>10, <1>11 DEF Next, WorkerStep

\* Every step keeps the order of start(), work, stop().
LEMMA PhasesStep ==
  ASSUME TypeOK, Kinds, Phases, [Next]_vars
  PROVE  Phases'
<1>1. CASE Start
  BY <1>1, Apart DEF Start, TypeOK, Phases
<1>2. CASE Stop
  BY <1>2, Apart DEF Stop, TypeOK, Phases
<1>3. CASE Join
  BY <1>3, Apart DEF Join, TypeOK, Phases, At
<1>4. ASSUME NEW p \in Producers, NEW x, Push(p, x), pc[Owner] # "idle"
      PROVE  Phases'
  BY <1>4, PushMoves, Apart DEF Phases, At
<1>5. ASSUME NEW p \in Producers, RunAgain(p)
      PROVE  Phases'
  BY <1>5, <1>4, Apart DEF RunAgain, Phases, TypeOK
<1>6. ASSUME NEW p \in Producers, NEW x \in Tasks, Run(p, x)
      PROVE  Phases'
  BY <1>6, <1>4, Apart DEF Run, Phases, TypeOK
<1>7. ASSUME NEW p \in Producers, NEW x \in Tasks, TryRun(p, x)
      PROVE  Phases'
  BY <1>7, <1>4 DEF TryRun
<1>8. ASSUME NEW w \in Workers, Check(w) \/ TakeNothing(w) \/ Exec(w)
      PROVE  Phases'
  BY <1>8, Apart DEF Check, TakeNothing, Exec, Phases, TypeOK
<1>9. ASSUME NEW w \in Workers, Take(w)
      PROVE  Phases'
  <2>1. pc[w] = "take"
    BY <1>9 DEF Take
  <2> QED  BY <1>9, <2>1, TakeMoves, Apart DEF Phases
<1>10. CASE UNCHANGED vars
  BY <1>10 DEF vars, Phases
<1>11. ASSUME NEW t \in Workers \cup Producers, WakeUnasked(t)
       PROVE  Phases'
  BY <1>11, UnaskedMoves, Apart DEF Phases
<1> QED
  BY <1>1, <1>2, <1>3, <1>5, <1>6, <1>7, <1>8, <1>9, <1>10, <1>11 DEF Next, WorkerStep

-----------------------------------------------------------------------------
(* The pool is a queue.                                                     *)

\* Moving the head of a sequence to the end of another leaves their
\* concatenation the same.
LEMMA MoveHead ==
  ASSUME NEW S, NEW a \in Seq(S), NEW b \in Seq(S), b # <<>>
  PROVE  Append(a, Head(b)) \o Tail(b) = a \o b
  OBVIOUS

\* Appending to the second sequence appends to the concatenation.
LEMMA AppendRight ==
  ASSUME NEW S, NEW a \in Seq(S), NEW b \in Seq(S), NEW x \in S
  PROVE  a \o Append(b, x) = Append(a \o b, x)
  OBVIOUS

\* Every step keeps the order of the queue.
LEMMA OrderStep ==
  ASSUME TypeOK, Holding, FirstInFirstOut, [Next]_vars
  PROVE  FirstInFirstOut'
<1>1. ASSUME UNCHANGED <<queue, accepted, taken>>
      PROVE  FirstInFirstOut'
  BY <1>1 DEF FirstInFirstOut
<1>2. ASSUME NEW p \in Producers, NEW x \in Tasks, Push(p, x), taken' = taken
      PROVE  FirstInFirstOut'
  <2>1. queue' = Append(queue, x) /\ accepted' = Append(accepted, x)
    BY <1>2 DEF Push
  <2>2. taken \in Seq(Tasks) /\ queue \in Seq(Tasks)
    BY DEF TypeOK
  <2>3. taken \o Append(queue, x) = Append(taken \o queue, x)
    BY <2>2, AppendRight
  <2> QED  BY <1>2, <2>1, <2>3 DEF FirstInFirstOut
<1>3. ASSUME NEW p \in Producers, RunAgain(p)
      PROVE  FirstInFirstOut'
  <2>1. cur[p] \in Tasks
    BY <1>3 DEF RunAgain, Holding, HoldsTask
  <2> QED  BY <1>1, <1>2, <1>3, <2>1 DEF RunAgain
<1>4. ASSUME NEW p \in Producers, NEW x \in Tasks, Run(p, x) \/ TryRun(p, x)
      PROVE  FirstInFirstOut'
  BY <1>1, <1>2, <1>4 DEF Run, TryRun
<1>5. ASSUME NEW w \in Workers, Take(w)
      PROVE  FirstInFirstOut'
  <2>1. /\ queue # <<>> /\ queue' = Tail(queue)
        /\ taken' = Append(taken, Head(queue)) /\ accepted' = accepted
    BY <1>5 DEF Take
  <2>2. taken \in Seq(Tasks) /\ queue \in Seq(Tasks)
    BY DEF TypeOK
  <2>3. Append(taken, Head(queue)) \o Tail(queue) = taken \o queue
    BY <2>1, <2>2, MoveHead
  <2> QED  BY <2>1, <2>3 DEF FirstInFirstOut
<1>6. ASSUME NEW w \in Workers, Check(w) \/ TakeNothing(w) \/ Exec(w)
      PROVE  FirstInFirstOut'
  BY <1>1, <1>6 DEF Check, TakeNothing, Exec
<1>7. CASE Start \/ Stop \/ Join \/ UNCHANGED vars
  BY <1>1, <1>7 DEF Start, Stop, Join, vars
<1>8. ASSUME NEW t \in Workers \cup Producers, WakeUnasked(t)
      PROVE  FirstInFirstOut'
  BY <1>1, <1>8 DEF WakeUnasked
<1> QED
  BY <1>3, <1>4, <1>5, <1>6, <1>7, <1>8 DEF Next, WorkerStep

-----------------------------------------------------------------------------
(* stop() leaves no task half done.                                         *)

\* Every step keeps each task that was given out run or in a worker's hands.
LEMMA ExecStep ==
  ASSUME TypeOK, Kinds, Phases, ExecInv, [Next]_vars
  PROVE  ExecInv'
<1>1. ASSUME UNCHANGED <<taken, ran>>, At(Workers, "exec")' = At(Workers, "exec"),
             \A w \in At(Workers, "exec") : cur'[w] = cur[w]
      PROVE  ExecInv'
  <2>1. Taken' = Taken
    BY <1>1 DEF Taken
  <2> QED  BY <1>1, <2>1 DEF ExecInv
<1>2. ASSUME NEW p \in Producers, NEW x, Push(p, x), UNCHANGED <<taken, ran>>,
             cur' = cur \/ cur' = [cur EXCEPT ![p] = NoTask]
      PROVE  ExecInv'
  <2>1. At(Workers, "exec")' = At(Workers, "exec")
    BY <1>2, PushMoves DEF At
  <2>2. \A w \in At(Workers, "exec") : cur'[w] = cur[w]
    BY <1>2, Apart DEF At, TypeOK
  <2> QED  BY <1>1, <1>2, <2>1, <2>2
<1>3. ASSUME NEW p \in Producers, RunAgain(p)
      PROVE  ExecInv'
  <2>1. CASE IsFull
    <3>1. At(Workers, "exec")' = At(Workers, "exec")
      BY <1>3, <2>1, Apart DEF RunAgain, At, TypeOK
    <3> QED  BY <1>1, <1>3, <2>1, <3>1 DEF RunAgain
  <2>2. CASE ~IsFull
    BY <1>2, <1>3, <2>2 DEF RunAgain
  <2> QED  BY <2>1, <2>2
<1>4. ASSUME NEW p \in Producers, NEW x \in Tasks, Run(p, x)
      PROVE  ExecInv'
  <2>1. CASE IsFull
    <3>1. At(Workers, "exec")' = At(Workers, "exec")
      BY <1>4, <2>1, Apart DEF Run, At, TypeOK
    <3>2. \A w \in At(Workers, "exec") : cur'[w] = cur[w]
      BY <1>4, <2>1, Apart DEF Run, At, TypeOK
    <3> QED  BY <1>1, <1>4, <3>1, <3>2 DEF Run
  <2>2. CASE ~IsFull
    BY <1>2, <1>4, <2>2 DEF Run
  <2> QED  BY <2>1, <2>2
<1>5. ASSUME NEW p \in Producers, NEW x \in Tasks, TryRun(p, x)
      PROVE  ExecInv'
  BY <1>2, <1>5 DEF TryRun
<1>6. ASSUME NEW w \in Workers, Take(w)
      PROVE  ExecInv'
  <2>1. /\ pc[w] = "take" /\ queue # <<>>
        /\ taken' = Append(taken, Head(queue)) /\ ran' = ran
        /\ cur' = [cur EXCEPT ![w] = Head(queue)]
    BY <1>6 DEF Take
  <2>2. At(Workers, "exec")' = At(Workers, "exec") \cup {w} /\ w \notin At(Workers, "exec")
    BY <1>6, <2>1, TakeMoves, Apart DEF At
  <2>3. /\ cur'[w] = Head(queue)
        /\ \A v \in At(Workers, "exec") : cur'[v] = cur[v]
    BY <2>1, <2>2, Apart DEF At, TypeOK
  <2>4. Taken' = Taken \cup {Head(queue)}
    <3>1. taken \in Seq(Tasks) /\ Head(queue) \in Tasks
      BY <2>1 DEF TypeOK
    <3>2. /\ Len(taken') = Len(taken) + 1 /\ Len(taken) \in Nat
          /\ \A k \in 1 .. Len(taken) : taken'[k] = taken[k]
          /\ taken'[Len(taken) + 1] = Head(queue)
      BY <2>1, <3>1
    <3> QED  BY <3>2 DEF Taken
  <2>5. {cur'[v] : v \in At(Workers, "exec")'}
          = {cur[v] : v \in At(Workers, "exec")} \cup {Head(queue)}
    BY <2>2, <2>3
  <2> QED  BY <2>1, <2>4, <2>5 DEF ExecInv
<1>7. ASSUME NEW w \in Workers, Exec(w)
      PROVE  ExecInv'
  <2>1. /\ pc[w] = "exec" /\ ran' = ran \cup {cur[w]} /\ taken' = taken
        /\ cur' = [cur EXCEPT ![w] = NoTask] /\ pc' = [pc EXCEPT ![w] = "check"]
    BY <1>7 DEF Exec
  <2>2. At(Workers, "exec")' = At(Workers, "exec") \ {w} /\ w \in At(Workers, "exec")
    BY <2>1, Apart DEF At, TypeOK
  <2>3. \A v \in At(Workers, "exec") \ {w} : cur'[v] = cur[v]
    BY <2>1, Apart DEF At, TypeOK
  <2>4. {cur'[v] : v \in At(Workers, "exec")'} \cup {cur[w]} = {cur[v] : v \in At(Workers, "exec")}
    BY <2>2, <2>3
  <2>5. Taken' = Taken
    BY <2>1 DEF Taken
  <2> QED  BY <2>1, <2>4, <2>5 DEF ExecInv
<1>8. ASSUME NEW w \in Workers, Check(w) \/ TakeNothing(w)
      PROVE  ExecInv'
  <2>1. At(Workers, "exec")' = At(Workers, "exec")
    BY <1>8, Apart DEF Check, TakeNothing, At, TypeOK
  <2> QED  BY <1>1, <1>8, <2>1 DEF Check, TakeNothing
<1>9. CASE Start
  <2>1. At(Workers, "exec")' = At(Workers, "exec")
    BY <1>9, Apart DEF Start, At, TypeOK, Phases
  <2> QED  BY <1>1, <1>9, <2>1 DEF Start
<1>10. CASE Stop
  <2>1. At(Workers, "exec")' = At(Workers, "exec")
    BY <1>10, Apart DEF Stop, At, TypeOK
  <2> QED  BY <1>1, <1>10, <2>1 DEF Stop
<1>11. CASE Join
  <2>1. At(Workers, "exec")' = At(Workers, "exec")
    BY <1>11, Apart DEF Join, At, TypeOK
  <2> QED  BY <1>1, <1>11, <2>1 DEF Join
<1>12. CASE UNCHANGED vars
  <2>1. At(Workers, "exec")' = At(Workers, "exec")
    BY <1>12 DEF vars, At
  <2> QED  BY <1>1, <1>12, <2>1 DEF vars
<1>13. ASSUME NEW t \in Workers \cup Producers, WakeUnasked(t)
       PROVE  ExecInv'
  <2>1. At(Workers, "exec")' = At(Workers, "exec")
    BY <1>13, UnaskedMoves, Apart DEF At
  <2> QED  BY <1>1, <1>13, <2>1 DEF WakeUnasked
<1> QED
  BY <1>3, <1>4, <1>5, <1>6, <1>7, <1>8, <1>9, <1>10, <1>11, <1>12, <1>13 DEF Next, WorkerStep

\* After stop() no worker runs a task, so all that was given out has run.
LEMMA QuietFromInv ==
  ASSUME Phases, ExecInv
  PROVE  StopMeansQuiet
<1> SUFFICES ASSUME pc[Owner] = "stopped"
             PROVE  /\ ran = Taken
                    /\ At(Workers, "exec") = {} /\ At(Workers, "take") = {}
  BY DEF StopMeansQuiet, Taken
<1>1. At(Workers, "exec") = {} /\ At(Workers, "take") = {}
  BY DEF Phases, At
<1> QED  BY <1>1 DEF ExecInv

-----------------------------------------------------------------------------
(* No notify is lost.                                                       *)

\* The threads of one kind that are at one place are finitely many.
LEMMA AtFinite ==
  ASSUME NEW p
  PROVE  /\ IsFiniteSet(At(Workers, p)) /\ Cardinality(At(Workers, p)) \in Nat
         /\ IsFiniteSet(At(Producers, p)) /\ Cardinality(At(Producers, p)) \in Nat
<1>1. At(Workers, p) \in SUBSET Workers /\ At(Producers, p) \in SUBSET Producers
  BY DEF At
<1>2. IsFiniteSet(At(Workers, p)) /\ IsFiniteSet(At(Producers, p))
  BY <1>1, PoolAssumption, FS_Subset
<1> QED  BY <1>2, FS_CardinalityType

\* Every step keeps a worker awake for each task queued while others sleep.
LEMMA WorkerStepKeeps ==
  ASSUME TypeOK, Kinds, Holding, NoSleepingWorker, [Next]_vars
  PROVE  NoSleepingWorker'
<1> DEFINE Asleep == At(Workers, "emptyWait")
           Awake == At(Workers, "take")
<1>0. Len(queue) \in Nat /\ Cardinality(Awake) \in Nat /\ IsFiniteSet(Awake)
  BY AtFinite DEF TypeOK
<1>1. ASSUME queue' = queue, Asleep' = Asleep, Awake' = Awake
      PROVE  NoSleepingWorker'
  BY <1>1 DEF NoSleepingWorker
<1>2. ASSUME NEW p \in Producers, NEW x \in Tasks, Push(p, x)
      PROVE  NoSleepingWorker'
  <2>1. CASE Asleep = {} /\ \A w \in Workers : pc'[w] = pc[w]
    <3>1. Asleep' = {}
      BY <2>1 DEF At
    <3> QED  BY <3>1 DEF NoSleepingWorker
  <2>2. ASSUME NEW s \in Asleep, pc'[s] = "take", \A w \in Workers \ {s} : pc'[w] = pc[w]
        PROVE  NoSleepingWorker'
    <3>1. Awake' = Awake \cup {s} /\ s \notin Awake
      BY <2>2 DEF At
    <3>2. Cardinality(Awake') = Cardinality(Awake) + 1
      BY <1>0, <3>1, FS_AddElement
    <3>3. Len(queue') = Len(queue) + 1
      BY <1>2 DEF Push, TypeOK
    <3>4. Len(queue) <= Cardinality(Awake)
      BY <2>2 DEF NoSleepingWorker
    <3> QED  BY <1>0, <3>2, <3>3, <3>4 DEF NoSleepingWorker
  <2> QED  BY <1>2, <2>1, <2>2, PushMoves
<1>3. ASSUME NEW p \in Producers, UNCHANGED queue, pc' = [pc EXCEPT ![p] = "fullWait"]
      PROVE  NoSleepingWorker'
  <2>1. Asleep' = Asleep /\ Awake' = Awake
    BY <1>3, Apart DEF At, TypeOK
  <2> QED  BY <1>1, <1>3, <2>1
<1>4. ASSUME NEW w \in Workers, Take(w)
      PROVE  NoSleepingWorker'
  <2>1. pc[w] = "take" /\ queue # <<>> /\ queue' = Tail(queue)
    BY <1>4 DEF Take
  <2>2. Asleep' = Asleep /\ Awake' = Awake \ {w} /\ w \in Awake
    BY <1>4, <2>1, TakeMoves DEF At
  <2>3. Cardinality(Awake') = Cardinality(Awake) - 1
    BY <1>0, <2>2, FS_RemoveElement
  <2>4. Len(queue') = Len(queue) - 1
    BY <2>1 DEF TypeOK
  <2> QED  BY <1>0, <2>2, <2>3, <2>4 DEF NoSleepingWorker
<1>5. ASSUME NEW w \in Workers, Check(w)
      PROVE  NoSleepingWorker'
  <2>1. Asleep' = Asleep /\ (Awake' = Awake \/ Awake' = Awake \cup {w})
    BY <1>5, Apart DEF Check, At, TypeOK
  <2>2. Cardinality(Awake') >= Cardinality(Awake) /\ Cardinality(Awake') \in Nat
    <3>1. CASE Awake' = Awake
      BY <1>0, <3>1
    <3>2. CASE Awake' = Awake \cup {w}
      <4>1. w \notin Awake
        BY <1>5 DEF Check, At
      <4>2. Cardinality(Awake') = Cardinality(Awake) + 1
        BY <1>0, <3>2, <4>1, FS_AddElement
      <4> QED  BY <1>0, <4>2
    <3> QED  BY <2>1, <3>1, <3>2
  <2>3. queue' = queue
    BY <1>5 DEF Check
  <2> QED  BY <1>0, <2>1, <2>2, <2>3 DEF NoSleepingWorker
<1>6. ASSUME NEW w \in Workers, TakeNothing(w)
      PROVE  NoSleepingWorker'
  <2>1. Len(queue') = 0
    BY <1>6 DEF TakeNothing
  <2>2. Cardinality(Awake') \in Nat
    <3>1. Awake' \in SUBSET Workers
      BY DEF At
    <3> QED  BY <3>1, PoolAssumption, FS_Subset, FS_CardinalityType
  <2> QED  BY <2>1, <2>2 DEF NoSleepingWorker
<1>7. ASSUME NEW w \in Workers, Exec(w)
      PROVE  NoSleepingWorker'
  <2>1. Asleep' = Asleep /\ Awake' = Awake /\ queue' = queue
    BY <1>7, Apart DEF Exec, At, TypeOK
  <2> QED  BY <1>1, <2>1
<1>8. CASE Start \/ Stop
  <2>1. Asleep' = {}
    BY <1>8, Apart DEF Start, Stop, At, TypeOK
  <2> QED  BY <2>1 DEF NoSleepingWorker
<1>9. CASE Join
  <2>1. Asleep' = Asleep /\ Awake' = Awake /\ queue' = queue
    BY <1>9, Apart DEF Join, At, TypeOK
  <2> QED  BY <1>1, <2>1
<1>10. CASE UNCHANGED vars
  BY <1>1, <1>10 DEF vars, At
<1>11. ASSUME NEW p \in Producers, RunAgain(p)
       PROVE  NoSleepingWorker'
  <2>1. cur[p] \in Tasks
    BY <1>11 DEF RunAgain, Holding, HoldsTask
  <2> QED  BY <1>2, <1>3, <1>11, <2>1 DEF RunAgain
<1>12. ASSUME NEW p \in Producers, NEW x \in Tasks, Run(p, x) \/ TryRun(p, x)
       PROVE  NoSleepingWorker'
  BY <1>2, <1>3, <1>12 DEF Run, TryRun
<1>13. ASSUME NEW t \in Workers \cup Producers, WakeUnasked(t)
       PROVE  NoSleepingWorker'
  <2>1. queue' = queue
    BY <1>13, UnaskedMoves
  <2>2. CASE t \in Producers
    <3>1. Asleep' = Asleep /\ Awake' = Awake
      BY <1>13, <2>2, UnaskedMoves, Apart DEF At
    <3> QED  BY <1>1, <2>1, <3>1
  <2>3. CASE t \in Workers
    <3>1. Asleep' \subseteq Asleep /\ Awake' = Awake \cup {t} /\ t \notin Awake
      BY <1>13, <2>3, UnaskedMoves, Apart DEF At
    <3>2. Cardinality(Awake') = Cardinality(Awake) + 1
      BY <1>0, <3>1, FS_AddElement
    <3> QED  BY <1>0, <2>1, <3>1, <3>2 DEF NoSleepingWorker
  <2> QED  BY <2>2, <2>3
<1> QED
  BY <1>4, <1>5, <1>6, <1>7, <1>8, <1>9, <1>10, <1>11, <1>12, <1>13 DEF Next, WorkerStep

\* Every step keeps a caller awake for each free place while others wait.
LEMMA ProducerStepKeeps ==
  ASSUME TypeOK, Kinds, Holding, NoSleepingProducer, [Next]_vars
  PROVE  NoSleepingProducer'
<1> DEFINE Waiting == At(Producers, "fullWait")
           Again == At(Producers, "again")
<1>0. /\ Len(queue) \in Nat /\ MaxQueue \in Nat
      /\ Cardinality(Again) \in Nat /\ IsFiniteSet(Again)
  BY AtFinite, PoolAssumption DEF TypeOK
<1>1. ASSUME queue' = queue, Waiting' = Waiting, Again' = Again
      PROVE  NoSleepingProducer'
  BY <1>1 DEF NoSleepingProducer
<1>2. ASSUME NEW p \in Producers, NEW x \in Tasks, Push(p, x), pc[p] \in {"idle", "again"}
      PROVE  NoSleepingProducer'
  <2>1. Waiting' = Waiting /\ Again' = Again \ {p}
    BY <1>2, PushMoves DEF At
  <2>2. Cardinality(Again') >= Cardinality(Again) - 1 /\ Cardinality(Again') \in Nat
    <3>1. CASE p \in Again
      <4>1. Cardinality(Again') = Cardinality(Again) - 1 /\ IsFiniteSet(Again')
        BY <1>0, <2>1, <3>1, FS_RemoveElement
      <4>2. Cardinality(Again') \in Nat
        BY <4>1, FS_CardinalityType
      <4> QED  BY <1>0, <4>1, <4>2
    <3>2. CASE p \notin Again
      <4>1. Again' = Again
        BY <2>1, <3>2
      <4> QED  BY <1>0, <4>1
    <3> QED  BY <3>1, <3>2
  <2>3. Len(queue') = Len(queue) + 1
    BY <1>2 DEF Push, TypeOK
  <2> QED  BY <1>0, <2>1, <2>2, <2>3 DEF NoSleepingProducer
<1>3. ASSUME IsFull, UNCHANGED queue
      PROVE  NoSleepingProducer'
  <2>1. Cardinality(Again') \in Nat
    <3>1. Again' \in SUBSET Producers
      BY DEF At
    <3> QED  BY <3>1, PoolAssumption, FS_Subset, FS_CardinalityType
  <2> QED  BY <1>0, <1>3, <2>1 DEF IsFull, NoSleepingProducer
<1>4. ASSUME NEW p \in Producers, RunAgain(p)
      PROVE  NoSleepingProducer'
  <2>1. cur[p] \in Tasks /\ pc[p] = "again"
    BY <1>4 DEF RunAgain, Holding, HoldsTask
  <2> QED  BY <1>2, <1>3, <1>4, <2>1 DEF RunAgain
<1>5. ASSUME NEW p \in Producers, NEW x \in Tasks, Run(p, x) \/ TryRun(p, x)
      PROVE  NoSleepingProducer'
  BY <1>2, <1>3, <1>5 DEF Run, TryRun
<1>6. ASSUME NEW w \in Workers, Take(w)
      PROVE  NoSleepingProducer'
  <2>1. Len(queue') = Len(queue) - 1 /\ Len(queue') \in Nat
    BY <1>6 DEF Take, TypeOK
  <2>2. CASE MaxQueue = 0 \/ Waiting = {}
    <3>1. CASE MaxQueue = 0
      <4>1. Cardinality(Again') \in Nat
        <5>1. Again' \in SUBSET Producers
          BY DEF At
        <5> QED  BY <5>1, PoolAssumption, FS_Subset, FS_CardinalityType
      <4> QED  BY <2>1, <3>1, <4>1 DEF NoSleepingProducer
    <3>2. CASE Waiting = {}
      <4>1. Waiting' = {}
        BY <1>6, <3>2, TakeMoves DEF At
      <4> QED  BY <4>1 DEF NoSleepingProducer
    <3> QED  BY <2>2, <3>1, <3>2
  <2>3. ASSUME NEW s \in Waiting, pc'[s] = "again", \A p \in Producers \ {s} : pc'[p] = pc[p]
        PROVE  NoSleepingProducer'
    <3>1. Again' = Again \cup {s} /\ s \notin Again
      BY <2>3 DEF At
    <3>2. Cardinality(Again') = Cardinality(Again) + 1
      BY <1>0, <3>1, FS_AddElement
    <3>3. MaxQueue <= Len(queue) + Cardinality(Again)
      BY <2>3 DEF NoSleepingProducer
    <3> QED  BY <1>0, <2>1, <3>2, <3>3 DEF NoSleepingProducer
  <2> QED  BY <1>6, <2>2, <2>3, TakeMoves
<1>7. ASSUME NEW w \in Workers, Check(w) \/ TakeNothing(w) \/ Exec(w)
      PROVE  NoSleepingProducer'
  <2>1. Waiting' = Waiting /\ Again' = Again /\ queue' = queue
    BY <1>7, Apart DEF Check, TakeNothing, Exec, At, TypeOK
  <2> QED  BY <1>1, <2>1
<1>8. CASE Start \/ Stop \/ Join
  <2>1. Waiting' = Waiting /\ Again' = Again /\ queue' = queue
    BY <1>8, Apart DEF Start, Stop, Join, At, TypeOK, Kinds
  <2> QED  BY <1>1, <2>1
<1>9. CASE UNCHANGED vars
  BY <1>1, <1>9 DEF vars, At
<1>10. ASSUME NEW t \in Workers \cup Producers, WakeUnasked(t)
       PROVE  NoSleepingProducer'
  <2>1. queue' = queue
    BY <1>10, UnaskedMoves
  <2>2. CASE t \in Workers
    <3>1. Waiting' = Waiting /\ Again' = Again
      BY <1>10, <2>2, UnaskedMoves, Apart DEF At
    <3> QED  BY <1>1, <2>1, <3>1
  <2>3. CASE t \in Producers
    <3>1. Waiting' \subseteq Waiting /\ Again' = Again \cup {t} /\ t \notin Again
      BY <1>10, <2>3, UnaskedMoves, Apart DEF At
    <3>2. Cardinality(Again') = Cardinality(Again) + 1
      BY <1>0, <3>1, FS_AddElement
    <3> QED  BY <1>0, <2>1, <3>1, <3>2 DEF NoSleepingProducer
  <2> QED  BY <2>2, <2>3
<1> QED
  BY <1>4, <1>5, <1>6, <1>7, <1>8, <1>9, <1>10 DEF Next, WorkerStep

-----------------------------------------------------------------------------
(* The theorems.                                                            *)

\* The inductive invariant
Inv ==
  /\ TypeOK /\ Kinds /\ Phases /\ Holding /\ ExecInv
  /\ FirstInFirstOut /\ NoSleepingWorker /\ NoSleepingProducer

\* The constructor leaves a pool that satisfies it.
LEMMA InvInit ==
  ASSUME Init
  PROVE  Inv
<1>1. TypeOK
  <2>1. pc \in [Threads -> {"off", "idle"}] /\ cur \in [Threads -> {NoTask}]
    BY DEF Init
  <2>2. <<>> \in Seq(Tasks)
    OBVIOUS
  <2> QED  BY <2>1, <2>2 DEF Init, TypeOK
<1>2. Kinds /\ Phases /\ Holding
  BY Apart DEF Init, Kinds, Phases, Holding, HoldsTask
<1>3. At(Workers, "exec") = {} /\ At(Workers, "emptyWait") = {} /\ At(Producers, "fullWait") = {}
  BY Apart DEF Init, At
<1>4. Taken = {}
  BY DEF Init, Taken
<1>5. ExecInv
  BY <1>3, <1>4 DEF Init, ExecInv
<1>6. FirstInFirstOut
  BY DEF Init, FirstInFirstOut
<1> QED
  BY <1>1, <1>2, <1>3, <1>5, <1>6 DEF Inv, NoSleepingWorker, NoSleepingProducer

\* Every step keeps it.
LEMMA InvStep ==
  ASSUME Inv, [Next]_vars
  PROVE  Inv'
<1> USE DEF Inv
<1>1. TypeOK' /\ Kinds' /\ Phases' /\ Holding'
  BY TypeStep, KindsStep, PhasesStep, HoldingStep
<1>2. ExecInv' /\ FirstInFirstOut'
  BY ExecStep, OrderStep
<1>3. NoSleepingWorker' /\ NoSleepingProducer'
  BY WorkerStepKeeps, ProducerStepKeeps
<1> QED  BY <1>1, <1>2, <1>3

\* The inductive invariant holds throughout.
LEMMA InvHolds == Spec => []Inv
<1>1. Init => Inv
  BY InvInit
<1>2. Inv /\ [Next]_vars => Inv'
  BY InvStep
<1> QED  BY <1>1, <1>2, PTL DEF Spec

\* Every variable of the pool keeps its type; in particular what a worker runs
\* and what run pushes after waiting is always a real task.
THEOREM PoolTypeCorrect == Spec => []TypeOK
<1>1. Inv => TypeOK
  BY DEF Inv
<1> QED  BY <1>1, InvHolds, PTL

\* The pool is a queue: tasks leave it in the order run and TryRun accepted
\* them, none lost and none given out twice.
THEOREM PoolIsQueue == Spec => []FirstInFirstOut
<1>1. Inv => FirstInFirstOut
  BY DEF Inv
<1> QED  BY <1>1, InvHolds, PTL

\* When stop() has returned every task given out has run to its end.
THEOREM PoolStopsQuiet == Spec => []StopMeansQuiet
<1>1. Inv => StopMeansQuiet
  BY QuietFromInv DEF Inv
<1> QED  BY <1>1, InvHolds, PTL

\* notEmpty_.notify() is not lost: while a worker sleeps there is one awake for
\* each task queued, although only one is woken for a task.
THEOREM PoolWakesWorkers == Spec => []NoSleepingWorker
<1>1. Inv => NoSleepingWorker
  BY DEF Inv
<1> QED  BY <1>1, InvHolds, PTL

\* notFull_.notify() is not lost: while a caller waits in run there is one awake
\* for each free place, although TryRun may take the place first.
THEOREM PoolWakesCallers == Spec => []NoSleepingProducer
<1>1. Inv => NoSleepingProducer
  BY DEF Inv
<1> QED  BY <1>1, InvHolds, PTL

-----------------------------------------------------------------------------
(* The refinement: each step of the pool is one of TaskQueue, or changes    *)
(* nothing of it.                                                           *)

\* Workers that neither begin nor end a task do what they did.
LEMMA DoingSame ==
  ASSUME \A w \in Workers : /\ pc'[w] = "exec" <=> pc[w] = "exec"
                            /\ pc[w] = "exec" => cur'[w] = cur[w]
  PROVE  Doing' = Doing
  BY DEF Doing

\* The phase follows from where the owner is.
LEMMA PhaseSame ==
  ASSUME pc'[Owner] = pc[Owner]
  PROVE  Phase' = Phase
  BY DEF Phase

\* Pushing a task while there is room is Accept.
LEMMA PushAccepts ==
  ASSUME Inv, NEW p \in Producers, NEW x \in Tasks, Push(p, x), ~IsFull, pc[Owner] # "idle",
         \A w \in Workers : cur'[w] = cur[w], ran' = ran
  PROVE  Queue!Next
<1> USE DEF Inv
<1>1. pc'[Owner] = pc[Owner]
  BY PushMoves, Apart
<1>2. \A w \in Workers : pc'[w] = "exec" <=> pc[w] = "exec"
  BY PushMoves DEF At
<1>3. Doing' = Doing /\ Phase' = Phase
  BY <1>1, <1>2, DoingSame, PhaseSame
<1>4. Phase # "new"
  BY DEF Phase
<1>5. MaxQueue = 0 \/ Len(queue) < MaxQueue
  <2>1. Len(queue) \in Nat /\ MaxQueue \in Nat
    BY PoolAssumption DEF TypeOK
  <2> QED  BY <2>1 DEF IsFull
<1>6. queue' = Append(queue, x)
  BY DEF Push
<1>7. Queue!Accept(x)
  BY <1>3, <1>4, <1>5, <1>6 DEF Queue!Accept
<1> QED  BY <1>7 DEF Queue!Next

\* The constructor's pool is a new queue.
LEMMA RefinesInit ==
  ASSUME Init
  PROVE  Queue!Init
<1>1. Phase = "new"
  BY Apart DEF Init, Phase
<1>2. Doing = [w \in Workers |-> NoTask]
  BY Apart DEF Init, Doing
<1> QED  BY <1>1, <1>2 DEF Init, Queue!Init

\* Every step refines.
LEMMA RefinesStep ==
  ASSUME Inv, [Next]_vars
  PROVE  [Queue!Next]_(Queue!vars)
<1> USE DEF Inv
<1>0. ASSUME Phase' = Phase, Doing' = Doing, queue' = queue, ran' = ran
      PROVE  UNCHANGED Queue!vars
  BY <1>0 DEF Queue!vars
<1>1. CASE Start
  <2>1. Phase = "new" /\ Phase' = "open"
    BY <1>1, Apart DEF Start, Phase, TypeOK
  <2>2. \A w \in Workers : pc[w] # "exec" /\ pc'[w] # "exec"
    BY <1>1, Apart DEF Start, Phases, TypeOK
  <2>3. Doing' = Doing
    BY <2>2, DoingSame
  <2>4. Queue!Open
    BY <1>1, <2>1, <2>3 DEF Start, Queue!Open
  <2> QED  BY <2>4 DEF Queue!Next
<1>2. CASE Stop
  <2>1. Phase' = Phase
    BY <1>2, Apart DEF Stop, Phase, TypeOK
  <2>2. \A w \in Workers : (pc'[w] = "exec" <=> pc[w] = "exec") /\ cur'[w] = cur[w]
    BY <1>2, Apart DEF Stop, TypeOK
  <2>3. Doing' = Doing
    BY <2>2, DoingSame
  <2> QED  BY <1>0, <1>2, <2>1, <2>3 DEF Stop
<1>3. CASE Join
  <2>1. Phase = "open" /\ Phase' = "closed"
    BY <1>3, Apart DEF Join, Phase, TypeOK
  <2>2. \A w \in Workers : pc[w] = "done" /\ pc'[w] = "done"
    BY <1>3, Apart DEF Join, At, TypeOK
  <2>3. Doing' = Doing /\ \A w \in Workers : Doing[w] = NoTask
    BY <2>2 DEF Doing
  <2>4. Queue!Close
    BY <1>3, <2>1, <2>3 DEF Join, Queue!Close
  <2> QED  BY <2>4 DEF Queue!Next
<1>4. ASSUME NEW p \in Producers, UNCHANGED <<queue, ran>>,
             \A t \in Threads \ {p} : pc'[t] = pc[t] /\ cur'[t] = cur[t]
      PROVE  UNCHANGED Queue!vars
  <2>1. Phase' = Phase
    BY <1>4, Apart, PhaseSame
  <2>2. Doing' = Doing
    BY <1>4, Apart, DoingSame
  <2> QED  BY <1>0, <1>4, <2>1, <2>2
<1>5. ASSUME NEW p \in Producers, NEW x \in Tasks, Run(p, x)
      PROVE  [Queue!Next]_(Queue!vars)
  <2>1. CASE IsFull
    BY <1>4, <1>5, <2>1 DEF Run, TypeOK
  <2>2. CASE ~IsFull
    BY <1>5, <2>2, PushAccepts DEF Run
  <2> QED  BY <2>1, <2>2
<1>6. ASSUME NEW p \in Producers, RunAgain(p)
      PROVE  [Queue!Next]_(Queue!vars)
  <2>1. CASE IsFull
    BY <1>4, <1>6, <2>1 DEF RunAgain, TypeOK
  <2>2. CASE ~IsFull
    <3>1. cur[p] \in Tasks /\ pc[Owner] # "idle"
      BY <1>6 DEF RunAgain, Holding, HoldsTask, Phases
    <3>2. \A w \in Workers : cur'[w] = cur[w]
      BY <1>6, <2>2, Apart DEF RunAgain, TypeOK
    <3> QED  BY <1>6, <2>2, <3>1, <3>2, PushAccepts DEF RunAgain
  <2> QED  BY <2>1, <2>2
<1>7. ASSUME NEW p \in Producers, NEW x \in Tasks, TryRun(p, x)
      PROVE  [Queue!Next]_(Queue!vars)
  BY <1>7, PushAccepts DEF TryRun
<1>8. ASSUME NEW w \in Workers, Check(w) \/ TakeNothing(w)
      PROVE  [Queue!Next]_(Queue!vars)
  <2>1. Phase' = Phase
    BY <1>8, Apart, PhaseSame DEF Check, TakeNothing, TypeOK
  <2>2. Doing' = Doing
    BY <1>8, Apart, DoingSame DEF Check, TakeNothing, TypeOK
  <2> QED  BY <1>0, <1>8, <2>1, <2>2 DEF Check, TakeNothing
<1>9. ASSUME NEW w \in Workers, Take(w)
      PROVE  [Queue!Next]_(Queue!vars)
  <2>1. pc[Owner] # "idle" /\ pc[Owner] # "stopped"
    BY <1>9 DEF Take, Phases
  <2>2. Phase = "open" /\ Phase' = Phase
    BY <1>9, <2>1, TakeMoves, Apart, PhaseSame DEF Phase
  <2>3. Doing[w] = NoTask
    BY <1>9 DEF Take, Doing
  <2>4. Doing' = [Doing EXCEPT ![w] = Head(queue)]
    BY <1>9, TakeMoves, Apart DEF Take, Doing, TypeOK
  <2>5. Queue!Begin(w)
    BY <1>9, <2>2, <2>3, <2>4 DEF Take, Queue!Begin
  <2> QED  BY <2>5 DEF Queue!Next
<1>10. ASSUME NEW w \in Workers, Exec(w)
       PROVE  [Queue!Next]_(Queue!vars)
  <2>1. Phase' = Phase
    BY <1>10, Apart, PhaseSame DEF Exec, TypeOK
  <2>2. Doing[w] = cur[w] /\ cur[w] # NoTask
    BY <1>10, PoolAssumption DEF Exec, Doing, Holding
  <2>3. Doing' = [Doing EXCEPT ![w] = NoTask]
    BY <1>10, Apart DEF Exec, Doing, TypeOK
  <2>4. Queue!End(w)
    BY <1>10, <2>1, <2>2, <2>3 DEF Exec, Queue!End
  <2> QED  BY <2>4 DEF Queue!Next
<1>11. ASSUME NEW t \in Workers \cup Producers, WakeUnasked(t)
       PROVE  [Queue!Next]_(Queue!vars)
  <2>1. Phase' = Phase
    BY <1>11, UnaskedMoves, Apart, PhaseSame
  <2>2. Doing' = Doing
    BY <1>11, UnaskedMoves, Apart, DoingSame
  <2> QED  BY <1>0, <1>11, <2>1, <2>2, UnaskedMoves
<1>12. CASE UNCHANGED vars
  BY <1>0, <1>12, DoingSame, PhaseSame DEF vars
<1> QED
  BY <1>1, <1>2, <1>3, <1>5, <1>6, <1>7, <1>8, <1>9, <1>10, <1>11, <1>12 DEF Next, WorkerStep

\* common::ThreadPool implements TaskQueue: through its mutex, its condition
\* variables and its threads a first-in first-out queue with a limit is seen, whose
\* close finds no task half done and after which none begins.
THEOREM PoolImplementsQueue == Spec => IsTaskQueue
<1>1. Init => Queue!Init
  BY RefinesInit
<1>2. Inv /\ [Next]_vars => [Queue!Next]_(Queue!vars)
  BY RefinesStep
<1> QED  BY <1>1, <1>2, InvHolds, PTL DEF Spec, IsTaskQueue, Queue!Spec
=============================================================================
