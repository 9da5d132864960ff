------------------------------ MODULE ThreadPool ------------------------------
(***************************************************************************)
(* common::ThreadPool: a queue of tasks under one mutex with the condition *)
(* variables notEmpty_ and notFull_, the worker threads that take from it, *)
(* the threads that call run and TryRun, and the one that calls start and  *)
(* stop. libeventcpcli, curlHttpCli and redisAsyn carry copies of it and   *)
(* run their IO threads on it.                                             *)
(***************************************************************************)
EXTENDS Naturals, Sequences, FiniteSets

CONSTANTS
  Workers,        \* the threads of start(numThreads), numThreads > 0
  Producers,      \* threads that call run and TryRun
  Owner,          \* the thread that calls start and stop
  Tasks, NoTask,  \* the tasks given to the pool, and an empty Task
  MaxQueue        \* maxQueueSize_, 0 for no limit

ASSUME PoolAssumption ==
  /\ NoTask \notin Tasks
  /\ MaxQueue \in Nat
  /\ IsFiniteSet(Workers) /\ IsFiniteSet(Producers)
  /\ Workers \cap Producers = {} /\ Owner \notin Workers \cup Producers

Threads == Workers \cup Producers \cup {Owner}

VARIABLES
  running,        \* running_
  queue,          \* queue_
  pc, cur,        \* per thread: where it is, and with which task
  accepted,       \* the tasks pushed, in order
  taken,          \* the tasks taken, in order
  ran             \* the tasks that have run

vars == <<running, queue, pc, cur, accepted, taken, ran>>

Init ==
  /\ running = FALSE /\ queue = <<>>
  /\ pc = [t \in Threads |-> IF t \in Workers THEN "off" ELSE "idle"]
  /\ cur = [t \in Threads |-> NoTask]
  /\ accepted = <<>> /\ taken = <<>> /\ ran = {}

At(S, p) == {t \in S : pc[t] = p}

\* isFull()
IsFull == MaxQueue > 0 /\ Len(queue) >= MaxQueue

\* Thread t goes to p; notify() wakes one of W, if there is one, which goes
\* on at w.
GoAndNotify(t, p, W, w) ==
  \/ W = {} /\ pc' = [pc EXCEPT ![t] = p]
  \/ \E s \in W : pc' = [pc EXCEPT ![t] = p, ![s] = w]

\* Mutation: notify only when the queue was empty.
PushNotifyFirst(p, x) ==
  /\ queue' = Append(queue, x)
  /\ accepted' = Append(accepted, x)
  /\ GoAndNotify(p, "idle", IF queue = <<>> THEN At(Workers, "emptyWait") ELSE {}, "take")

\* push_back, notEmpty_.notify(), and the call returns
Push(p, x) ==
  /\ queue' = Append(queue, x)
  /\ accepted' = Append(accepted, x)
  /\ GoAndNotify(p, "idle", At(Workers, "emptyWait"), "take")

\* start(): the workers exist and running_ is set.
Start ==
  /\ pc[Owner] = "idle"
  /\ running' = TRUE
  /\ pc' = [t \in Threads |-> IF t \in Workers THEN "check"
                              ELSE IF t = Owner THEN "started" ELSE pc[t]]
  /\ UNCHANGED <<queue, cur, accepted, taken, ran>>

\* run(x): waits while the queue is full
Run(p, x) ==
  /\ pc[Owner] # "idle" /\ pc[p] = "idle"
  /\ x \notin {cur[t] : t \in Threads} /\ \A k \in 1 .. Len(accepted) : accepted[k] # x
  /\ IF IsFull
       THEN /\ pc' = [pc EXCEPT ![p] = "fullWait"]
            /\ cur' = [cur EXCEPT ![p] = x]
            /\ UNCHANGED <<queue, accepted>>
       ELSE Push(p, x) /\ UNCHANGED cur
  /\ UNCHANGED <<running, taken, ran>>

\* run(x) after notFull_.wait(): the loop looks again
RunAgain(p) ==
  /\ pc[p] = "again"
  /\ IF IsFull
       THEN /\ pc' = [pc EXCEPT ![p] = "fullWait"]
            /\ UNCHANGED <<queue, accepted, cur>>
       ELSE Push(p, cur[p]) /\ cur' = [cur EXCEPT ![p] = NoTask]
  /\ UNCHANGED <<running, taken, ran>>

\* TryRun(x) with room; without, it returns false and changes nothing
TryRun(p, x) ==
  /\ pc[Owner] # "idle" /\ pc[p] = "idle"
  /\ x \notin {cur[t] : t \in Threads} /\ \A k \in 1 .. Len(accepted) : accepted[k] # x
  /\ ~IsFull
  /\ Push(p, x)
  /\ UNCHANGED <<running, cur, taken, ran>>

\* runInThread: while(running_), read without the mutex
Check(w) ==
  /\ pc[w] = "check"
  /\ pc' = [pc EXCEPT ![w] = IF running THEN "take" ELSE "done"]
  /\ UNCHANGED <<running, queue, cur, accepted, taken, ran>>

\* Mutation: take() without notFull_.notify().
TakeNoNotify(w) ==
  /\ pc[w] = "take" /\ queue # <<>>
  /\ queue' = Tail(queue)
  /\ taken' = Append(taken, Head(queue))
  /\ cur' = [cur EXCEPT ![w] = Head(queue)]
  /\ pc' = [pc EXCEPT ![w] = "exec"]
  /\ UNCHANGED <<running, accepted, ran>>

\* take(): the first task, and one caller that waits for room wakes
Take(w) ==
  /\ pc[w] = "take" /\ queue # <<>>
  /\ queue' = Tail(queue)
  /\ taken' = Append(taken, Head(queue))
  /\ cur' = [cur EXCEPT ![w] = Head(queue)]
  /\ GoAndNotify(w, "exec", IF MaxQueue > 0 THEN At(Producers, "fullWait") ELSE {}, "again")
  /\ UNCHANGED <<running, accepted, ran>>

\* Mutation: take() waits whether or not the pool is running.
TakeNothingWaits(w) ==
  /\ pc[w] = "take" /\ queue = <<>>
  /\ pc' = [pc EXCEPT ![w] = "emptyWait"]
  /\ UNCHANGED <<running, queue, cur, accepted, taken, ran>>

\* take() with an empty queue: wait while the pool runs, else an empty task
TakeNothing(w) ==
  /\ pc[w] = "take" /\ queue = <<>>
  /\ pc' = [pc EXCEPT ![w] = IF running THEN "emptyWait" ELSE "check"]
  /\ UNCHANGED <<running, queue, cur, accepted, taken, ran>>

\* task()
Exec(w) ==
  /\ pc[w] = "exec"
  /\ ran' = ran \cup {cur[w]}
  /\ cur' = [cur EXCEPT ![w] = NoTask]
  /\ pc' = [pc EXCEPT ![w] = "check"]
  /\ UNCHANGED <<running, queue, accepted, taken>>

\* stop(): under the mutex running_ is cleared and every worker woken ...
Stop ==
  /\ pc[Owner] = "started"
  /\ running' = FALSE
  /\ pc' = [t \in Threads |-> IF t = Owner THEN "join"
                              ELSE IF pc[t] = "emptyWait" THEN "take" ELSE pc[t]]
  /\ UNCHANGED <<queue, cur, accepted, taken, ran>>

\* Mutation: stop() does not join.
JoinNone ==
  /\ pc[Owner] = "join"
  /\ pc' = [pc EXCEPT ![Owner] = "stopped"]
  /\ UNCHANGED <<running, queue, cur, accepted, taken, ran>>

\* ... and joined.
Join ==
  /\ pc[Owner] = "join" /\ At(Workers, "done") = Workers
  /\ pc' = [pc EXCEPT ![Owner] = "stopped"]
  /\ UNCHANGED <<running, queue, cur, accepted, taken, ran>>

\* pthread_cond_wait may return without a notify.
WakeUnasked(t) ==
  /\ pc[t] \in {"emptyWait", "fullWait"}
  /\ pc' = [pc EXCEPT ![t] = IF @ = "emptyWait" THEN "take" ELSE "again"]
  /\ UNCHANGED <<running, queue, cur, accepted, taken, ran>>

WorkerStep(w) == Check(w) \/ Take(w) \/ TakeNothing(w) \/ Exec(w)

Next ==
  \/ Start \/ Stop \/ Join
  \/ \E p \in Producers : RunAgain(p) \/ \E x \in Tasks : Run(p, x) \/ TryRun(p, x)
  \/ \E w \in Workers : WorkerStep(w)
  \/ \E t \in Workers \cup Producers : WakeUnasked(t)

Spec == Init /\ [][Next]_vars

\* The operating system schedules every thread that can go on; tasks end.
Fairness ==
  /\ \A w \in Workers : WF_vars(WorkerStep(w))
  /\ \A p \in Producers : WF_vars(RunAgain(p))
  /\ WF_vars(Join)

FairSpec == Spec /\ Fairness

-----------------------------------------------------------------------------
(* Properties.                                                              *)

\* Every variable has its type.
TypeOK ==
  /\ running \in BOOLEAN
  /\ queue \in Seq(Tasks)
  /\ pc \in [Threads -> {"off", "idle", "started", "join", "stopped", "fullWait", "again",
                         "check", "take", "emptyWait", "exec", "done"}]
  /\ cur \in [Threads -> Tasks \cup {NoTask}]
  /\ accepted \in Seq(Tasks) /\ taken \in Seq(Tasks) /\ ran \subseteq Tasks

\* The pool is a queue: what take() has given out, followed by what is queued,
\* is what run and TryRun have taken in, in the same order; no task is lost,
\* made up or given to two workers.
FirstInFirstOut == taken \o queue = accepted

\* notEmpty_.notify() is never lost: while a worker sleeps, there is a worker
\* awake at take() for each task queued.
NoSleepingWorker ==
  At(Workers, "emptyWait") # {} => Len(queue) <= Cardinality(At(Workers, "take"))

\* notFull_.notify() is never lost: while a caller of run waits for room, there
\* is a caller awake for each free place.
NoSleepingProducer ==
  At(Producers, "fullWait") # {} => MaxQueue <= Len(queue) + Cardinality(At(Producers, "again"))

\* When stop() has returned, every task a worker took has run to its end, and
\* none will run later: the tasks still queued never run.
StopMeansQuiet ==
  pc[Owner] = "stopped" =>
    /\ ran = {taken[k] : k \in 1 .. Len(taken)}
    /\ At(Workers, "exec") = {} /\ At(Workers, "take") = {}

\* A task that was accepted runs, unless stop() is called.
TasksRun ==
  \A x \in Tasks : (\E k \in 1 .. Len(accepted) : accepted[k] = x)
                     ~> (x \in ran \/ pc[Owner] \in {"join", "stopped"})

\* stop() returns.
StopReturns == pc[Owner] = "join" ~> pc[Owner] = "stopped"

-----------------------------------------------------------------------------
(* The pool implements TaskQueue: a task is being done while a worker is    *)
(* between take() and the end of task(), and the pool is closed once stop() *)
(* has joined its threads.                                                  *)
Doing == [w \in Workers |-> IF pc[w] = "exec" THEN cur[w] ELSE NoTask]

Phase == CASE pc[Owner] = "idle" -> "new"
           [] pc[Owner] = "stopped" -> "closed"
           [] OTHER -> "open"

Queue == INSTANCE TaskQueue WITH phase <- Phase, waiting <- queue, doing <- Doing

\* Every behaviour of run, TryRun, take, stop and the workers is one of the
\* queue TaskQueue describes.
IsTaskQueue == Queue!Spec
=============================================================================
