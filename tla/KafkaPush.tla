----------------------------- MODULE KafkaPush -----------------------------
(***************************************************************************)
(* zookafka, ZooKfkTopicsPush: a kafka producer shared by threads that     *)
(* push, flush and add topics. Delivery callbacks run in whichever thread  *)
(* is inside rd_kafka_poll: a push that found the queue full, a flush, the *)
(* kfkDestroy that drains the queue (all under topicMapLock), and          *)
(* zookeeper's thread, which polls without the lock. librdkafka is         *)
(* modelled by what it promises: a message counts in outq_len from         *)
(* produce until its callback has returned.                                *)
(***************************************************************************)
EXTENDS Naturals, FiniteSets

CONSTANTS
  Users,          \* threads of the application
  Owner, Watcher, \* the thread that destroys; zookeeper's completion thread
  Topics, InitTopics, NoTopic, NoMsg, NoThread,
  QueueMax,       \* queueBuffMaxMess
  MaxCalls,       \* bound on the calls of each user
  MaxChanges,     \* bound on the changes of the brokers
  MayFail,        \* may rd_kafka_produce fail, the queue not being full
  QuietDestroy    \* is only push called, and no list of brokers come, in a kfkDestroy

ASSUME PushAssumption ==
  /\ InitTopics \subseteq Topics /\ NoTopic \notin Topics
  /\ Owner # Watcher /\ Owner \notin Users /\ Watcher \notin Users /\ IsFiniteSet(Users)
  /\ NoThread \notin Users \cup {Owner, Watcher} /\ NoMsg \notin Users \X Nat
  /\ {QueueMax, MaxCalls, MaxChanges} \subseteq Nat /\ QueueMax > 0
  /\ {MayFail, QuietDestroy} \subseteq BOOLEAN

Destroyers == {Owner, Watcher}
Threads == Users \cup Destroyers
Msgs == Users \X (1 .. MaxCalls)    \* the message of a user's n-th call

VARIABLES
  kfkt, topics, destroy,
  lock,       \* the thread that holds topicMapLock across steps, if any
  pc, arg,    \* per thread: where, with which topic
  size,       \* per thread: the queueSize of its bolckFlush
  calling,    \* per thread: the message whose callback it runs
  state,      \* per message: "new", "refused", "queued", "done" by kafka, "told"
  calls, changes,
  misuse      \* was librdkafka called, or still in a call, with the handle gone

vars == <<kfkt, topics, destroy, lock, pc, arg, size, calling, state, calls, changes, misuse>>

\* after zookInit and kfkInit
Init ==
  /\ kfkt = "open" /\ topics = InitTopics /\ destroy = 0 /\ lock = NoThread
  /\ pc = [t \in Threads |-> "idle"] /\ arg = [u \in Users |-> NoTopic]
  /\ size = [u \in Users |-> 0] /\ calling = [t \in Threads |-> NoMsg]
  /\ state = [m \in Msgs |-> "new"]
  /\ calls = [u \in Users |-> 0] /\ changes = 0 /\ misuse = FALSE

Go(t, p) == pc' = [pc EXCEPT ![t] = p]
Outq == {m \in Msgs : state[m] \in {"queued", "done"}}    \* rd_kafka_outq_len counts these
Mine(u) == <<u, calls[u]>>
Destroying == \E t \in Destroyers : pc[t] \in {"destroyLock", "drain", "closing", "destroyed"}
Forget(u) == arg' = [arg EXCEPT ![u] = NoTopic]
Uses == misuse' = (misuse \/ kfkt = "null")

-----------------------------------------------------------------------------
(* push: no topics at all is seen without the lock,                         *)
PushCall(u, x) ==
  /\ pc[u] = "idle" /\ calls[u] < MaxCalls
  /\ calls' = [calls EXCEPT ![u] = @ + 1]
  /\ IF topics = {}
       THEN state' = [state EXCEPT ![<<u, calls[u] + 1>>] = "refused"] /\ UNCHANGED <<pc, arg>>
       ELSE Go(u, "push") /\ arg' = [arg EXCEPT ![u] = x] /\ UNCHANGED state
  /\ UNCHANGED <<kfkt, topics, destroy, lock, size, calling, changes, misuse>>

\* the others with it
PushEnter(u) ==
  /\ pc[u] = "push" /\ lock = NoThread
  /\ IF destroy > 0 \/ arg[u] \notin topics
       THEN state' = [state EXCEPT ![Mine(u)] = "refused"] /\ Go(u, "idle") /\ UNCHANGED lock
       ELSE lock' = u /\ Go(u, "produce") /\ UNCHANGED state
  /\ Forget(u)
  /\ UNCHANGED <<kfkt, topics, destroy, size, calling, calls, changes, misuse>>

\* rd_kafka_produce takes the message, or fails,
Produce(u, s) ==
  /\ pc[u] = "produce"
  /\ \/ s = "queued" /\ Cardinality(Outq) < QueueMax
     \/ s = "refused" /\ MayFail
  /\ state' = [state EXCEPT ![Mine(u)] = s]
  /\ lock' = NoThread /\ Go(u, "idle")
  /\ Uses
  /\ UNCHANGED <<kfkt, topics, destroy, arg, size, calling, calls, changes>>

\* or its queue is full: bolckFlush(false), and once more
ProduceFull(u) ==
  /\ pc[u] = "produce" /\ Cardinality(Outq) >= QueueMax
  /\ Go(u, "pushFlush")
  /\ Uses
  /\ UNCHANGED <<kfkt, topics, destroy, lock, arg, size, calling, state, calls, changes>>

-----------------------------------------------------------------------------
(* bolckFlush of the application, with the lock, down to n or to a half     *)
FlushCall(u, n) ==
  /\ pc[u] = "idle" /\ calls[u] < MaxCalls
  /\ QuietDestroy => ~Destroying
  /\ calls' = [calls EXCEPT ![u] = @ + 1]
  /\ size' = [size EXCEPT ![u] = n]
  /\ Go(u, "flushLock")
  /\ UNCHANGED <<kfkt, topics, destroy, lock, arg, calling, state, changes, misuse>>

FlushEnter(u) ==
  /\ pc[u] = "flushLock" /\ lock = NoThread
  /\ lock' = u
  /\ Go(u, "flush")
  /\ UNCHANGED <<kfkt, topics, destroy, arg, size, calling, state, calls, changes, misuse>>

\* Mutation: the queue must get shorter than queueSize.
FlushEndShorter(u) ==
  /\ pc[u] \in {"wait", "pushWait"} /\ calling[u] = NoMsg
  /\ Cardinality(Outq) < size[u]
  /\ size' = [size EXCEPT ![u] = 0]
  /\ IF pc[u] = "pushWait"
       THEN Go(u, "produce") /\ UNCHANGED lock
       ELSE Go(u, "idle") /\ lock' = NoThread
  /\ UNCHANGED <<kfkt, topics, destroy, arg, calling, state, calls, changes, misuse>>

\* half of the queue as it is now, when no size was given,
FlushSize(u) ==
  /\ pc[u] \in {"flush", "pushFlush"}
  /\ size' = [size EXCEPT ![u] = IF @ = 0 THEN Cardinality(Outq) \div 2 ELSE @]
  /\ Go(u, IF pc[u] = "flush" THEN "wait" ELSE "pushWait")
  /\ Uses
  /\ UNCHANGED <<kfkt, topics, destroy, lock, arg, calling, state, calls, changes>>

\* then polls until no more are left
FlushEnd(u) ==
  /\ pc[u] \in {"wait", "pushWait"} /\ calling[u] = NoMsg
  /\ Cardinality(Outq) <= size[u]
  /\ size' = [size EXCEPT ![u] = 0]
  /\ IF pc[u] = "pushWait"
       THEN Go(u, "produce") /\ UNCHANGED lock
       ELSE Go(u, "idle") /\ lock' = NoThread
  /\ UNCHANGED <<kfkt, topics, destroy, arg, calling, state, calls, changes, misuse>>

-----------------------------------------------------------------------------
(* producerAddTopic: the handle without the lock, the map with it           *)
AddTopic(u, x) ==
  /\ pc[u] = "idle" /\ calls[u] < MaxCalls
  /\ QuietDestroy => ~Destroying
  /\ calls' = [calls EXCEPT ![u] = @ + 1]
  /\ arg' = [arg EXCEPT ![u] = x]
  /\ Go(u, "add")
  /\ Uses
  /\ UNCHANGED <<kfkt, topics, destroy, lock, size, calling, state, changes>>

AddInsert(u) ==
  /\ pc[u] = "add" /\ lock = NoThread
  /\ topics' = topics \cup {arg[u]}
  /\ Go(u, "idle") /\ Forget(u)
  /\ UNCHANGED <<kfkt, destroy, lock, size, calling, state, calls, changes, misuse>>

-----------------------------------------------------------------------------
(* rd_kafka_poll and msgDelivered                                           *)

\* kafka has written a message or given it up
Deliver(m) ==
  /\ state[m] = "queued"
  /\ state' = [state EXCEPT ![m] = "done"]
  /\ UNCHANGED <<kfkt, topics, destroy, lock, pc, arg, size, calling, calls, changes, misuse>>

Polling(t) == pc[t] \in {"wait", "pushWait", "drain", "watchPoll"}

\* a thread that polls runs wcb_, and for a failure cb_,
CallbackStart(t, m) ==
  /\ Polling(t) /\ calling[t] = NoMsg
  /\ pc[t] \in {"wait", "pushWait"} => Cardinality(Outq) > size[t]
  /\ state[m] = "done" /\ \A r \in Threads : calling[r] # m
  /\ calling' = [calling EXCEPT ![t] = m]
  /\ UNCHANGED <<kfkt, topics, destroy, lock, pc, arg, size, state, calls, changes, misuse>>

CallbackEnd(t) ==
  /\ calling[t] # NoMsg
  /\ state' = [state EXCEPT ![calling[t]] = "told"]
  /\ calling' = [calling EXCEPT ![t] = NoMsg]
  /\ UNCHANGED <<kfkt, topics, destroy, lock, pc, arg, size, calls, changes, misuse>>

-----------------------------------------------------------------------------
(* watcher() and changeKafkaBrokers, without the lock: brokers are added and *)
(* the handle polled once, or all is destroyed                               *)
ChangeKafkaBrokers(leave) ==
  /\ pc[Watcher] = "idle" /\ changes < MaxChanges /\ pc[Owner] # "destroyed"
  /\ QuietDestroy => pc[Owner] \notin {"destroyLock", "drain", "closing"}
  /\ leave /\ QuietDestroy => \A u \in Users : pc[u] \notin {"flushLock", "flush", "add"}
  /\ changes' = changes + 1
  /\ IF leave
       THEN destroy' = 1 /\ Go(Watcher, "destroyLock") /\ UNCHANGED misuse
       ELSE Uses /\ Go(Watcher, "watchPoll") /\ UNCHANGED destroy
  /\ UNCHANGED <<kfkt, topics, lock, arg, size, calling, state, calls>>

WatchPollEnd ==
  /\ pc[Watcher] = "watchPoll" /\ calling[Watcher] = NoMsg
  /\ Go(Watcher, "idle")
  /\ Uses
  /\ UNCHANGED <<kfkt, topics, destroy, lock, arg, size, calling, state, calls, changes>>

-----------------------------------------------------------------------------
(* kfkDestroy: destroy is set before the lock is asked for;                 *)

DestroyCall ==
  /\ pc[Owner] = "idle"
  /\ QuietDestroy => /\ pc[Watcher] # "watchPoll"
                     /\ \A u \in Users : pc[u] \notin {"flushLock", "flush", "add"}
  /\ destroy' = 1
  /\ Go(Owner, "destroyLock")
  /\ UNCHANGED <<kfkt, topics, lock, arg, size, calling, state, calls, changes, misuse>>

\* Mutation: who comes second leaves without waiting for the lock.
DestroyEnterLeaves(t) ==
  /\ pc[t] = "destroyLock"
  /\ destroy' = destroy + 1
  /\ IF destroy + 1 > 2
       THEN Go(t, "destroyed") /\ UNCHANGED lock
       ELSE lock = NoThread /\ lock' = t /\ Go(t, "drain")
  /\ UNCHANGED <<kfkt, topics, arg, size, calling, state, calls, changes, misuse>>

\* one drains the queue
DestroyEnter(t) ==
  /\ pc[t] = "destroyLock" /\ lock = NoThread
  /\ destroy' = destroy + 1
  /\ IF destroy + 1 > 2
       THEN Go(t, "destroyed") /\ UNCHANGED lock
       ELSE lock' = t /\ Go(t, "drain")
  /\ UNCHANGED <<kfkt, topics, arg, size, calling, state, calls, changes, misuse>>

\* Mutation: only what kafka has not answered yet is waited for.
DestroyCloseEarly(t) ==
  /\ pc[t] = "drain" /\ calling[t] = NoMsg
  /\ \A m \in Msgs : state[m] # "queued"
  /\ topics' = {} /\ kfkt' = "null"
  /\ Go(t, "closing")
  /\ UNCHANGED <<destroy, lock, arg, size, calling, state, calls, changes, misuse>>

\* and closes librdkafka,
DestroyClose(t) ==
  /\ pc[t] = "drain" /\ calling[t] = NoMsg /\ Outq = {}
  /\ topics' = {} /\ kfkt' = "null"
  /\ Go(t, "closing")
  /\ UNCHANGED <<destroy, lock, arg, size, calling, state, calls, changes, misuse>>

\* then zookeeper_close, with the lock held, waits for the completion thread to end
\* the callback it is in (unless it is called there).
DestroyReturn(t) ==
  /\ pc[t] = "closing"
  /\ t = Watcher \/ pc[Watcher] \in {"idle", "destroyed"}
  /\ lock' = NoThread
  /\ Go(t, "destroyed")
  /\ UNCHANGED <<kfkt, topics, destroy, arg, size, calling, state, calls, changes, misuse>>

-----------------------------------------------------------------------------
UserStep(u) ==
  \/ PushEnter(u) \/ ProduceFull(u) \/ FlushEnter(u) \/ FlushSize(u) \/ FlushEnd(u) \/ AddInsert(u)
  \/ \E s \in {"queued", "refused"} : Produce(u, s)

PollStep(t) == CallbackEnd(t) \/ \E m \in Msgs : CallbackStart(t, m)

DestroyStep(t) == DestroyEnter(t) \/ DestroyClose(t) \/ DestroyReturn(t)

Next ==
  \/ \E u \in Users :
       \/ UserStep(u) \/ FlushCall(u, 0) \/ FlushCall(u, 1)
       \/ \E x \in Topics : PushCall(u, x) \/ AddTopic(u, x)
  \/ \E t \in Threads : PollStep(t)
  \/ \E m \in Msgs : Deliver(m)
  \/ \E leave \in BOOLEAN : ChangeKafkaBrokers(leave)
  \/ WatchPollEnd \/ DestroyCall
  \/ \E t \in Destroyers : DestroyStep(t)

Spec == Init /\ [][Next]_vars

\* Threads go on, and kafka answers each message in the end (or librdkafka gives
\* it up after its message.timeout.ms). Nobody has to call anything.
Fairness ==
  /\ \A u \in Users : WF_vars(UserStep(u))
  /\ \A t \in Threads : WF_vars(PollStep(t))
  /\ \A m \in Msgs : WF_vars(Deliver(m))
  /\ WF_vars(WatchPollEnd)
  /\ \A t \in Destroyers : WF_vars(DestroyStep(t))

FairSpec == Spec /\ Fairness

-----------------------------------------------------------------------------
(* Properties.                                                              *)

\* Every variable has its type; the queue never passes its limit.
TypeOK ==
  /\ kfkt \in {"open", "null"} /\ topics \subseteq Topics /\ destroy \in 0 .. 3
  /\ lock \in Threads \cup {NoThread}
  /\ pc \in [Threads -> {"idle", "push", "produce", "pushFlush", "pushWait", "flushLock", "flush",
                         "wait", "add", "watchPoll", "destroyLock", "drain", "closing",
                         "destroyed"}]
  /\ arg \in [Users -> Topics \cup {NoTopic}] /\ size \in [Users -> 0 .. QueueMax]
  /\ calling \in [Threads -> Msgs \cup {NoMsg}]
  /\ state \in [Msgs -> {"new", "refused", "queued", "done", "told"}]
  /\ calls \in [Users -> 0 .. MaxCalls] /\ changes \in 0 .. MaxChanges /\ misuse \in BOOLEAN
  /\ Cardinality(Outq) <= QueueMax

\* When any call of kfkDestroy has returned, every message that push took has had
\* its callback: who comes second must not return before the first is done.
DestroyMeansAllAnswered == (\E t \in Destroyers : pc[t] = "destroyed") => Outq = {}

(* The producer as a service: a message is asked for when rd_kafka_produce  *)
(* has taken it, and the producer is closed when a kfkDestroy has returned. *)
Asked == {m \in Msgs : state[m] \in {"queued", "done", "told"}}
InCallback == {m \in Msgs : \E t \in Threads : calling[t] = m}
Told == {m \in Msgs : state[m] = "told"}
Closed == \E t \in Destroyers : pc[t] = "destroyed"

Service == INSTANCE AnswerService WITH
  Requests <- Msgs, asked <- Asked, inCallback <- InCallback, told <- Told, closed <- Closed

\* Every behaviour of the pushes, the polls of all threads and the kfkDestroys is
\* one of the service AnswerService describes: each message push took has one
\* callback, in whichever thread polls, and when any call of kfkDestroy has
\* returned all have had theirs and none is taken any more.
IsAnswerService == Service!Spec

\* A callback never outlives the handle and the callbacks kfkDestroy clears, also
\* the one that zookeeper's thread runs while another thread drains the queue.
CallbackOnOpenHandle == \A t \in Threads : calling[t] # NoMsg => kfkt = "open"

\* librdkafka is never called, nor left in a call, with the handle gone. (Met only
\* if QuietDestroy: a flush, a new topic or a list of brokers may meet a kfkDestroy.)
HandleIsOpen == ~misuse

\* push, bolckFlush and producerAddTopic return: a full queue is emptied by the
\* push that met it, and kfkDestroy lets go of the lock, unless it waits for a
\* kfkDestroy in zookeeper's thread, which waits for the lock.
Deadlocked == pc[Owner] = "closing" /\ pc[Watcher] = "destroyLock"
CallsReturn == \A u \in Users : pc[u] # "idle" ~> (pc[u] = "idle" \/ Deadlocked)

\* All calls return, kfkDestroy too. (Not met: zookeeper_close waits for the
\* callback of zookeeper's thread with topicMapLock held.)
AllCallsReturn ==
  /\ \A u \in Users : pc[u] # "idle" ~> pc[u] = "idle"
  /\ \A t \in Destroyers : pc[t] = "destroyLock" ~> pc[t] = "destroyed"

\* A message push took has its callback in the end. (Not met: callbacks run in
\* polls only, and there is none before a full queue, a flush or the end.)
CallbacksCome == \A m \in Msgs : state[m] = "queued" ~> state[m] = "told"
=============================================================================
