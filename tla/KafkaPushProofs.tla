--------------------------- MODULE KafkaPushProofs ---------------------------
(***************************************************************************)
(* Proofs about KafkaPush, for any number of users, topics, calls and any  *)
(* limit of the queue: no kfkDestroy returns before every message that was *)
(* taken has had its callback, and no callback meets a closed handle.      *)
(***************************************************************************)
EXTENDS KafkaPush, FiniteSetTheorems, TLAPS

\* The types, without the numbers that need a finite queue.
TypeInv ==
  /\ kfkt \in {"open", "null"} /\ destroy \in Nat
  /\ lock \in Threads \cup {NoThread}
  /\ pc \in [Threads -> {"idle", "push", "produce", "pushFlush", "pushWait", "flushLock", "flush",
                         "wait", "add", "watchPoll", "destroyLock", "drain", "closing",
                         "destroyed"}]
  /\ calling \in [Threads -> Msgs \cup {NoMsg}]
  /\ state \in [Msgs -> {"new", "refused", "queued", "done", "told"}]
  /\ \A u \in Users : pc[u] \notin {"drain", "closing", "destroyed", "destroyLock"}

\* Who is past the lock has it.
LockInv ==
  \A t \in Threads :
    pc[t] \in {"produce", "pushFlush", "pushWait", "flush", "wait", "drain", "closing"} => lock = t

\* A push past the lock came before the first kfkDestroy, and holds the next one up.
OpenInv ==
  /\ kfkt = "null" => destroy > 0 /\ Outq = {}
  /\ \A u \in Users : pc[u] \in {"produce", "pushFlush", "pushWait"} => kfkt = "open"

\* destroy is above 1 only when the first is closing or done, for all that the
\* others set it back to 1.
ClosedInv ==
  /\ destroy > 1 => kfkt = "null" \/ \E t \in Destroyers : pc[t] = "drain"
  /\ \A t \in Destroyers : pc[t] \in {"closing", "destroyed"} => kfkt = "null"
  /\ \A t \in Destroyers : pc[t] \in {"destroyLock", "drain"} => destroy > 0

\* A message whose callback runs still counts in the queue.
CallInv == \A t \in Threads : calling[t] # NoMsg => state[calling[t]] = "done"

\* and runs in one thread
OneCallInv == \A t, r \in Threads : calling[t] = calling[r] /\ calling[t] # NoMsg => t = r

\* The message of a call that is to come, or has not produced yet, is new.
FreshInv ==
  /\ calls \in [Users -> 0 .. MaxCalls]
  /\ \A u \in Users, n \in 1 .. MaxCalls : n > calls[u] => state[<<u, n>>] = "new"
  /\ \A u \in Users : pc[u] \in {"push", "produce", "pushFlush", "pushWait"}
                        => calls[u] > 0 /\ state[Mine(u)] = "new"

IInv == TypeInv /\ LockInv /\ OpenInv /\ ClosedInv /\ CallInv /\ OneCallInv /\ FreshInv

\* IInv is preserved by every step.
LEMMA Inductive == IInv /\ [Next]_vars => IInv'
<1> SUFFICES ASSUME IInv, [Next]_vars PROVE IInv'
  OBVIOUS
<1> USE PushAssumption DEF Threads, Destroyers
<1>0. CASE UNCHANGED vars
  BY <1>0 DEF vars, IInv, TypeInv, LockInv, OpenInv, ClosedInv, CallInv, OneCallInv, FreshInv, Outq, Mine, Msgs
<1>1. ASSUME NEW u \in Users, NEW x \in Topics, PushCall(u, x)
       PROVE  IInv'
  <2>1. TypeInv'
    BY <1>1 DEF PushCall, IInv, TypeInv, Go
  <2>2. LockInv'
    BY <1>1 DEF PushCall, IInv, TypeInv, LockInv, Go
  <2>3. OpenInv'
    BY <1>1 DEF PushCall, IInv, TypeInv, LockInv, OpenInv, ClosedInv, Outq, Go
  <2>4. ClosedInv'
    BY <1>1 DEF PushCall, IInv, TypeInv, LockInv, OpenInv, ClosedInv, Go
  <2>5. CallInv'
    BY <1>1 DEF PushCall, IInv, TypeInv, CallInv, OneCallInv, FreshInv, Mine, Msgs
  <2>6. OneCallInv'
    BY <1>1 DEF PushCall, IInv, TypeInv, OneCallInv
  <2>7. FreshInv'
    BY <1>1 DEF PushCall, IInv, TypeInv, CallInv, FreshInv, Mine, Msgs, Go
  <2> QED BY <2>1, <2>2, <2>3, <2>4, <2>5, <2>6, <2>7 DEF IInv
<1>2. ASSUME NEW u \in Users, PushEnter(u)
       PROVE  IInv'
  <2>1. TypeInv'
    BY <1>2 DEF PushEnter, IInv, TypeInv, Go
  <2>2. LockInv'
    BY <1>2 DEF PushEnter, IInv, TypeInv, LockInv, Go
  <2>3. OpenInv'
    BY <1>2 DEF PushEnter, IInv, TypeInv, LockInv, OpenInv, ClosedInv, Outq, Go
  <2>4. ClosedInv'
    BY <1>2 DEF PushEnter, IInv, TypeInv, LockInv, OpenInv, ClosedInv, Go
  <2>5. CallInv'
    BY <1>2 DEF PushEnter, IInv, TypeInv, CallInv, OneCallInv, FreshInv, Mine, Msgs
  <2>6. OneCallInv'
    BY <1>2 DEF PushEnter, IInv, TypeInv, OneCallInv
  <2>7. FreshInv'
    BY <1>2 DEF PushEnter, IInv, TypeInv, CallInv, FreshInv, Mine, Msgs, Go
  <2> QED BY <2>1, <2>2, <2>3, <2>4, <2>5, <2>6, <2>7 DEF IInv
<1>3. ASSUME NEW u \in Users, NEW s \in {"queued", "refused"}, Produce(u, s)
       PROVE  IInv'
  <2>1. TypeInv'
    BY <1>3 DEF Produce, IInv, TypeInv, Go
  <2>2. LockInv'
    BY <1>3 DEF Produce, IInv, TypeInv, LockInv, Go
  <2>3. OpenInv'
    BY <1>3 DEF Produce, IInv, TypeInv, LockInv, OpenInv, ClosedInv, Outq, Go
  <2>4. ClosedInv'
    BY <1>3 DEF Produce, IInv, TypeInv, LockInv, OpenInv, ClosedInv, Go
  <2>5. CallInv'
    BY <1>3 DEF Produce, IInv, TypeInv, CallInv, OneCallInv, FreshInv, Mine, Msgs
  <2>6. OneCallInv'
    BY <1>3 DEF Produce, IInv, TypeInv, OneCallInv
  <2>7. FreshInv'
    BY <1>3 DEF Produce, IInv, TypeInv, CallInv, FreshInv, Mine, Msgs, Go
  <2> QED BY <2>1, <2>2, <2>3, <2>4, <2>5, <2>6, <2>7 DEF IInv
<1>4. ASSUME NEW u \in Users, ProduceFull(u)
       PROVE  IInv'
  <2>1. TypeInv'
    BY <1>4 DEF ProduceFull, IInv, TypeInv, Go
  <2>2. LockInv'
    BY <1>4 DEF ProduceFull, IInv, TypeInv, LockInv, Go
  <2>3. OpenInv'
    BY <1>4 DEF ProduceFull, IInv, TypeInv, LockInv, OpenInv, ClosedInv, Outq, Go
  <2>4. ClosedInv'
    BY <1>4 DEF ProduceFull, IInv, TypeInv, LockInv, OpenInv, ClosedInv, Go
  <2>5. CallInv'
    BY <1>4 DEF ProduceFull, IInv, TypeInv, CallInv, OneCallInv, FreshInv, Mine, Msgs
  <2>6. OneCallInv'
    BY <1>4 DEF ProduceFull, IInv, TypeInv, OneCallInv
  <2>7. FreshInv'
    BY <1>4 DEF ProduceFull, IInv, TypeInv, CallInv, FreshInv, Mine, Msgs, Go
  <2> QED BY <2>1, <2>2, <2>3, <2>4, <2>5, <2>6, <2>7 DEF IInv
<1>5. ASSUME NEW u \in Users, NEW n \in {0, 1}, FlushCall(u, n)
       PROVE  IInv'
  <2>1. TypeInv'
    BY <1>5 DEF FlushCall, IInv, TypeInv, Go
  <2>2. LockInv'
    BY <1>5 DEF FlushCall, IInv, TypeInv, LockInv, Go
  <2>3. OpenInv'
    BY <1>5 DEF FlushCall, IInv, TypeInv, LockInv, OpenInv, ClosedInv, Outq, Go
  <2>4. ClosedInv'
    BY <1>5 DEF FlushCall, IInv, TypeInv, LockInv, OpenInv, ClosedInv, Go
  <2>5. CallInv'
    BY <1>5 DEF FlushCall, IInv, TypeInv, CallInv, OneCallInv, FreshInv, Mine, Msgs
  <2>6. OneCallInv'
    BY <1>5 DEF FlushCall, IInv, TypeInv, OneCallInv
  <2>7. FreshInv'
    BY <1>5 DEF FlushCall, IInv, TypeInv, CallInv, FreshInv, Mine, Msgs, Go
  <2> QED BY <2>1, <2>2, <2>3, <2>4, <2>5, <2>6, <2>7 DEF IInv
<1>6. ASSUME NEW u \in Users, FlushEnter(u)
       PROVE  IInv'
  <2>1. TypeInv'
    BY <1>6 DEF FlushEnter, IInv, TypeInv, Go
  <2>2. LockInv'
    BY <1>6 DEF FlushEnter, IInv, TypeInv, LockInv, Go
  <2>3. OpenInv'
    BY <1>6 DEF FlushEnter, IInv, TypeInv, LockInv, OpenInv, ClosedInv, Outq, Go
  <2>4. ClosedInv'
    BY <1>6 DEF FlushEnter, IInv, TypeInv, LockInv, OpenInv, ClosedInv, Go
  <2>5. CallInv'
    BY <1>6 DEF FlushEnter, IInv, TypeInv, CallInv, OneCallInv, FreshInv, Mine, Msgs
  <2>6. OneCallInv'
    BY <1>6 DEF FlushEnter, IInv, TypeInv, OneCallInv
  <2>7. FreshInv'
    BY <1>6 DEF FlushEnter, IInv, TypeInv, CallInv, FreshInv, Mine, Msgs, Go
  <2> QED BY <2>1, <2>2, <2>3, <2>4, <2>5, <2>6, <2>7 DEF IInv
<1>7. ASSUME NEW u \in Users, FlushSize(u)
       PROVE  IInv'
  <2>1. TypeInv'
    BY <1>7 DEF FlushSize, IInv, TypeInv, Go
  <2>2. LockInv'
    BY <1>7 DEF FlushSize, IInv, TypeInv, LockInv, Go
  <2>3. OpenInv'
    BY <1>7 DEF FlushSize, IInv, TypeInv, LockInv, OpenInv, ClosedInv, Outq, Go
  <2>4. ClosedInv'
    BY <1>7 DEF FlushSize, IInv, TypeInv, LockInv, OpenInv, ClosedInv, Go
  <2>5. CallInv'
    BY <1>7 DEF FlushSize, IInv, TypeInv, CallInv, OneCallInv, FreshInv, Mine, Msgs
  <2>6. OneCallInv'
    BY <1>7 DEF FlushSize, IInv, TypeInv, OneCallInv
  <2>7. FreshInv'
    BY <1>7 DEF FlushSize, IInv, TypeInv, CallInv, FreshInv, Mine, Msgs, Go
  <2> QED BY <2>1, <2>2, <2>3, <2>4, <2>5, <2>6, <2>7 DEF IInv
<1>8. ASSUME NEW u \in Users, FlushEnd(u)
       PROVE  IInv'
  <2>1. TypeInv'
    BY <1>8 DEF FlushEnd, IInv, TypeInv, Go
  <2>2. LockInv'
    BY <1>8 DEF FlushEnd, IInv, TypeInv, LockInv, Go
  <2>3. OpenInv'
    BY <1>8 DEF FlushEnd, IInv, TypeInv, LockInv, OpenInv, ClosedInv, Outq, Go
  <2>4. ClosedInv'
    BY <1>8 DEF FlushEnd, IInv, TypeInv, LockInv, OpenInv, ClosedInv, Go
  <2>5. CallInv'
    BY <1>8 DEF FlushEnd, IInv, TypeInv, CallInv, OneCallInv, FreshInv, Mine, Msgs
  <2>6. OneCallInv'
    BY <1>8 DEF FlushEnd, IInv, TypeInv, OneCallInv
  <2>7. FreshInv'
    BY <1>8 DEF FlushEnd, IInv, TypeInv, CallInv, FreshInv, Mine, Msgs, Go
  <2> QED BY <2>1, <2>2, <2>3, <2>4, <2>5, <2>6, <2>7 DEF IInv
<1>9. ASSUME NEW u \in Users, NEW x \in Topics, AddTopic(u, x)
       PROVE  IInv'
  <2>1. TypeInv'
    BY <1>9 DEF AddTopic, IInv, TypeInv, Go
  <2>2. LockInv'
    BY <1>9 DEF AddTopic, IInv, TypeInv, LockInv, Go
  <2>3. OpenInv'
    BY <1>9 DEF AddTopic, IInv, TypeInv, LockInv, OpenInv, ClosedInv, Outq, Go
  <2>4. ClosedInv'
    BY <1>9 DEF AddTopic, IInv, TypeInv, LockInv, OpenInv, ClosedInv, Go
  <2>5. CallInv'
    BY <1>9 DEF AddTopic, IInv, TypeInv, CallInv, OneCallInv, FreshInv, Mine, Msgs
  <2>6. OneCallInv'
    BY <1>9 DEF AddTopic, IInv, TypeInv, OneCallInv
  <2>7. FreshInv'
    BY <1>9 DEF AddTopic, IInv, TypeInv, CallInv, FreshInv, Mine, Msgs, Go
  <2> QED BY <2>1, <2>2, <2>3, <2>4, <2>5, <2>6, <2>7 DEF IInv
<1>10. ASSUME NEW u \in Users, AddInsert(u)
       PROVE  IInv'
  <2>1. TypeInv'
    BY <1>10 DEF AddInsert, IInv, TypeInv, Go
  <2>2. LockInv'
    BY <1>10 DEF AddInsert, IInv, TypeInv, LockInv, Go
  <2>3. OpenInv'
    BY <1>10 DEF AddInsert, IInv, TypeInv, LockInv, OpenInv, ClosedInv, Outq, Go
  <2>4. ClosedInv'
    BY <1>10 DEF AddInsert, IInv, TypeInv, LockInv, OpenInv, ClosedInv, Go
  <2>5. CallInv'
    BY <1>10 DEF AddInsert, IInv, TypeInv, CallInv, OneCallInv, FreshInv, Mine, Msgs
  <2>6. OneCallInv'
    BY <1>10 DEF AddInsert, IInv, TypeInv, OneCallInv
  <2>7. FreshInv'
    BY <1>10 DEF AddInsert, IInv, TypeInv, CallInv, FreshInv, Mine, Msgs, Go
  <2> QED BY <2>1, <2>2, <2>3, <2>4, <2>5, <2>6, <2>7 DEF IInv
<1>11. ASSUME NEW m \in Msgs, Deliver(m)
       PROVE  IInv'
  <2>1. TypeInv'
    BY <1>11 DEF Deliver, IInv, TypeInv, Go
  <2>2. LockInv'
    BY <1>11 DEF Deliver, IInv, TypeInv, LockInv, Go
  <2>3. OpenInv'
    BY <1>11 DEF Deliver, IInv, TypeInv, LockInv, OpenInv, ClosedInv, Outq, Go
  <2>4. ClosedInv'
    BY <1>11 DEF Deliver, IInv, TypeInv, LockInv, OpenInv, ClosedInv, Go
  <2>5. CallInv'
    BY <1>11 DEF Deliver, IInv, TypeInv, CallInv, OneCallInv, FreshInv, Mine, Msgs
  <2>6. OneCallInv'
    BY <1>11 DEF Deliver, IInv, TypeInv, OneCallInv
  <2>7. FreshInv'
    BY <1>11 DEF Deliver, IInv, TypeInv, CallInv, FreshInv, Mine, Msgs, Go
  <2> QED BY <2>1, <2>2, <2>3, <2>4, <2>5, <2>6, <2>7 DEF IInv
<1>12. ASSUME NEW t \in Threads, NEW m \in Msgs, CallbackStart(t, m)
       PROVE  IInv'
  <2>1. TypeInv'
    BY <1>12 DEF CallbackStart, IInv, TypeInv, Go
  <2>2. LockInv'
    BY <1>12 DEF CallbackStart, IInv, TypeInv, LockInv, Go
  <2>3. OpenInv'
    BY <1>12 DEF CallbackStart, IInv, TypeInv, LockInv, OpenInv, ClosedInv, Outq, Go
  <2>4. ClosedInv'
    BY <1>12 DEF CallbackStart, IInv, TypeInv, LockInv, OpenInv, ClosedInv, Go
  <2>5. CallInv'
    BY <1>12 DEF CallbackStart, IInv, TypeInv, CallInv, OneCallInv, FreshInv, Mine, Msgs
  <2>6. OneCallInv'
    BY <1>12 DEF CallbackStart, IInv, TypeInv, OneCallInv
  <2>7. FreshInv'
    BY <1>12 DEF CallbackStart, IInv, TypeInv, CallInv, FreshInv, Mine, Msgs, Go
  <2> QED BY <2>1, <2>2, <2>3, <2>4, <2>5, <2>6, <2>7 DEF IInv
<1>13. ASSUME NEW t \in Threads, CallbackEnd(t)
       PROVE  IInv'
  <2>1. TypeInv'
    BY <1>13 DEF CallbackEnd, IInv, TypeInv, Go
  <2>2. LockInv'
    BY <1>13 DEF CallbackEnd, IInv, TypeInv, LockInv, Go
  <2>3. OpenInv'
    BY <1>13 DEF CallbackEnd, IInv, TypeInv, LockInv, OpenInv, ClosedInv, Outq, Go
  <2>4. ClosedInv'
    BY <1>13 DEF CallbackEnd, IInv, TypeInv, LockInv, OpenInv, ClosedInv, Go
  <2>5. CallInv'
    BY <1>13 DEF CallbackEnd, IInv, TypeInv, CallInv, OneCallInv, FreshInv, Mine, Msgs
  <2>6. OneCallInv'
    BY <1>13 DEF CallbackEnd, IInv, TypeInv, OneCallInv
  <2>7. FreshInv'
    BY <1>13 DEF CallbackEnd, IInv, TypeInv, CallInv, FreshInv, Mine, Msgs, Go
  <2> QED BY <2>1, <2>2, <2>3, <2>4, <2>5, <2>6, <2>7 DEF IInv
<1>14. ASSUME NEW leave \in BOOLEAN, ChangeKafkaBrokers(leave)
       PROVE  IInv'
  <2>1. TypeInv'
    BY <1>14 DEF ChangeKafkaBrokers, IInv, TypeInv, Go
  <2>2. LockInv'
    BY <1>14 DEF ChangeKafkaBrokers, IInv, TypeInv, LockInv, Go
  <2>3. OpenInv'
    BY <1>14 DEF ChangeKafkaBrokers, IInv, TypeInv, LockInv, OpenInv, ClosedInv, Outq, Go
  <2>4. ClosedInv'
    BY <1>14 DEF ChangeKafkaBrokers, IInv, TypeInv, LockInv, OpenInv, ClosedInv, Go
  <2>5. CallInv'
    BY <1>14 DEF ChangeKafkaBrokers, IInv, TypeInv, CallInv, OneCallInv, FreshInv, Mine, Msgs
  <2>6. OneCallInv'
    BY <1>14 DEF ChangeKafkaBrokers, IInv, TypeInv, OneCallInv
  <2>7. FreshInv'
    BY <1>14 DEF ChangeKafkaBrokers, IInv, TypeInv, CallInv, FreshInv, Mine, Msgs, Go
  <2> QED BY <2>1, <2>2, <2>3, <2>4, <2>5, <2>6, <2>7 DEF IInv
<1>15. CASE WatchPollEnd
  <2>1. TypeInv'
    BY <1>15 DEF WatchPollEnd, IInv, TypeInv, Go
  <2>2. LockInv'
    BY <1>15 DEF WatchPollEnd, IInv, TypeInv, LockInv, Go
  <2>3. OpenInv'
    BY <1>15 DEF WatchPollEnd, IInv, TypeInv, LockInv, OpenInv, ClosedInv, Outq, Go
  <2>4. ClosedInv'
    BY <1>15 DEF WatchPollEnd, IInv, TypeInv, LockInv, OpenInv, ClosedInv, Go
  <2>5. CallInv'
    BY <1>15 DEF WatchPollEnd, IInv, TypeInv, CallInv, OneCallInv, FreshInv, Mine, Msgs
  <2>6. OneCallInv'
    BY <1>15 DEF WatchPollEnd, IInv, TypeInv, OneCallInv
  <2>7. FreshInv'
    BY <1>15 DEF WatchPollEnd, IInv, TypeInv, CallInv, FreshInv, Mine, Msgs, Go
  <2> QED BY <2>1, <2>2, <2>3, <2>4, <2>5, <2>6, <2>7 DEF IInv
<1>16. CASE DestroyCall
  <2>1. TypeInv'
    BY <1>16 DEF DestroyCall, IInv, TypeInv, Go
  <2>2. LockInv'
    BY <1>16 DEF DestroyCall, IInv, TypeInv, LockInv, Go
  <2>3. OpenInv'
    BY <1>16 DEF DestroyCall, IInv, TypeInv, LockInv, OpenInv, ClosedInv, Outq, Go
  <2>4. ClosedInv'
    BY <1>16 DEF DestroyCall, IInv, TypeInv, LockInv, OpenInv, ClosedInv, Go
  <2>5. CallInv'
    BY <1>16 DEF DestroyCall, IInv, TypeInv, CallInv, OneCallInv, FreshInv, Mine, Msgs
  <2>6. OneCallInv'
    BY <1>16 DEF DestroyCall, IInv, TypeInv, OneCallInv
  <2>7. FreshInv'
    BY <1>16 DEF DestroyCall, IInv, TypeInv, CallInv, FreshInv, Mine, Msgs, Go
  <2> QED BY <2>1, <2>2, <2>3, <2>4, <2>5, <2>6, <2>7 DEF IInv
<1>17. ASSUME NEW t \in Destroyers, DestroyEnter(t)
       PROVE  IInv'
  <2>1. TypeInv'
    BY <1>17 DEF DestroyEnter, IInv, TypeInv, Go
  <2>2. LockInv'
    BY <1>17 DEF DestroyEnter, IInv, TypeInv, LockInv, Go
  <2>3. OpenInv'
    BY <1>17 DEF DestroyEnter, IInv, TypeInv, LockInv, OpenInv, ClosedInv, Outq, Go
  <2>4. ClosedInv'
    BY <1>17 DEF DestroyEnter, IInv, TypeInv, LockInv, OpenInv, ClosedInv, Go
  <2>5. CallInv'
    BY <1>17 DEF DestroyEnter, IInv, TypeInv, CallInv, OneCallInv, FreshInv, Mine, Msgs
  <2>6. OneCallInv'
    BY <1>17 DEF DestroyEnter, IInv, TypeInv, OneCallInv
  <2>7. FreshInv'
    BY <1>17 DEF DestroyEnter, IInv, TypeInv, CallInv, FreshInv, Mine, Msgs, Go
  <2> QED BY <2>1, <2>2, <2>3, <2>4, <2>5, <2>6, <2>7 DEF IInv
<1>18. ASSUME NEW t \in Destroyers, DestroyClose(t)
       PROVE  IInv'
  <2>1. TypeInv'
    BY <1>18 DEF DestroyClose, IInv, TypeInv, Go
  <2>2. LockInv'
    BY <1>18 DEF DestroyClose, IInv, TypeInv, LockInv, Go
  <2>3. OpenInv'
    BY <1>18 DEF DestroyClose, IInv, TypeInv, LockInv, OpenInv, ClosedInv, Outq, Go
  <2>4. ClosedInv'
    BY <1>18 DEF DestroyClose, IInv, TypeInv, LockInv, OpenInv, ClosedInv, Go
  <2>5. CallInv'
    BY <1>18 DEF DestroyClose, IInv, TypeInv, CallInv, OneCallInv, FreshInv, Mine, Msgs
  <2>6. OneCallInv'
    BY <1>18 DEF DestroyClose, IInv, TypeInv, OneCallInv
  <2>7. FreshInv'
    BY <1>18 DEF DestroyClose, IInv, TypeInv, CallInv, FreshInv, Mine, Msgs, Go
  <2> QED BY <2>1, <2>2, <2>3, <2>4, <2>5, <2>6, <2>7 DEF IInv
<1>19. ASSUME NEW t \in Destroyers, DestroyReturn(t)
       PROVE  IInv'
  <2>1. TypeInv'
    BY <1>19 DEF DestroyReturn, IInv, TypeInv, Go
  <2>2. LockInv'
    BY <1>19 DEF DestroyReturn, IInv, TypeInv, LockInv, Go
  <2>3. OpenInv'
    BY <1>19 DEF DestroyReturn, IInv, TypeInv, LockInv, OpenInv, ClosedInv, Outq, Go
  <2>4. ClosedInv'
    BY <1>19 DEF DestroyReturn, IInv, TypeInv, LockInv, OpenInv, ClosedInv, Go
  <2>5. CallInv'
    BY <1>19 DEF DestroyReturn, IInv, TypeInv, CallInv, OneCallInv, FreshInv, Mine, Msgs
  <2>6. OneCallInv'
    BY <1>19 DEF DestroyReturn, IInv, TypeInv, OneCallInv
  <2>7. FreshInv'
    BY <1>19 DEF DestroyReturn, IInv, TypeInv, CallInv, FreshInv, Mine, Msgs, Go
  <2> QED BY <2>1, <2>2, <2>3, <2>4, <2>5, <2>6, <2>7 DEF IInv
<1> QED
  BY <1>0, <1>1, <1>2, <1>3, <1>4, <1>5, <1>6, <1>7, <1>8, <1>9,
     <1>10, <1>11, <1>12, <1>13, <1>14, <1>15, <1>16, <1>17, <1>18, <1>19
  DEF Next, UserStep, PollStep, DestroyStep

\* Every initial state satisfies IInv.
LEMMA Starts == Init => IInv
  BY PushAssumption DEF Init, IInv, TypeInv, LockInv, OpenInv, ClosedInv, CallInv, OneCallInv, FreshInv,
     Outq, Msgs, Mine, Threads, Destroyers

\* So IInv holds in every reachable state.
LEMMA AlwaysIInv == Spec => []IInv
  BY Starts, Inductive, PTL DEF Spec

\* kfkDestroy, in whichever thread and however often it is called, returns only
\* when every message that push took has had its callback (ZooKfkTopicsPush.cpp,
\* kfkDestroy and push).
THEOREM DestroyAnswersAll == Spec => []DestroyMeansAllAnswered
<1>1. IInv => DestroyMeansAllAnswered
  BY DEF IInv, OpenInv, ClosedInv, DestroyMeansAllAnswered
<1> QED
  BY <1>1, AlwaysIInv, PTL

\* No callback runs on a handle that kfkDestroy has closed, though zookeeper's
\* thread polls without the lock (ZooKfkTopicsPush.cpp, changeKafkaBrokers).
THEOREM CallbacksAreSafe == Spec => []CallbackOnOpenHandle
<1>1. IInv => CallbackOnOpenHandle
  <2> SUFFICES ASSUME IInv, NEW t \in Threads, calling[t] # NoMsg PROVE kfkt = "open"
    BY DEF CallbackOnOpenHandle
  <2>1. calling[t] \in Outq
    BY DEF IInv, TypeInv, CallInv, Outq
  <2> QED
    BY <2>1 DEF IInv, TypeInv, OpenInv
<1> QED
  BY <1>1, AlwaysIInv, PTL

-----------------------------------------------------------------------------
\* The rest of the types; the queue grows by one below its limit only.
NumInv ==
  /\ topics \subseteq Topics /\ arg \in [Users -> Topics \cup {NoTopic}]
  /\ size \in [Users -> 0 .. QueueMax] /\ changes \in 0 .. MaxChanges /\ misuse \in BOOLEAN
  /\ Cardinality(Outq) <= QueueMax
  /\ \A u \in Users : pc[u] = "add" => arg[u] \in Topics

\* destroy passes 1 by one for each thread that has been let in.
CountInv ==
  /\ destroy <= 3
  /\ destroy > 1 => \E t \in Destroyers : pc[t] \in {"drain", "closing", "destroyed"}
  /\ destroy > 2 => \A t \in Destroyers : pc[t] \in {"drain", "closing", "destroyed"}

\* The queue is finite, now and after the step.
LEMMA QueueIsFinite == /\ IsFiniteSet(Outq) /\ Cardinality(Outq) \in Nat
                       /\ IsFiniteSet(Outq') /\ Cardinality(Outq') \in Nat
<1>1. IsFiniteSet(Msgs)
  <2>1. 1 \in Int /\ MaxCalls \in Int
    BY PushAssumption
  <2>2. IsFiniteSet(1 .. MaxCalls)
    BY <2>1, FS_Interval
  <2> QED BY <2>2, PushAssumption, FS_Product DEF Msgs
<1>2. Outq \subseteq Msgs /\ Outq' \subseteq Msgs
  BY DEF Outq
<1> QED
  BY <1>1, <1>2, FS_Subset, FS_CardinalityType

\* The types of the rest are preserved by every step.
LEMMA NumbersInductive == IInv /\ NumInv /\ CountInv /\ [Next]_vars => NumInv' /\ CountInv'
<1> SUFFICES ASSUME IInv, NumInv, CountInv, [Next]_vars PROVE NumInv' /\ CountInv'
  OBVIOUS
<1> USE PushAssumption, QueueIsFinite DEF Threads, Destroyers
<1>a. ASSUME Outq' \subseteq Outq PROVE Cardinality(Outq') <= QueueMax
  <2>1. Cardinality(Outq') <= Cardinality(Outq)
    BY <1>a, FS_Subset
  <2> QED BY <2>1 DEF NumInv
<1>0. CASE UNCHANGED vars
  BY <1>0 DEF vars, NumInv, CountInv, Outq
<1>1. ASSUME NEW u \in Users, NEW x \in Topics, PushCall(u, x)
       PROVE  NumInv' /\ CountInv'
  <2>1. Cardinality(Outq') <= QueueMax
    BY <1>a, <1>1 DEF PushCall, Outq, IInv, TypeInv, CallInv
  <2>2. NumInv'
    BY <1>1, <2>1 DEF PushCall, NumInv, IInv, TypeInv, Go
  <2>3. CountInv'
    BY <1>1 DEF PushCall, CountInv, IInv, TypeInv, ClosedInv, Go
  <2> QED BY <2>2, <2>3
<1>2. ASSUME NEW u \in Users, PushEnter(u)
       PROVE  NumInv' /\ CountInv'
  <2>1. Cardinality(Outq') <= QueueMax
    BY <1>a, <1>2 DEF PushEnter, Outq, Mine, IInv, TypeInv, CallInv
  <2>2. NumInv'
    BY <1>2, <2>1 DEF PushEnter, NumInv, IInv, TypeInv, Go, Forget
  <2>3. CountInv'
    BY <1>2 DEF PushEnter, CountInv, IInv, TypeInv, ClosedInv, Go
  <2> QED BY <2>2, <2>3
<1>3. ASSUME NEW u \in Users, NEW s \in {"queued", "refused"}, Produce(u, s)
       PROVE  NumInv' /\ CountInv'
  <2>1. Cardinality(Outq') <= QueueMax
    <3>1. CASE s = "refused"
      BY <1>a, <1>3, <3>1 DEF Produce, Outq, Mine, IInv, TypeInv
    <3>2. CASE s = "queued"
      <4>1. Outq' \subseteq Outq \cup {Mine(u)} /\ Cardinality(Outq) < QueueMax
        BY <1>3, <3>2 DEF Produce, Outq, Mine, IInv, TypeInv
      <4>a. IsFiniteSet(Outq)
        BY QueueIsFinite
      <4>b. /\ IsFiniteSet(Outq \cup {Mine(u)})
            /\ Cardinality(Outq \cup {Mine(u)})
                 = IF Mine(u) \in Outq THEN Cardinality(Outq) ELSE Cardinality(Outq) + 1
        BY <4>a, FS_AddElement, Zenon
      <4>2. /\ IsFiniteSet(Outq \cup {Mine(u)})
            /\ Cardinality(Outq \cup {Mine(u)}) <= Cardinality(Outq) + 1
        BY <4>b
      <4>3. Cardinality(Outq') <= Cardinality(Outq \cup {Mine(u)})
        BY <4>1, <4>2, FS_Subset
      <4>4. Cardinality(Outq \cup {Mine(u)}) \in Nat
        BY <4>2, FS_CardinalityType
      <4> QED BY <4>1, <4>2, <4>3, <4>4
    <3> QED BY <3>1, <3>2
  <2>2. NumInv'
    BY <1>3, <2>1 DEF Produce, NumInv, IInv, TypeInv, Go, Forget, Uses
  <2>3. CountInv'
    BY <1>3 DEF Produce, CountInv, IInv, TypeInv, ClosedInv, Go
  <2> QED BY <2>2, <2>3
<1>4. ASSUME NEW u \in Users, ProduceFull(u)
       PROVE  NumInv' /\ CountInv'
  <2>1. Cardinality(Outq') <= QueueMax
    BY <1>a, <1>4 DEF ProduceFull, Outq, IInv, TypeInv, CallInv
  <2>2. NumInv'
    BY <1>4, <2>1 DEF ProduceFull, NumInv, IInv, TypeInv, Go, Uses
  <2>3. CountInv'
    BY <1>4 DEF ProduceFull, CountInv, IInv, TypeInv, ClosedInv, Go
  <2> QED BY <2>2, <2>3
<1>5. ASSUME NEW u \in Users, NEW n \in {0, 1}, FlushCall(u, n)
       PROVE  NumInv' /\ CountInv'
  <2>1. Cardinality(Outq') <= QueueMax
    BY <1>a, <1>5 DEF FlushCall, Outq, IInv, TypeInv, CallInv
  <2>2. NumInv'
    BY <1>5, <2>1 DEF FlushCall, NumInv, IInv, TypeInv, Go
  <2>3. CountInv'
    BY <1>5 DEF FlushCall, CountInv, IInv, TypeInv, ClosedInv, Go
  <2> QED BY <2>2, <2>3
<1>6. ASSUME NEW u \in Users, FlushEnter(u)
       PROVE  NumInv' /\ CountInv'
  <2>1. Cardinality(Outq') <= QueueMax
    BY <1>a, <1>6 DEF FlushEnter, Outq, IInv, TypeInv, CallInv
  <2>2. NumInv'
    BY <1>6, <2>1 DEF FlushEnter, NumInv, IInv, TypeInv, Go
  <2>3. CountInv'
    BY <1>6 DEF FlushEnter, CountInv, IInv, TypeInv, ClosedInv, Go
  <2> QED BY <2>2, <2>3
<1>7. ASSUME NEW u \in Users, FlushSize(u)
       PROVE  NumInv' /\ CountInv'
  <2>1. Cardinality(Outq') <= QueueMax
    BY <1>a, <1>7 DEF FlushSize, Outq, IInv, TypeInv, CallInv
  <2>2. NumInv'
    BY <1>7, <2>1 DEF FlushSize, NumInv, IInv, TypeInv, Go, Uses
  <2>3. CountInv'
    BY <1>7 DEF FlushSize, CountInv, IInv, TypeInv, ClosedInv, Go
  <2> QED BY <2>2, <2>3
<1>8. ASSUME NEW u \in Users, FlushEnd(u)
       PROVE  NumInv' /\ CountInv'
  <2>1. Cardinality(Outq') <= QueueMax
    BY <1>a, <1>8 DEF FlushEnd, Outq, IInv, TypeInv, CallInv
  <2>2. NumInv'
    BY <1>8, <2>1 DEF FlushEnd, NumInv, IInv, TypeInv, Go
  <2>3. CountInv'
    BY <1>8 DEF FlushEnd, CountInv, IInv, TypeInv, ClosedInv, Go
  <2> QED BY <2>2, <2>3
<1>9. ASSUME NEW u \in Users, NEW x \in Topics, AddTopic(u, x)
       PROVE  NumInv' /\ CountInv'
  <2>1. Cardinality(Outq') <= QueueMax
    BY <1>a, <1>9 DEF AddTopic, Outq, IInv, TypeInv, CallInv
  <2>2. NumInv'
    BY <1>9, <2>1 DEF AddTopic, NumInv, IInv, TypeInv, Go, Uses
  <2>3. CountInv'
    BY <1>9 DEF AddTopic, CountInv, IInv, TypeInv, ClosedInv, Go
  <2> QED BY <2>2, <2>3
<1>10. ASSUME NEW u \in Users, AddInsert(u)
       PROVE  NumInv' /\ CountInv'
  <2>1. Cardinality(Outq') <= QueueMax
    BY <1>a, <1>10 DEF AddInsert, Outq, IInv, TypeInv, CallInv
  <2>2. NumInv'
    BY <1>10, <2>1 DEF AddInsert, NumInv, IInv, TypeInv, Go, Forget
  <2>3. CountInv'
    BY <1>10 DEF AddInsert, CountInv, IInv, TypeInv, ClosedInv, Go
  <2> QED BY <2>2, <2>3
<1>11. ASSUME NEW m \in Msgs, Deliver(m)
       PROVE  NumInv' /\ CountInv'
  <2>1. Cardinality(Outq') <= QueueMax
    BY <1>a, <1>11 DEF Deliver, Outq, IInv, TypeInv, CallInv
  <2>2. NumInv'
    BY <1>11, <2>1 DEF Deliver, NumInv, IInv, TypeInv, Go
  <2>3. CountInv'
    BY <1>11 DEF Deliver, CountInv, IInv, TypeInv, ClosedInv, Go
  <2> QED BY <2>2, <2>3
<1>12. ASSUME NEW t \in Threads, NEW m \in Msgs, CallbackStart(t, m)
       PROVE  NumInv' /\ CountInv'
  <2>1. Cardinality(Outq') <= QueueMax
    BY <1>a, <1>12 DEF CallbackStart, Outq, IInv, TypeInv, CallInv
  <2>2. NumInv'
    BY <1>12, <2>1 DEF CallbackStart, NumInv, IInv, TypeInv, Go
  <2>3. CountInv'
    BY <1>12 DEF CallbackStart, CountInv, IInv, TypeInv, ClosedInv, Go
  <2> QED BY <2>2, <2>3
<1>13. ASSUME NEW t \in Threads, CallbackEnd(t)
       PROVE  NumInv' /\ CountInv'
  <2>1. Cardinality(Outq') <= QueueMax
    BY <1>a, <1>13 DEF CallbackEnd, Outq, IInv, TypeInv, CallInv
  <2>2. NumInv'
    BY <1>13, <2>1 DEF CallbackEnd, NumInv, IInv, TypeInv, Go
  <2>3. CountInv'
    BY <1>13 DEF CallbackEnd, CountInv, IInv, TypeInv, ClosedInv, Go
  <2> QED BY <2>2, <2>3
<1>14. ASSUME NEW leave \in BOOLEAN, ChangeKafkaBrokers(leave)
       PROVE  NumInv' /\ CountInv'
  <2>1. Cardinality(Outq') <= QueueMax
    BY <1>a, <1>14 DEF ChangeKafkaBrokers, Outq, IInv, TypeInv, CallInv
  <2>2. NumInv'
    <3>1. changes' \in 0 .. MaxChanges
      BY <1>14 DEF ChangeKafkaBrokers, NumInv
    <3>2. misuse' \in BOOLEAN
      BY <1>14, Zenon DEF ChangeKafkaBrokers, NumInv, Uses
    <3> QED
      BY <1>14, <2>1, <3>1, <3>2 DEF ChangeKafkaBrokers, NumInv, IInv, TypeInv, Go
  <2>3. CountInv'
    BY <1>14 DEF ChangeKafkaBrokers, CountInv, IInv, TypeInv, ClosedInv, Go
  <2> QED BY <2>2, <2>3
<1>15. CASE WatchPollEnd
  <2>1. Cardinality(Outq') <= QueueMax
    BY <1>a, <1>15 DEF WatchPollEnd, Outq, IInv, TypeInv, CallInv
  <2>2. NumInv'
    BY <1>15, <2>1 DEF WatchPollEnd, NumInv, IInv, TypeInv, Go, Uses
  <2>3. CountInv'
    BY <1>15 DEF WatchPollEnd, CountInv, IInv, TypeInv, ClosedInv, Go
  <2> QED BY <2>2, <2>3
<1>16. CASE DestroyCall
  <2>1. Cardinality(Outq') <= QueueMax
    BY <1>a, <1>16 DEF DestroyCall, Outq, IInv, TypeInv, CallInv
  <2>2. NumInv'
    BY <1>16, <2>1 DEF DestroyCall, NumInv, IInv, TypeInv, Go
  <2>3. CountInv'
    BY <1>16 DEF DestroyCall, CountInv, IInv, TypeInv, ClosedInv, Go
  <2> QED BY <2>2, <2>3
<1>17. ASSUME NEW t \in Destroyers, DestroyEnter(t)
       PROVE  NumInv' /\ CountInv'
  <2>1. Cardinality(Outq') <= QueueMax
    BY <1>a, <1>17 DEF DestroyEnter, Outq, IInv, TypeInv, CallInv
  <2>2. NumInv'
    BY <1>17, <2>1 DEF DestroyEnter, NumInv, IInv, TypeInv, Go
  <2>3. CountInv'
    BY <1>17 DEF DestroyEnter, CountInv, IInv, TypeInv, ClosedInv, Go
  <2> QED BY <2>2, <2>3
<1>18. ASSUME NEW t \in Destroyers, DestroyClose(t)
       PROVE  NumInv' /\ CountInv'
  <2>1. Cardinality(Outq') <= QueueMax
    BY <1>a, <1>18 DEF DestroyClose, Outq, IInv, TypeInv, CallInv
  <2>2. NumInv'
    BY <1>18, <2>1 DEF DestroyClose, NumInv, IInv, TypeInv, Go
  <2>3. CountInv'
    BY <1>18 DEF DestroyClose, CountInv, IInv, TypeInv, ClosedInv, Go
  <2> QED BY <2>2, <2>3
<1>19. ASSUME NEW t \in Destroyers, DestroyReturn(t)
       PROVE  NumInv' /\ CountInv'
  <2>1. Cardinality(Outq') <= QueueMax
    BY <1>a, <1>19 DEF DestroyReturn, Outq, IInv, TypeInv, CallInv
  <2>2. NumInv'
    BY <1>19, <2>1 DEF DestroyReturn, NumInv, IInv, TypeInv, Go
  <2>3. CountInv'
    BY <1>19 DEF DestroyReturn, CountInv, IInv, TypeInv, ClosedInv, Go
  <2> QED BY <2>2, <2>3
<1> QED
  BY <1>0, <1>1, <1>2, <1>3, <1>4, <1>5, <1>6, <1>7, <1>8, <1>9,
     <1>10, <1>11, <1>12, <1>13, <1>14, <1>15, <1>16, <1>17, <1>18, <1>19
  DEF Next, UserStep, PollStep, DestroyStep

\* Every variable keeps its type, and the queue its limit (queueBuffMaxMess).
THEOREM TypeCorrect == Spec => []TypeOK
<1>1. Init => NumInv /\ CountInv
  <2>1. ASSUME Init PROVE Outq = {}
    BY <2>1 DEF Init, Outq
  <2>2. ASSUME Init PROVE Cardinality(Outq) <= QueueMax
    BY <2>1, <2>2, FS_EmptySet, PushAssumption
  <2>3. ASSUME Init PROVE NumInv
    <3>1. misuse \in BOOLEAN
      BY <2>3 DEF Init
    <3>2. changes \in 0 .. MaxChanges /\ size \in [Users -> 0 .. QueueMax]
      BY <2>3, PushAssumption DEF Init
    <3>3. \A u \in Users : pc[u] # "add"
      BY <2>3 DEF Init, Threads
    <3> QED
      BY <2>2, <2>3, <3>1, <3>2, <3>3, PushAssumption DEF Init, NumInv
  <2>4. ASSUME Init PROVE CountInv
    BY <2>4 DEF Init, CountInv
  <2> QED BY <2>3, <2>4
<1>2. IInv /\ NumInv /\ CountInv => TypeOK
  BY DEF IInv, TypeInv, FreshInv, NumInv, CountInv, TypeOK
<1>3. Spec => [](NumInv /\ CountInv)
  BY <1>1, NumbersInductive, AlwaysIInv, PTL DEF Spec
<1> QED
  BY <1>2, <1>3, AlwaysIInv, PTL

-----------------------------------------------------------------------------
(* The producer implements AnswerService.                                   *)

\* A step that changes none of what the service shows is a stuttering step of it.
LEMMA NothingShown ==
  ASSUME Asked' = Asked, InCallback' = InCallback, Told' = Told, Closed' = Closed
  PROVE  [Service!Next]_(Service!vars)
  BY DEF Service!vars

\* The initial states map to the initial state of the service.
LEMMA ServiceInit == Init => Service!Init
  BY PushAssumption DEF Init, Service!Init, Asked, InCallback, Told, Closed, Threads, Destroyers, Msgs

\* While a message is in the queue no kfkDestroy has returned.
LEMMA NotClosed ==
  ASSUME IInv, kfkt = "open" \/ Outq # {}
  PROVE  ~Closed
  BY DEF IInv, OpenInv, ClosedInv, Closed

\* Every step of the threads is a step of the service or changes nothing it shows:
\* rd_kafka_produce takes a request, a poll runs its callback, and the first
\* kfkDestroy that returns closes.
LEMMA ServiceStep == IInv /\ [Next]_vars => [Service!Next]_(Service!vars)
<1> SUFFICES ASSUME IInv, [Next]_vars PROVE [Service!Next]_(Service!vars)
  OBVIOUS
<1> USE PushAssumption DEF Threads, Destroyers
<1>1. CASE UNCHANGED <<state, calling, pc>>
  <2>1. Asked' = Asked /\ Told' = Told
    BY <1>1 DEF Asked, Told
  <2>2. InCallback' = InCallback /\ Closed' = Closed
    BY <1>1 DEF InCallback, Closed
  <2> QED BY <2>1, <2>2, NothingShown
<1>2. ASSUME UNCHANGED <<state, calling>>, Closed' = Closed
      PROVE  [Service!Next]_(Service!vars)
  <2>1. Asked' = Asked /\ Told' = Told
    BY <1>2 DEF Asked, Told
  <2>2. InCallback' = InCallback
    BY <1>2 DEF InCallback
  <2> QED BY <1>2, <2>1, <2>2, NothingShown
<1>3. ASSUME NEW m \in Msgs, NEW s \in {"refused"}, state[m] = "new",
             state' = [state EXCEPT ![m] = s], calling' = calling, Closed' = Closed
      PROVE  [Service!Next]_(Service!vars)
  <2>1. Asked' = Asked /\ Told' = Told
    BY <1>3 DEF Asked, Told, IInv, TypeInv
  <2>2. InCallback' = InCallback
    BY <1>3 DEF InCallback
  <2> QED BY <1>3, <2>1, <2>2, NothingShown
<1>4. ASSUME NEW t \in Threads, NEW p, t \in Users \/ p # "destroyed", pc[t] # "destroyed", Go(t, p)
      PROVE  Closed' = Closed
  BY <1>4 DEF Go, Closed, IInv, TypeInv
<1>5. ASSUME NEW u \in Users, NEW x \in Topics, PushCall(u, x)
      PROVE  [Service!Next]_(Service!vars)
  <2>1. CASE topics = {}
    <3>1. calls[u] + 1 \in 1 .. MaxCalls /\ state[<<u, calls[u] + 1>>] = "new"
      BY <1>5 DEF PushCall, IInv, FreshInv
    <3>2. <<u, calls[u] + 1>> \in Msgs
      BY <3>1 DEF Msgs
    <3>3. /\ state' = [state EXCEPT ![<<u, calls[u] + 1>>] = "refused"]
          /\ calling' = calling /\ pc' = pc
      BY <1>5, <2>1 DEF PushCall
    <3>4. Closed' = Closed
      BY <3>3 DEF Closed
    <3> QED BY <1>3, <3>1, <3>2, <3>3, <3>4
  <2>2. CASE topics # {}
    BY <1>2, <1>4, <1>5, <2>2 DEF PushCall
  <2> QED BY <2>1, <2>2
<1>6. ASSUME NEW u \in Users, PushEnter(u)
      PROVE  [Service!Next]_(Service!vars)
  <2>1. Closed' = Closed
    <3>1. pc[u] # "destroyed" /\ (Go(u, "idle") \/ Go(u, "produce"))
      BY <1>6 DEF PushEnter
    <3> QED BY <1>4, <3>1
  <2>2. Mine(u) \in Msgs /\ state[Mine(u)] = "new"
    BY <1>6 DEF PushEnter, IInv, FreshInv, Mine, Msgs
  <2> QED BY <1>2, <1>3, <1>6, <2>1, <2>2 DEF PushEnter
<1>7. ASSUME NEW u \in Users, NEW s \in {"queued", "refused"}, Produce(u, s)
      PROVE  [Service!Next]_(Service!vars)
  <2>1. Closed' = Closed
    BY <1>4, <1>7 DEF Produce
  <2>2. Mine(u) \in Msgs /\ state[Mine(u)] = "new"
    BY <1>7 DEF Produce, IInv, FreshInv, Mine, Msgs
  <2>3. CASE s = "refused"
    BY <1>3, <1>7, <2>1, <2>2, <2>3 DEF Produce
  <2>4. CASE s = "queued"
    <3> DEFINE m == Mine(u)
    <3>1. state' = [state EXCEPT ![m] = "queued"] /\ calling' = calling
      BY <1>7, <2>4 DEF Produce
    <3>2. ~Closed
      BY <1>7, NotClosed DEF Produce, IInv, OpenInv
    <3>3. m \notin Asked
      BY <2>2 DEF Asked
    <3>4. Asked' = Asked \cup {m} /\ Told' = Told
      <4> HIDE DEF m
      <4>1. m \in Msgs /\ state[m] = "new"
        BY <2>2 DEF m
      <4>2. \A n \in Msgs : state'[n] = IF n = m THEN "queued" ELSE state[n]
        BY <3>1, <4>1 DEF IInv, TypeInv
      <4> QED BY <4>1, <4>2 DEF Asked, Told
    <3>5. InCallback' = InCallback
      BY <3>1 DEF InCallback
    <3>6. Service!Ask(m)
      BY <2>1, <3>2, <3>3, <3>4, <3>5 DEF Service!Ask
    <3> QED BY <2>2, <3>6 DEF Service!Next
  <2> QED BY <2>3, <2>4
<1>8. ASSUME NEW u \in Users,
             \/ ProduceFull(u) \/ FlushEnter(u) \/ FlushSize(u) \/ FlushEnd(u)
             \/ AddInsert(u) \/ FlushCall(u, 0) \/ FlushCall(u, 1)
      PROVE  [Service!Next]_(Service!vars)
  <2>1. pc[u] # "destroyed" /\ \E p : Go(u, p)
    BY <1>8 DEF ProduceFull, FlushEnter, FlushSize, FlushEnd, AddInsert, FlushCall
  <2>2. UNCHANGED <<state, calling>>
    BY <1>8 DEF ProduceFull, FlushEnter, FlushSize, FlushEnd, AddInsert, FlushCall
  <2> QED BY <1>2, <1>4, <2>1, <2>2
<1>9. ASSUME NEW u \in Users, NEW x \in Topics, AddTopic(u, x)
      PROVE  [Service!Next]_(Service!vars)
  <2>1. pc[u] # "destroyed" /\ \E p : Go(u, p)
    BY <1>9 DEF AddTopic
  <2>2. UNCHANGED <<state, calling>>
    BY <1>9 DEF AddTopic
  <2> QED BY <1>2, <1>4, <2>1, <2>2
<1>10. ASSUME NEW m \in Msgs, Deliver(m)
       PROVE  [Service!Next]_(Service!vars)
  <2>1. \A n \in Msgs : state'[n] = IF n = m THEN "done" ELSE state[n]
    BY <1>10 DEF Deliver, IInv, TypeInv
  <2>2. Asked' = Asked /\ Told' = Told
    BY <1>10, <2>1 DEF Deliver, Asked, Told
  <2>3. InCallback' = InCallback /\ Closed' = Closed
    BY <1>10 DEF Deliver, InCallback, Closed
  <2> QED BY <2>2, <2>3, NothingShown
<1>11. ASSUME NEW t \in Threads, NEW m \in Msgs, CallbackStart(t, m)
       PROVE  [Service!Next]_(Service!vars)
  <2>1. m \in Asked /\ m \notin Told /\ m \notin InCallback
    BY <1>11 DEF CallbackStart, Asked, Told, InCallback
  <2>2. ~Closed
    <3>1. m \in Outq
      BY <1>11 DEF CallbackStart, Outq
    <3> QED BY <3>1, NotClosed
  <2>3. UNCHANGED <<Asked, Told, Closed>>
    BY <1>11 DEF CallbackStart, Asked, Told, Closed
  <2>4. \A r \in Threads : calling'[r] = IF r = t THEN m ELSE calling[r]
    BY <1>11 DEF CallbackStart, IInv, TypeInv
  <2>5. calling[t] = NoMsg /\ NoMsg \notin Msgs
    BY <1>11 DEF CallbackStart, Msgs
  <2>6. InCallback' = InCallback \cup {m}
    BY <2>4, <2>5 DEF InCallback
  <2>7. Service!Begin(m)
    BY <2>1, <2>2, <2>3, <2>6 DEF Service!Begin
  <2> QED BY <2>7 DEF Service!Next
<1>12. ASSUME NEW t \in Threads, CallbackEnd(t)
       PROVE  [Service!Next]_(Service!vars)
  <2>1. PICK m \in Msgs : calling[t] = m
    BY <1>12 DEF CallbackEnd, IInv, TypeInv
  <2>2. state[m] = "done" /\ m # NoMsg
    BY <1>12, <2>1 DEF CallbackEnd, IInv, CallInv
  <2>3. \A n \in Msgs : state'[n] = IF n = m THEN "told" ELSE state[n]
    BY <1>12, <2>1 DEF CallbackEnd, IInv, TypeInv
  <2>4. \A r \in Threads : calling'[r] = IF r = t THEN NoMsg ELSE calling[r]
    BY <1>12 DEF CallbackEnd, IInv, TypeInv
  <2>5. Asked' = Asked /\ Told' = Told \cup {m}
    BY <2>2, <2>3 DEF Asked, Told
  <2>6. m \in InCallback
    BY <2>1 DEF InCallback
  <2>7. \A r \in Threads : calling[r] = m => r = t
    BY <2>1, <2>2 DEF IInv, OneCallInv
  <2>8. NoMsg \notin Msgs
    BY DEF Msgs
  <2>9. InCallback' = InCallback \ {m}
    BY <2>1, <2>4, <2>7, <2>8 DEF InCallback
  <2>10. Closed' = Closed
    BY <1>12 DEF CallbackEnd, Closed
  <2>11. Service!End(m)
    BY <2>5, <2>6, <2>9, <2>10 DEF Service!End
  <2> QED BY <2>11 DEF Service!Next
<1>13. ASSUME \/ \E leave \in BOOLEAN : ChangeKafkaBrokers(leave)
              \/ WatchPollEnd \/ DestroyCall
       PROVE  [Service!Next]_(Service!vars)
  <2>1. \E t \in Threads, p \in {"destroyLock", "watchPoll", "idle"} :
          pc[t] # "destroyed" /\ Go(t, p)
    BY <1>13 DEF ChangeKafkaBrokers, WatchPollEnd, DestroyCall
  <2>2. UNCHANGED <<state, calling>>
    BY <1>13 DEF ChangeKafkaBrokers, WatchPollEnd, DestroyCall
  <2> QED BY <1>2, <1>4, <2>1, <2>2
<1>14. ASSUME NEW t \in Destroyers, DestroyStep(t)
       PROVE  [Service!Next]_(Service!vars)
  <2>1. UNCHANGED <<Asked, InCallback, Told>>
    BY <1>14 DEF DestroyStep, DestroyEnter, DestroyClose, DestroyReturn, Asked, InCallback, Told
  <2>2. CASE Closed' = Closed
    BY <2>1, <2>2, NothingShown
  <2>3. CASE Closed' # Closed
    <3>1. ~Closed /\ Closed'
      BY <1>14, <2>3 DEF DestroyStep, DestroyEnter, DestroyClose, DestroyReturn, Go, Closed, IInv, TypeInv
    <3>2. IInv'
      BY Inductive
    <3>3. Outq' = {}
      BY <3>1, <3>2 DEF IInv, OpenInv, ClosedInv, Closed
    <3>4. Outq = {}
      BY <1>14, <3>3 DEF DestroyStep, DestroyEnter, DestroyClose, DestroyReturn, Outq
    <3>5. Asked = Told
      BY <3>4 DEF Outq, Asked, Told
    <3>6. Service!Close
      BY <2>1, <3>1, <3>5 DEF Service!Close
    <3> QED BY <3>6 DEF Service!Next
  <2> QED BY <2>2, <2>3
<1>15. CASE UNCHANGED vars
  BY <1>1, <1>15 DEF vars
<1> QED
  BY <1>5, <1>6, <1>7, <1>8, <1>9, <1>10, <1>11, <1>12, <1>13, <1>14, <1>15
  DEF Next, UserStep, PollStep

\* ZooKfkTopicsPush implements AnswerService, with whatever flushes, new topics and
\* lists of brokers meet its kfkDestroys: each message that push took has its one
\* callback before any kfkDestroy returns, and none is taken afterwards.
THEOREM PushIsAnswerService == Spec => IsAnswerService
<1>1. Init => Service!Init
  BY ServiceInit
<1>2. IInv /\ [Next]_vars => [Service!Next]_(Service!vars)
  BY ServiceStep
<1> QED BY <1>1, <1>2, AlwaysIInv, PTL DEF Spec, IsAnswerService, Service!Spec
=============================================================================
