--------------------------- MODULE ZookeeperProofs ---------------------------
(***************************************************************************)
(* Proofs about the two clients that follow zookeeper, KafkaPop and        *)
(* ZookConfig, for any number of threads, topics, messages, servers and    *)
(* calls. The consumer: no message is lost when pop is made to let go of   *)
(* the lock, and the handle stays open while a pop polls. zookconfig: a    *)
(* registration is the process's own. Both: a follower at rest knows what  *)
(* is in zookeeper, although a watch fires once.                           *)
(***************************************************************************)
EXTENDS KafkaPop, ZookConfig, TLAPS

-----------------------------------------------------------------------------
(* zookafka: the messages                                                   *)

\* The types, with where each kind of thread can be.
TypeInv ==
  /\ kfkt \in {"null", "open"} /\ topics \subseteq Topics /\ subscribed \subseteq Topics
  /\ lock \in Poppers \cup {Owner, Watcher, NoThread} /\ destroy \in Nat
  /\ pc \in [Threads -> {"new", "read", "idle", "pop", "tryPop", "poll", "tryPoll", "flags", "give",
                         "start", "stop", "destroyLock", "closing", "destroyed"}]
  /\ \A p \in Poppers : pc[p] \in {"idle", "pop", "tryPop", "poll", "tryPoll", "flags", "give"}
  /\ arg \in [Controllers -> Topics \cup {NoTopic}]
  /\ \A c \in Controllers : pc[c] \in {"idle", "start", "stop"}
                            /\ (pc[c] # "idle" => arg[c] \in Topics)

\* Messages and offsets.
OffsetInv ==
  /\ arrived \in [Topics -> 0 .. MaxMsgs]
  /\ position \in [Topics -> NoOffset .. MaxMsgs] /\ committed \in [Topics -> NoOffset .. MaxMsgs]
  /\ polled \subseteq Msgs /\ given \subseteq Msgs
  /\ msg \in [Poppers -> Msgs \cup {NoMsg, ErrMsg}]

\* A pop past the lock has it, and so has a kfkDestroy that closes; nobody pops
\* before zookInit is done.
LockInv ==
  /\ \A p \in Poppers : pc[p] \in {"poll", "tryPoll", "flags", "give"} => lock = p
  /\ \A t \in Readers : pc[t] = "closing" => lock = t
  /\ ~Started => \A p \in Poppers : pc[p] = "idle"

\* What a pop found in order when it got the lock stays so until it polls no more;
\* what a kfkDestroy has closed stays closed.
SafeInv ==
  /\ SubscriptionMatches
  /\ \A p \in Poppers : pc[p] \in {"poll", "tryPoll", "flags"} => kfkt = "open"
  /\ \A t \in Readers : pc[t] = "closing" => subscribed = {} /\ destroy > 0

\* Only a pop past its poll has a message in hand, and none that was polled is lost.
MsgInv ==
  /\ \A p \in Poppers : msg[p] # NoMsg => pc[p] \in {"flags", "give"}
  /\ \A m \in polled : m \in given \/ \E p \in Poppers : msg[p] = m

IInv == TypeInv /\ OffsetInv /\ LockInv /\ SafeInv /\ MsgInv

\* No message is the NULL that a poll returns, or an error.
LEMMA RealMessages == NoMsg \notin Msgs /\ ErrMsg \notin Msgs
  BY PopAssumption DEF NoMsg, ErrMsg, Msgs

\* The offsets after a subscription.
LEMMA Resets ==
  /\ Unassigned \in [Topics -> NoOffset .. MaxMsgs]
  /\ \A S : Subscribe(S) => position' = Unassigned /\ committed' = committed
<1>1. NoOffset \in NoOffset .. MaxMsgs
  BY PopAssumption DEF NoOffset
<1> QED
  BY <1>1 DEF Unassigned, Subscribe

\* IInv is preserved by every step.
LEMMA Inductive == IInv /\ [Next]_vars => IInv'
<1> SUFFICES ASSUME IInv, [Next]_vars PROVE IInv'
  OBVIOUS
<1> USE PopAssumption DEF Threads, NoThread, Readers, flagVars, topicVars, offsetVars, msgVars, Go
<1>0. CASE UNCHANGED vars
  BY <1>0
  DEF vars, zkVars, IInv, TypeInv, OffsetInv, LockInv, SafeInv, MsgInv, Started, SubscriptionMatches
<1>1. CASE ZookInit
  <2>1. TypeInv'
    BY <1>1 DEF ZookInit, ListBrokers, ListFails, IInv, TypeInv
  <2>2. OffsetInv'
    BY <1>1 DEF ZookInit, ListBrokers, ListFails, IInv, OffsetInv
  <2>3. LockInv'
    BY <1>1 DEF ZookInit, ListBrokers, ListFails, IInv, TypeInv, LockInv, Started
  <2>4. SafeInv'
    BY <1>1
    DEF ZookInit, ListBrokers, ListFails, IInv, TypeInv, LockInv, SafeInv, SubscriptionMatches, Started
  <2>5. MsgInv'
    BY <1>1 DEF ZookInit, ListBrokers, ListFails, IInv, TypeInv, OffsetInv, LockInv, MsgInv
  <2> QED BY <2>1, <2>2, <2>3, <2>4, <2>5 DEF IInv
<1>2. CASE KfkInit
  <2>1. TypeInv'
    BY <1>2 DEF KfkInit, AllRead, Subscribe, Unassigned, IInv, TypeInv
  <2>2. OffsetInv'
    <3>1. UNCHANGED <<arrived, polled, given, msg>>
      BY <1>2 DEF KfkInit
    <3>2. UNCHANGED <<position, committed>> \/ (position' = Unassigned /\ committed' = committed)
      BY <1>2, Resets DEF KfkInit
    <3> QED
      BY <3>1, <3>2, Resets DEF IInv, OffsetInv
  <2>3. LockInv'
    BY <1>2 DEF KfkInit, AllRead, Subscribe, Unassigned, IInv, TypeInv, LockInv, Started
  <2>4. SafeInv'
    BY <1>2
    DEF KfkInit, AllRead, Subscribe, Unassigned, IInv, TypeInv, LockInv, SafeInv, SubscriptionMatches,
        Started
  <2>5. MsgInv'
    BY <1>2 DEF KfkInit, AllRead, Subscribe, Unassigned, IInv, TypeInv, OffsetInv, LockInv, MsgInv
  <2> QED BY <2>1, <2>2, <2>3, <2>4, <2>5 DEF IInv
<1>3. ASSUME NEW t \in Readers, NEW b \in Brokers, GetBroker(t, b)
       PROVE  IInv'
  <2>1. TypeInv'
    BY <1>3 DEF GetBroker, IInv, TypeInv
  <2>2. OffsetInv'
    BY <1>3 DEF GetBroker, IInv, OffsetInv
  <2>3. LockInv'
    BY <1>3 DEF GetBroker, IInv, TypeInv, LockInv, Started
  <2>4. SafeInv'
    BY <1>3 DEF GetBroker, IInv, TypeInv, LockInv, SafeInv, SubscriptionMatches, Started
  <2>5. MsgInv'
    BY <1>3 DEF GetBroker, IInv, TypeInv, OffsetInv, LockInv, MsgInv
  <2> QED BY <2>1, <2>2, <2>3, <2>4, <2>5 DEF IInv
<1>4. ASSUME NEW p \in Poppers, NEW w \in {"pop", "tryPop"}, Call(p, w)
       PROVE  IInv'
  <2>1. TypeInv'
    BY <1>4 DEF Call, IInv, TypeInv
  <2>2. OffsetInv'
    BY <1>4 DEF Call, IInv, OffsetInv
  <2>3. LockInv'
    BY <1>4 DEF Call, IInv, TypeInv, LockInv, Started
  <2>4. SafeInv'
    BY <1>4 DEF Call, IInv, TypeInv, LockInv, SafeInv, SubscriptionMatches, Started
  <2>5. MsgInv'
    BY <1>4 DEF Call, IInv, TypeInv, OffsetInv, LockInv, MsgInv
  <2> QED BY <2>1, <2>2, <2>3, <2>4, <2>5 DEF IInv
<1>5. ASSUME NEW p \in Poppers, PopEnter(p)
       PROVE  IInv'
  <2>1. TypeInv'
    <3>1. \E w \in {"idle", "poll", "tryPoll"} : pc' = [pc EXCEPT ![p] = w]
      BY <1>5 DEF PopEnter
    <3>2. lock' \in Poppers \cup {NoThread}
      BY <1>5 DEF PopEnter, IInv, TypeInv
    <3> QED
      BY <1>5, <3>1, <3>2 DEF PopEnter, IInv, TypeInv
  <2>2. OffsetInv'
    BY <1>5 DEF PopEnter, IInv, OffsetInv
  <2>3. LockInv'
    <3>1. \A q \in Poppers : pc[q] \notin {"poll", "tryPoll", "flags", "give"}
      BY <1>5 DEF PopEnter, IInv, TypeInv, LockInv
    <3>2. \A t \in Threads \ {p} : pc'[t] = pc[t]
      BY <1>5 DEF PopEnter, IInv, TypeInv
    <3>3. (pc'[p] \in {"poll", "tryPoll"} /\ lock' = p) \/ pc'[p] = "idle"
      BY <1>5 DEF PopEnter, IInv, TypeInv
    <3>4. Started /\ \A t \in Readers : pc[t] # "closing"
      BY <1>5 DEF PopEnter, IInv, LockInv
    <3>5. Started' /\ \A t \in Readers : pc'[t] # "closing"
      BY <3>2, <3>4 DEF Started
    <3> QED
      BY <3>1, <3>2, <3>3, <3>5 DEF LockInv
  <2>4. SafeInv'
    <3>1. \A t \in Threads \ {p} : pc'[t] = pc[t]
      BY <1>5 DEF PopEnter, IInv, TypeInv
    <3>2. UNCHANGED <<kfkt, topics, subscribed, initFailed, destroy>>
      BY <1>5 DEF PopEnter
    <3>3. (pc'[p] \in {"poll", "tryPoll"} /\ kfkt = "open") \/ pc'[p] = "idle"
      BY <1>5 DEF PopEnter, IInv, TypeInv
    <3> QED
      BY <3>1, <3>2, <3>3 DEF IInv, SafeInv, SubscriptionMatches
  <2>5. MsgInv'
    BY <1>5 DEF PopEnter, IInv, TypeInv, OffsetInv, LockInv, MsgInv
  <2> QED BY <2>1, <2>2, <2>3, <2>4, <2>5 DEF IInv
<1>6. ASSUME NEW p \in Poppers, NEW x \in Topics, PollGets(p, x)
       PROVE  IInv'
  <2>1. TypeInv'
    BY <1>6 DEF PollGets, IInv, TypeInv
  <2>2. OffsetInv'
    <3>1. position[x] \in Int /\ 0 <= position[x] /\ position[x] < arrived[x] /\ arrived[x] \in 0 .. MaxMsgs
      BY <1>6 DEF PollGets, IInv, OffsetInv, NoOffset
    <3>2. position[x] + 1 \in 1 .. MaxMsgs /\ position[x] + 1 \in NoOffset .. MaxMsgs
      BY <3>1 DEF NoOffset
    <3>3. <<x, position[x] + 1>> \in Msgs
      BY <3>2 DEF Msgs
    <3>4. position' = [position EXCEPT ![x] = position[x] + 1]
          /\ polled' = polled \cup {<<x, position[x] + 1>>}
          /\ msg' = [msg EXCEPT ![p] = <<x, position[x] + 1>>] /\ UNCHANGED <<arrived, given, committed>>
      BY <1>6 DEF PollGets
    <3> QED
      BY <3>2, <3>3, <3>4 DEF IInv, OffsetInv
  <2>3. LockInv'
    BY <1>6 DEF PollGets, IInv, TypeInv, LockInv, Started
  <2>4. SafeInv'
    BY <1>6 DEF PollGets, IInv, TypeInv, LockInv, SafeInv, SubscriptionMatches, Started
  <2>5. MsgInv'
    <3> DEFINE new == <<x, position[x] + 1>>
    <3>1. msg[p] = NoMsg
      BY <1>6 DEF PollGets, IInv, MsgInv
    <3>2. msg' = [msg EXCEPT ![p] = new] /\ polled' = polled \cup {new} /\ given' = given
          /\ pc' = [pc EXCEPT ![p] = pc'[p]] /\ pc'[p] \in {"flags", "give"}
      BY <1>6 DEF PollGets, IInv, TypeInv
    <3>3. msg \in [Poppers -> Msgs \cup {NoMsg, ErrMsg}] /\ polled \subseteq Msgs /\ DOMAIN pc = Threads
      BY DEF IInv, OffsetInv, TypeInv
    <3>4. \A q \in Poppers : msg'[q] = IF q = p THEN new ELSE msg[q]
      BY <3>2, <3>3
    <3>5. \A m \in polled' : m \in given' \/ \E q \in Poppers : msg'[q] = m
      <4> TAKE m \in polled'
      <4>1. CASE m = new
        BY <4>1, <3>4
      <4>2. CASE m # new
        <5>1. m \in polled /\ m # NoMsg
          BY <4>2, <3>2, <3>3, RealMessages
        <5>2. m \in given \/ \E q \in Poppers : msg[q] = m
          BY <5>1 DEF IInv, MsgInv
        <5> QED
          BY <5>1, <5>2, <3>1, <3>2, <3>4
      <4> QED
        BY <4>1, <4>2
    <3>6. \A q \in Poppers : msg'[q] # NoMsg => pc'[q] \in {"flags", "give"}
      BY <3>2, <3>3, <3>4 DEF IInv, MsgInv
    <3> QED
      BY <3>5, <3>6 DEF MsgInv
  <2> QED BY <2>1, <2>2, <2>3, <2>4, <2>5 DEF IInv
<1>7. ASSUME NEW p \in Poppers, NEW m \in {NoMsg, ErrMsg}, PollGetsNone(p, m)
       PROVE  IInv'
  <2>1. TypeInv'
    BY <1>7 DEF PollGetsNone, IInv, TypeInv
  <2>2. OffsetInv'
    BY <1>7 DEF PollGetsNone, IInv, OffsetInv
  <2>3. LockInv'
    BY <1>7 DEF PollGetsNone, IInv, TypeInv, LockInv, Started
  <2>4. SafeInv'
    BY <1>7 DEF PollGetsNone, IInv, TypeInv, LockInv, SafeInv, SubscriptionMatches, Started
  <2>5. MsgInv'
    <3>1. msg[p] = NoMsg
      BY <1>7 DEF PollGetsNone, IInv, MsgInv
    <3>2. \A q \in Poppers : msg'[q] = (IF q = p THEN m ELSE msg[q]) /\ (q # p => pc'[q] = pc[q])
      BY <1>7 DEF PollGetsNone, IInv, TypeInv, OffsetInv
    <3>3. pc'[p] \in {"flags", "give"} /\ UNCHANGED <<polled, given>>
      BY <1>7 DEF PollGetsNone, IInv, TypeInv
    <3>4. \A k \in polled : k # NoMsg
      BY RealMessages DEF IInv, OffsetInv
    <3> QED
      BY <3>1, <3>2, <3>3, <3>4 DEF IInv, MsgInv
  <2> QED BY <2>1, <2>2, <2>3, <2>4, <2>5 DEF IInv
<1>8. ASSUME NEW p \in Poppers, Flags(p)
       PROVE  IInv'
  <2>1. TypeInv'
    BY <1>8 DEF Flags, IInv, TypeInv
  <2>2. OffsetInv'
    BY <1>8 DEF Flags, IInv, OffsetInv
  <2>3. LockInv'
    BY <1>8 DEF Flags, IInv, TypeInv, LockInv, Started
  <2>4. SafeInv'
    BY <1>8 DEF Flags, IInv, TypeInv, LockInv, SafeInv, SubscriptionMatches, Started
  <2>5. MsgInv'
    BY <1>8 DEF Flags, IInv, TypeInv, OffsetInv, LockInv, MsgInv
  <2> QED BY <2>1, <2>2, <2>3, <2>4, <2>5 DEF IInv
<1>9. ASSUME NEW p \in Poppers, Give(p)
       PROVE  IInv'
  <2>1. TypeInv'
    BY <1>9 DEF Give, IInv, TypeInv
  <2>2. OffsetInv'
    BY <1>9 DEF Give, IInv, OffsetInv
  <2>3. LockInv'
    BY <1>9 DEF Give, IInv, TypeInv, LockInv, Started
  <2>4. SafeInv'
    BY <1>9 DEF Give, IInv, TypeInv, LockInv, SafeInv, SubscriptionMatches, Started
  <2>5. MsgInv'
    BY <1>9 DEF Give, IInv, TypeInv, OffsetInv, LockInv, MsgInv
  <2> QED BY <2>1, <2>2, <2>3, <2>4, <2>5 DEF IInv
<1>10. ASSUME NEW c \in Controllers, NEW x \in Topics, NEW w \in {"start", "stop"}, Change(c, x, w)
       PROVE  IInv'
  <2>1. TypeInv'
    BY <1>10 DEF Change, IInv, TypeInv
  <2>2. OffsetInv'
    BY <1>10 DEF Change, IInv, OffsetInv
  <2>3. LockInv'
    BY <1>10 DEF Change, IInv, TypeInv, LockInv, Started
  <2>4. SafeInv'
    BY <1>10 DEF Change, IInv, TypeInv, LockInv, SafeInv, SubscriptionMatches, Started
  <2>5. MsgInv'
    BY <1>10 DEF Change, IInv, TypeInv, OffsetInv, LockInv, MsgInv
  <2> QED BY <2>1, <2>2, <2>3, <2>4, <2>5 DEF IInv
<1>11. ASSUME NEW c \in Controllers, StartTopic(c)
       PROVE  IInv'
  <2>1. TypeInv'
    BY <1>11 DEF StartTopic, Returns, Resubscribe, Subscribe, Unassigned, IInv, TypeInv
  <2>2. OffsetInv'
    <3>1. UNCHANGED <<arrived, polled, given, msg>>
      BY <1>11 DEF StartTopic, Returns, Resubscribe
    <3>2. UNCHANGED <<position, committed>> \/ (position' = Unassigned /\ committed' = committed)
      BY <1>11, Resets DEF StartTopic, Returns, Resubscribe
    <3> QED
      BY <3>1, <3>2, Resets DEF IInv, OffsetInv
  <2>3. LockInv'
    BY <1>11 DEF StartTopic, Returns, Resubscribe, Subscribe, Unassigned, IInv, TypeInv, LockInv, Started
  <2>4. SafeInv'
    BY <1>11
    DEF StartTopic, Returns, Resubscribe, Subscribe, Unassigned, IInv, TypeInv, LockInv, SafeInv,
        SubscriptionMatches, Started
  <2>5. MsgInv'
    BY <1>11
    DEF StartTopic, Returns, Resubscribe, Subscribe, Unassigned, IInv, TypeInv, OffsetInv, LockInv,
        MsgInv
  <2> QED BY <2>1, <2>2, <2>3, <2>4, <2>5 DEF IInv
<1>12. ASSUME NEW c \in Controllers, StopTopic(c)
       PROVE  IInv'
  <2>1. TypeInv'
    BY <1>12 DEF StopTopic, Returns, Resubscribe, Subscribe, Unassigned, IInv, TypeInv
  <2>2. OffsetInv'
    <3>1. UNCHANGED <<arrived, polled, given, msg>>
      BY <1>12 DEF StopTopic, Returns, Resubscribe
    <3>2. UNCHANGED <<position, committed>> \/ (position' = Unassigned /\ committed' = committed)
      BY <1>12, Resets DEF StopTopic, Returns, Resubscribe
    <3> QED
      BY <3>1, <3>2, Resets DEF IInv, OffsetInv
  <2>3. LockInv'
    BY <1>12 DEF StopTopic, Returns, Resubscribe, Subscribe, Unassigned, IInv, TypeInv, LockInv, Started
  <2>4. SafeInv'
    BY <1>12
    DEF StopTopic, Returns, Resubscribe, Subscribe, Unassigned, IInv, TypeInv, LockInv, SafeInv,
        SubscriptionMatches, Started
  <2>5. MsgInv'
    BY <1>12
    DEF StopTopic, Returns, Resubscribe, Subscribe, Unassigned, IInv, TypeInv, OffsetInv, LockInv, MsgInv
  <2> QED BY <2>1, <2>2, <2>3, <2>4, <2>5 DEF IInv
<1>13. ASSUME NEW b \in Brokers, BrokersChange(b)
       PROVE  IInv'
  <2>1. TypeInv'
    BY <1>13 DEF BrokersChange, IInv, TypeInv
  <2>2. OffsetInv'
    BY <1>13 DEF BrokersChange, IInv, OffsetInv
  <2>3. LockInv'
    BY <1>13 DEF BrokersChange, IInv, TypeInv, LockInv, Started
  <2>4. SafeInv'
    BY <1>13 DEF BrokersChange, IInv, TypeInv, LockInv, SafeInv, SubscriptionMatches, Started
  <2>5. MsgInv'
    BY <1>13 DEF BrokersChange, IInv, TypeInv, OffsetInv, LockInv, MsgInv
  <2> QED BY <2>1, <2>2, <2>3, <2>4, <2>5 DEF IInv
<1>14. CASE WatchRead
  <2>1. TypeInv'
    BY <1>14 DEF WatchRead, WatchTakes, ListBrokers, ListFails, IInv, TypeInv
  <2>2. OffsetInv'
    BY <1>14 DEF WatchRead, WatchTakes, ListBrokers, ListFails, IInv, OffsetInv
  <2>3. LockInv'
    BY <1>14 DEF WatchRead, WatchTakes, ListBrokers, ListFails, IInv, TypeInv, LockInv, Started
  <2>4. SafeInv'
    BY <1>14
    DEF WatchRead, WatchTakes, ListBrokers, ListFails, IInv, TypeInv, LockInv, SafeInv,
        SubscriptionMatches, Started
  <2>5. MsgInv'
    BY <1>14 DEF WatchRead, WatchTakes, ListBrokers, ListFails, IInv, TypeInv, OffsetInv, LockInv, MsgInv
  <2> QED BY <2>1, <2>2, <2>3, <2>4, <2>5 DEF IInv
<1>15. ASSUME NEW leave \in BOOLEAN, ChangeKafkaBrokers(leave)
       PROVE  IInv'
  <2>1. TypeInv'
    BY <1>15 DEF ChangeKafkaBrokers, AllRead, IInv, TypeInv
  <2>2. OffsetInv'
    BY <1>15 DEF ChangeKafkaBrokers, AllRead, IInv, OffsetInv
  <2>3. LockInv'
    BY <1>15 DEF ChangeKafkaBrokers, AllRead, IInv, TypeInv, LockInv, Started
  <2>4. SafeInv'
    BY <1>15
    DEF ChangeKafkaBrokers, AllRead, IInv, TypeInv, LockInv, SafeInv, SubscriptionMatches, Started
  <2>5. MsgInv'
    BY <1>15 DEF ChangeKafkaBrokers, AllRead, IInv, TypeInv, OffsetInv, LockInv, MsgInv
  <2> QED BY <2>1, <2>2, <2>3, <2>4, <2>5 DEF IInv
<1>16. CASE DestroyCall
  <2>1. TypeInv'
    BY <1>16 DEF DestroyCall, IInv, TypeInv
  <2>2. OffsetInv'
    BY <1>16 DEF DestroyCall, IInv, OffsetInv
  <2>3. LockInv'
    BY <1>16 DEF DestroyCall, IInv, TypeInv, LockInv, Started
  <2>4. SafeInv'
    BY <1>16 DEF DestroyCall, IInv, TypeInv, LockInv, SafeInv, SubscriptionMatches, Started
  <2>5. MsgInv'
    BY <1>16 DEF DestroyCall, IInv, TypeInv, OffsetInv, LockInv, MsgInv
  <2> QED BY <2>1, <2>2, <2>3, <2>4, <2>5 DEF IInv
<1>17. ASSUME NEW t \in Readers, Destroy(t)
       PROVE  IInv'
  <2>1. TypeInv'
    <3>1. pc' = [pc EXCEPT ![t] = "destroyed"] \/ pc' = [pc EXCEPT ![t] = "closing"]
      BY <1>17 DEF Destroy
    <3>2. lock' \in {lock, t} /\ destroy' \in Nat /\ kfkt' \in {kfkt, "null"} /\ subscribed' \in {subscribed, {}}
      BY <1>17 DEF Destroy, Subscribe, IInv, TypeInv
    <3>3. UNCHANGED <<topics, arg>>
      BY <1>17 DEF Destroy
    <3> QED
      BY <3>1, <3>2, <3>3 DEF IInv, TypeInv
  <2>2. OffsetInv'
    <3>1. UNCHANGED <<arrived, polled, given, msg>>
      BY <1>17 DEF Destroy
    <3>2. UNCHANGED <<position, committed>> \/ (position' = Unassigned /\ committed' = committed)
      BY <1>17, Resets DEF Destroy
    <3> QED
      BY <3>1, <3>2, Resets DEF IInv, OffsetInv
  <2>3. LockInv'
    <3>1. lock = NoThread /\ pc[t] = "destroyLock"
      BY <1>17 DEF Destroy
    <3>2. \A u \in Threads \ {t} : pc'[u] = pc[u]
      BY <1>17 DEF Destroy, IInv, TypeInv
    <3>3. (pc'[t] = "closing" /\ lock' = t) \/ pc'[t] = "destroyed"
      BY <1>17 DEF Destroy, IInv, TypeInv
    <3>4. /\ \A q \in Poppers : pc[q] \notin {"poll", "tryPoll", "flags", "give"}
          /\ \A u \in Readers : pc[u] # "closing"
      BY <3>1 DEF IInv, LockInv
    <3>5. Started' = Started
      BY <3>1, <3>2, <3>3 DEF Started
    <3> QED
      BY <3>2, <3>3, <3>4, <3>5 DEF IInv, LockInv
  <2>4. SafeInv'
    <3>1. lock = NoThread /\ pc[t] = "destroyLock" /\ destroy' > 0 /\ UNCHANGED <<topics, initFailed>>
      BY <1>17 DEF Destroy, IInv, TypeInv
    <3>2. \A u \in Threads \ {t} : pc'[u] = pc[u]
      BY <1>17 DEF Destroy, IInv, TypeInv
    <3>3. (pc'[t] = "closing" /\ subscribed' = {}) \/ (pc'[t] = "destroyed" /\ subscribed' = subscribed)
      BY <1>17 DEF Destroy, Subscribe, IInv, TypeInv
    <3>4. /\ \A q \in Poppers : pc[q] \notin {"poll", "tryPoll", "flags", "give"}
          /\ \A u \in Readers : pc[u] # "closing"
      BY <3>1 DEF IInv, LockInv
    <3>5. \A q \in Poppers : pc'[q] \notin {"poll", "tryPoll", "flags", "give"}
      BY <3>2, <3>4
    <3>6. \A u \in Readers : pc'[u] = "closing" => u = t
      BY <3>2, <3>4
    <3>7. SubscriptionMatches'
      BY <3>1, <3>3 DEF IInv, SafeInv, SubscriptionMatches
    <3>8. \A u \in Readers : pc'[u] = "closing" => subscribed' = {} /\ destroy' > 0
      BY <3>1, <3>3, <3>6
    <3> QED
      BY <3>5, <3>7, <3>8 DEF SafeInv
  <2>5. MsgInv'
    BY <1>17 DEF Destroy, Subscribe, Unassigned, IInv, TypeInv, OffsetInv, LockInv, MsgInv
  <2> QED BY <2>1, <2>2, <2>3, <2>4, <2>5 DEF IInv
<1>18. ASSUME NEW t \in Readers, DestroyClose(t)
       PROVE  IInv'
  <2>1. TypeInv'
    BY <1>18 DEF DestroyClose, IInv, TypeInv
  <2>2. OffsetInv'
    BY <1>18 DEF DestroyClose, IInv, OffsetInv
  <2>3. LockInv'
    BY <1>18 DEF DestroyClose, IInv, TypeInv, LockInv, Started
  <2>4. SafeInv'
    BY <1>18 DEF DestroyClose, IInv, TypeInv, LockInv, SafeInv, SubscriptionMatches, Started
  <2>5. MsgInv'
    BY <1>18 DEF DestroyClose, IInv, TypeInv, OffsetInv, LockInv, MsgInv
  <2> QED BY <2>1, <2>2, <2>3, <2>4, <2>5 DEF IInv
<1>19. ASSUME NEW x \in Topics, Arrive(x)
       PROVE  IInv'
  <2>1. TypeInv'
    BY <1>19 DEF Arrive, IInv, TypeInv
  <2>2. OffsetInv'
    BY <1>19 DEF Arrive, IInv, OffsetInv
  <2>3. LockInv'
    BY <1>19 DEF Arrive, IInv, TypeInv, LockInv, Started
  <2>4. SafeInv'
    BY <1>19 DEF Arrive, IInv, TypeInv, LockInv, SafeInv, SubscriptionMatches, Started
  <2>5. MsgInv'
    BY <1>19 DEF Arrive, IInv, TypeInv, OffsetInv, LockInv, MsgInv
  <2> QED BY <2>1, <2>2, <2>3, <2>4, <2>5 DEF IInv
<1>20. ASSUME NEW x \in Topics, Assign(x)
       PROVE  IInv'
  <2>1. TypeInv'
    BY <1>20 DEF Assign, IInv, TypeInv
  <2>2. OffsetInv'
    <3>1. arrived[x] \in 0 .. MaxMsgs /\ committed[x] \in NoOffset .. MaxMsgs
      BY DEF IInv, OffsetInv
    <3>2. arrived[x] \in NoOffset .. MaxMsgs
      BY <3>1 DEF NoOffset
    <3>3. PICK o \in NoOffset .. MaxMsgs : position' = [position EXCEPT ![x] = o]
      BY <1>20, <3>1, <3>2 DEF Assign
    <3> QED
      BY <1>20, <3>3 DEF Assign, IInv, OffsetInv
  <2>3. LockInv'
    BY <1>20 DEF Assign, IInv, TypeInv, LockInv, Started
  <2>4. SafeInv'
    BY <1>20 DEF Assign, IInv, TypeInv, LockInv, SafeInv, SubscriptionMatches, Started
  <2>5. MsgInv'
    BY <1>20 DEF Assign, IInv, TypeInv, OffsetInv, LockInv, MsgInv
  <2> QED BY <2>1, <2>2, <2>3, <2>4, <2>5 DEF IInv
<1>21. ASSUME NEW x \in Topics, Commit(x)
       PROVE  IInv'
  <2>1. TypeInv'
    BY <1>21 DEF Commit, IInv, TypeInv
  <2>2. OffsetInv'
    BY <1>21 DEF Commit, IInv, OffsetInv
  <2>3. LockInv'
    BY <1>21 DEF Commit, IInv, TypeInv, LockInv, Started
  <2>4. SafeInv'
    BY <1>21 DEF Commit, IInv, TypeInv, LockInv, SafeInv, SubscriptionMatches, Started
  <2>5. MsgInv'
    BY <1>21 DEF Commit, IInv, TypeInv, OffsetInv, LockInv, MsgInv
  <2> QED BY <2>1, <2>2, <2>3, <2>4, <2>5 DEF IInv
<1> QED
  BY <1>0, <1>1, <1>2, <1>3, <1>4, <1>5, <1>6, <1>7, <1>8, <1>9, <1>10, <1>11, <1>12, <1>13, <1>14,
     <1>15, <1>16, <1>17, <1>18, <1>19, <1>20, <1>21
  DEF Next, PopperStep

\* Every initial state satisfies IInv.
LEMMA Starts == Init => IInv
<1> SUFFICES ASSUME Init PROVE IInv
  OBVIOUS
<1>1. \A o \in {NoOffset, 0} : o \in NoOffset .. MaxMsgs
  BY PopAssumption DEF NoOffset
<1>2. OffsetInv
  BY <1>1, PopAssumption DEF Init, OffsetInv, Unassigned
<1>3. TypeInv /\ LockInv
  BY PopAssumption DEF Init, TypeInv, LockInv, Started, Threads, NoThread, Readers
<1>4. SafeInv /\ MsgInv
  BY PopAssumption DEF Init, SafeInv, MsgInv, SubscriptionMatches, Threads, Readers
<1> QED
  BY <1>2, <1>3, <1>4 DEF IInv

\* So IInv holds in every reachable state.
LEMMA AlwaysIInv == Spec => []IInv
  BY Starts, Inductive, PTL DEF Spec

\* A message polled from kafka has been given to a caller or is with the pop that
\* holds the lock, whenever pop is told to let go (ZooKfkTopicsPop.cpp, pop), and
\* though topics are started and stopped and their messages may come again.
THEOREM MessagesAreKept == Spec => []NoMessageLost
<1>1. IInv => NoMessageLost
  BY DEF IInv, OffsetInv, MsgInv, NoMessageLost, InHand
<1> QED
  BY <1>1, AlwaysIInv, PTL

\* topics_ and librdkafka's subscription agree also after refused calls
\* (ZooKfkTopicsPop.cpp, kfkTopicConsumeStart and kfkTopicConsumeStop); only a
\* kfkInit that failed leaves topics_ filled with nothing subscribed to.
THEOREM SubscriptionsAgree == Spec => []SubscriptionMatches
<1>1. IInv => SubscriptionMatches
  BY DEF IInv, SafeInv
<1> QED
  BY <1>1, AlwaysIInv, PTL

\* The handle a pop polls is open and no other thread has the lock, though destroy
\* and switchFlag are set without it (ZooKfkTopicsPop.cpp, pop, kfkDestroy).
THEOREM PollsAreSafe == Spec => []PollIsSafe
<1>1. IInv => PollIsSafe
  BY DEF IInv, LockInv, SafeInv, PollIsSafe
<1> QED
  BY <1>1, AlwaysIInv, PTL

-----------------------------------------------------------------------------
(* zookafka: kfkDestroy and the brokers                                     *)

\* What only the owner, zookeeper's thread and zookeeper change.
Aside ==
  UNCHANGED <<zkVars, initFailed, destroy>> /\ pc'[Owner] = pc[Owner] /\ pc'[Watcher] = pc[Watcher]

\* The steps of poppers.
PopSteps == \E p \in Poppers : Call(p, "pop") \/ Call(p, "tryPop") \/ PopEnter(p) \/ PopperStep(p)

\* The steps of those who change the list of topics.
ChangeSteps ==
  \E c \in Controllers :
    StartTopic(c) \/ StopTopic(c) \/ \E x \in Topics : Change(c, x, "start") \/ Change(c, x, "stop")

\* Those of kafka.
KafkaSteps == \E x \in Topics : Arrive(x) \/ Assign(x) \/ Commit(x)

\* Poppers and kafka leave all but the lock and the messages alone.
LEMMA PopAside ==
  ASSUME TypeInv, PopSteps \/ KafkaSteps \/ UNCHANGED vars
  PROVE  Aside /\ UNCHANGED <<flagVars, calls, misuse>>
<1>1. CASE PopSteps
  <2>1. PICK p \in Poppers : Call(p, "pop") \/ Call(p, "tryPop") \/ PopEnter(p) \/ PopperStep(p)
    BY <1>1 DEF PopSteps
  <2>2. UNCHANGED <<zkVars, initFailed, flagVars, calls, misuse>>
    BY <2>1 DEF Call, PopEnter, PopperStep, Flags, Give, PollGets, PollGetsNone
  <2>3. \E w : pc' = [pc EXCEPT ![p] = w]
    BY <2>1 DEF Call, PopEnter, PopperStep, Flags, Give, PollGets, PollGetsNone, Go
  <2>4. p # Owner /\ p # Watcher
    BY PopAssumption
  <2>5. Owner \in Threads /\ Watcher \in Threads /\ DOMAIN pc = Threads
    BY DEF Threads, TypeInv
  <2> QED
    BY <2>2, <2>3, <2>4, <2>5 DEF Aside, flagVars
<1>2. CASE KafkaSteps \/ UNCHANGED vars
  BY <1>2 DEF KafkaSteps, Arrive, Assign, Commit, vars, Aside, flagVars
<1> QED
  BY <1>1, <1>2

\* Changes of the topics leave the brokers alone.
LEMMA ChangeAside == ASSUME TypeInv, ChangeSteps PROVE Aside
<1>1. PICK c \in Controllers : StartTopic(c) \/ StopTopic(c)
                                 \/ \E x \in Topics : Change(c, x, "start") \/ Change(c, x, "stop")
  BY DEF ChangeSteps
<1>2. UNCHANGED <<zkVars, initFailed, destroy>>
  BY <1>1 DEF StartTopic, StopTopic, Returns, Change
<1>3. pc' = pc \/ \E w : pc' = [pc EXCEPT ![c] = w]
  BY <1>1 DEF StartTopic, StopTopic, Returns, Change, Go
<1>4. c # Owner /\ c # Watcher
  BY PopAssumption
<1>5. Owner \in Threads /\ Watcher \in Threads /\ DOMAIN pc = Threads
  BY DEF Threads, TypeInv
<1> QED
  BY <1>2, <1>3, <1>4, <1>5 DEF Aside

\* The other steps, one by one.
MainSteps ==
  \/ ZookInit \/ KfkInit \/ DestroyCall \/ WatchRead
  \/ \E leave \in BOOLEAN : ChangeKafkaBrokers(leave)
  \/ \E t \in Readers : Destroy(t) \/ DestroyClose(t) \/ \E b \in Brokers : GetBroker(t, b)
  \/ \E b \in Brokers : BrokersChange(b)

\* Every step is one of these.
LEMMA PopCases == [Next]_vars => UNCHANGED vars \/ PopSteps \/ KafkaSteps \/ ChangeSteps \/ MainSteps
  BY DEF Next, PopSteps, KafkaSteps, ChangeSteps, MainSteps

\* Where the owner and zookeeper's thread are, and how often they have added to
\* destroy.
Destroyed(t) == IF pc[t] \in {"closing", "destroyed"} THEN 1 ELSE 0
WhereInv ==
  /\ pc[Owner] \in {"new", "read", "idle", "destroyLock", "closing", "destroyed"}
  /\ pc[Watcher] \in {"read", "idle", "destroyLock", "closing", "destroyed"}
  /\ \A t \in Readers : pc[t] \in {"destroyLock", "closing", "destroyed"} => destroy > 0
  /\ destroy <= 1 + Destroyed(Owner) + Destroyed(Watcher)

\* The two are threads and not the same one.
LEMMA TwoThreads ==
  ASSUME TypeInv
  PROVE  /\ Owner \in Threads /\ Watcher \in Threads /\ Owner # Watcher /\ DOMAIN pc = Threads
         /\ destroy \in Nat
  BY PopAssumption DEF TypeInv, Threads

\* WhereInv is inductive: each of the two adds once, after the last to set it.
LEMMA WhereKept == ASSUME IInv, WhereInv, [Next]_vars PROVE WhereInv'
<1>0. TypeInv
  BY DEF IInv
<1>a. /\ Owner \in Threads /\ Watcher \in Threads /\ Owner # Watcher /\ DOMAIN pc = Threads
      /\ destroy \in Nat
  BY <1>0, TwoThreads
<1> USE <1>a DEF WhereInv, Destroyed, Readers, Go, flagVars
<1>1. CASE Aside
  BY <1>1 DEF Aside
<1>2. CASE ZookInit \/ KfkInit
  BY <1>2 DEF ZookInit, ListBrokers, ListFails, KfkInit, AllRead
<1>3. CASE DestroyCall
  BY <1>3 DEF DestroyCall
<1>4. CASE WatchRead
  BY <1>4 DEF WatchRead, WatchTakes, ListBrokers, ListFails
<1>5. ASSUME NEW leave \in BOOLEAN, ChangeKafkaBrokers(leave)
      PROVE  WhereInv'
  BY <1>5 DEF ChangeKafkaBrokers, AllRead
<1>6. ASSUME NEW t \in Readers, Destroy(t)
      PROVE  WhereInv'
  <2>1. /\ destroy' = destroy + 1 /\ pc[t] = "destroyLock"
        /\ \E w \in {"closing", "destroyed"} : pc' = [pc EXCEPT ![t] = w]
    BY <1>6 DEF Destroy
  <2>2. CASE t = Owner
    BY <2>1, <2>2
  <2>3. CASE t = Watcher
    BY <2>1, <2>3
  <2> QED
    BY <2>2, <2>3
<1>7. ASSUME NEW t \in Readers, DestroyClose(t)
      PROVE  WhereInv'
  <2>1. destroy' = destroy /\ pc[t] = "closing" /\ pc' = [pc EXCEPT ![t] = "destroyed"]
    BY <1>7 DEF DestroyClose
  <2>2. CASE t = Owner
    BY <2>1, <2>2
  <2>3. CASE t = Watcher
    BY <2>1, <2>3
  <2> QED
    BY <2>2, <2>3
<1>8. ASSUME NEW t \in Readers, NEW b \in Brokers, GetBroker(t, b) \/ BrokersChange(b)
      PROVE  WhereInv'
  BY <1>8 DEF GetBroker, BrokersChange
<1>9. Owner \in Readers
  OBVIOUS
<1> QED
  BY <1>0, <1>1, <1>2, <1>3, <1>4, <1>5, <1>6, <1>7, <1>8, <1>9, PopCases, PopAside, ChangeAside
  DEF MainSteps

\* The types of what IInv does not speak of.
FlagInv ==
  /\ ids \subseteq Brokers /\ watch \in BOOLEAN /\ event \in BOOLEAN /\ changes \in 0 .. MaxChanges
  /\ toRead \in [Readers -> SUBSET Brokers] /\ list \in [Readers -> SUBSET Brokers]
  /\ failed \in BOOLEAN /\ initFailed \in BOOLEAN /\ kfkBrokers \subseteq Brokers
  /\ zookeeph \in {"null", "open"}
  /\ switchFlag \in BOOLEAN /\ errorFlag \in BOOLEAN /\ misuse \in BOOLEAN
  /\ calls \in [Controllers -> 0 .. MaxCalls]

\* FlagInv is inductive.
LEMMA FlagKept == ASSUME IInv, FlagInv, [Next]_vars PROVE FlagInv'
<1>0. TypeInv
  BY DEF IInv
<1> USE PopAssumption DEF zkVars, flagVars
<1>1. CASE UNCHANGED vars \/ PopSteps \/ KafkaSteps
  <2>1. UNCHANGED <<zkVars, initFailed, flagVars, calls, misuse>>
    BY <1>0, <1>1, PopAside DEF Aside
  <2> QED
    BY <2>1 DEF FlagInv
<1>3. ASSUME NEW c \in Controllers, StartTopic(c) \/ StopTopic(c)
      PROVE  FlagInv'
  <2>1. UNCHANGED <<zkVars, initFailed, calls>> /\ switchFlag' = FALSE
    BY <1>3 DEF StartTopic, StopTopic, Returns
  <2>2. errorFlag' \in BOOLEAN
    BY <1>3 DEF StartTopic, StopTopic, Resubscribe, FlagInv
  <2>3. misuse' \in BOOLEAN
    BY <1>3 DEF StartTopic, StopTopic, FlagInv
  <2> QED
    BY <2>1, <2>2, <2>3 DEF FlagInv
<1>4. ASSUME NEW c \in Controllers, NEW x \in Topics, NEW w \in {"start", "stop"}, Change(c, x, w)
      PROVE  FlagInv'
  <2>1. calls \in [Controllers -> 0 .. MaxCalls] /\ calls[c] < MaxCalls
        /\ calls' = [calls EXCEPT ![c] = calls[c] + 1]
    BY <1>4 DEF Change, FlagInv
  <2>2. calls[c] + 1 \in 0 .. MaxCalls
    BY <2>1
  <2>3. calls' \in [Controllers -> 0 .. MaxCalls]
    BY <2>1, <2>2
  <2>4. UNCHANGED <<zkVars, initFailed, errorFlag, misuse>> /\ switchFlag' \in BOOLEAN
    BY <1>4 DEF Change, FlagInv
  <2> QED
    BY <2>3, <2>4 DEF FlagInv
<1>5. CASE ZookInit
  BY <1>5 DEF ZookInit, ListBrokers, ListFails, FlagInv, Readers
<1>6. CASE KfkInit
  BY <1>6 DEF KfkInit, FlagInv, Readers
<1>7. CASE WatchRead
  BY <1>7 DEF WatchRead, WatchTakes, ListBrokers, ListFails, FlagInv, Readers
<1>8. ASSUME NEW leave \in BOOLEAN, ChangeKafkaBrokers(leave)
      PROVE  FlagInv'
  BY <1>8 DEF ChangeKafkaBrokers, FlagInv, Readers
<1>9. ASSUME NEW t \in Readers, DestroyCall \/ Destroy(t) \/ DestroyClose(t)
      PROVE  FlagInv'
  BY <1>9 DEF DestroyCall, Destroy, DestroyClose, FlagInv
<1>10. ASSUME NEW t \in Readers, NEW b \in Brokers, GetBroker(t, b)
       PROVE  FlagInv'
  BY <1>10 DEF GetBroker, FlagInv
<1>11. ASSUME NEW b \in Brokers, BrokersChange(b)
       PROVE  FlagInv'
  <2>1. changes' \in 0 .. MaxChanges
    BY <1>11 DEF BrokersChange, FlagInv
  <2> QED
    BY <1>11, <2>1 DEF BrokersChange, FlagInv
<1>12. Owner \in Readers
  BY DEF Readers
<1> QED
  BY <1>1, <1>3, <1>4, <1>5, <1>6, <1>7, <1>8, <1>9, <1>10, <1>11, <1>12, PopCases
  DEF MainSteps, ChangeSteps

\* All of it in every reachable state.
LEMMA AlwaysWhere == Spec => [](WhereInv /\ FlagInv)
<1>1. Init => WhereInv /\ FlagInv
  <2> SUFFICES ASSUME Init PROVE WhereInv /\ FlagInv
    OBVIOUS
  <2>1. pc[Owner] = "new" /\ pc[Watcher] = "idle"
    BY PopAssumption DEF Init, Threads
  <2>a. 0 \in 0 .. MaxChanges /\ 0 \in 0 .. MaxCalls
    BY PopAssumption
  <2>2. FlagInv
    BY <2>a DEF Init, FlagInv
  <2> QED
    BY <2>1, <2>2 DEF Init, WhereInv, Destroyed, Readers
<1> QED
  BY <1>1, AlwaysIInv, WhereKept, FlagKept, PTL DEF Spec

\* Every variable of the consumer has its type; destroy is at most 3 although several
\* threads set and add to it (ZooKfkTopicsPop.cpp, kfkDestroy).
THEOREM PopTypeCorrect == Spec => []TypeOK
<1>1. IInv /\ WhereInv /\ FlagInv => TypeOK
  <2> SUFFICES ASSUME IInv, WhereInv, FlagInv PROVE TypeOK
    OBVIOUS
  <2>1. destroy \in 0 .. 3
    BY DEF IInv, TypeInv, WhereInv, Destroyed
  <2>2. /\ kfkt \in {"null", "open"} /\ topics \subseteq Topics /\ subscribed \subseteq Topics
        /\ lock \in Poppers \cup {Owner, Watcher, NoThread}
        /\ pc \in [Threads -> {"new", "read", "idle", "pop", "tryPop", "poll", "tryPoll", "flags", "give",
                               "start", "stop", "destroyLock", "closing", "destroyed"}]
        /\ arg \in [Controllers -> Topics \cup {NoTopic}]
    BY DEF IInv, TypeInv
  <2>3. /\ arrived \in [Topics -> 0 .. MaxMsgs]
        /\ {position, committed} \subseteq [Topics -> NoOffset .. MaxMsgs]
        /\ polled \subseteq Msgs /\ given \subseteq Msgs
        /\ msg \in [Poppers -> Msgs \cup {NoMsg, ErrMsg}]
    BY DEF IInv, OffsetInv
  <2>4. /\ ids \subseteq Brokers /\ {watch, event, failed, initFailed} \subseteq BOOLEAN
        /\ changes \in 0 .. MaxChanges
        /\ {toRead, list} \subseteq [Readers -> SUBSET Brokers] /\ kfkBrokers \subseteq Brokers
        /\ zookeeph \in {"null", "open"}
        /\ {switchFlag, errorFlag, misuse} \subseteq BOOLEAN /\ calls \in [Controllers -> 0 .. MaxCalls]
    BY DEF FlagInv
  <2> QED
    BY <2>1, <2>2, <2>3, <2>4 DEF TypeOK
<1> QED
  BY <1>1, AlwaysIInv, AlwaysWhere, PTL

\* A list of brokers that is being read or was given to the handle is the one in
\* zookeeper and the watch is set, or an event is on its way, or a read failed. What
\* is still to be read counts: a broker that goes before its address is read takes
\* an event with it.
Reads(t) == list[t] \cup toRead[t] = ids
KnownInv ==
  /\ ~Started => ~event /\ pc[Watcher] = "idle"
  /\ pc[Owner] = "new" => list[Owner] = {}
  /\ pc[Watcher] # "read" => list[Watcher] = {}
  /\ pc[Owner] = "read" => watch /\ (failed \/ Reads(Owner))
  /\ Started /\ ~initFailed /\ destroy = 0 =>
       \/ event \/ failed
       \/ /\ watch
          /\ pc[Watcher] = "read" => Reads(Watcher)
          /\ pc[Watcher] = "idle" => kfkBrokers = ids

\* KnownInv is inductive when the brokers do not change in zookInit.
LEMMA KnownKept ==
  ASSUME ~EarlyChange, IInv, WhereInv, FlagInv, KnownInv, [Next]_vars
  PROVE  KnownInv'
<1>0. TypeInv
  BY DEF IInv
<1>a. /\ Owner \in Threads /\ Watcher \in Threads /\ Owner # Watcher /\ DOMAIN pc = Threads
      /\ destroy \in Nat
  BY <1>0, TwoThreads
<1>b. DOMAIN list = Readers /\ DOMAIN toRead = Readers /\ Owner \in Readers /\ Watcher \in Readers
  BY DEF FlagInv, Readers
<1> USE <1>a, <1>b DEF KnownInv, WhereInv, Started, Reads, Go, flagVars
<1>1. CASE Aside
  BY <1>1 DEF Aside, zkVars
<1>2. CASE ZookInit
  BY <1>2 DEF ZookInit, ListBrokers, ListFails
<1>3. CASE KfkInit
  BY <1>3 DEF KfkInit, AllRead
<1>4. CASE DestroyCall
  BY <1>4 DEF DestroyCall, zkVars
<1>5. CASE WatchRead
  BY <1>5 DEF WatchRead, WatchTakes, ListBrokers, ListFails
<1>6. ASSUME NEW leave \in BOOLEAN, ChangeKafkaBrokers(leave)
      PROVE  KnownInv'
  BY <1>6 DEF ChangeKafkaBrokers, AllRead
<1>7. ASSUME NEW t \in Readers, Destroy(t)
      PROVE  KnownInv'
  BY <1>7 DEF Destroy, zkVars, Readers
<1>8. ASSUME NEW t \in Readers, DestroyClose(t)
      PROVE  KnownInv'
  BY <1>8 DEF DestroyClose, Readers
<1>9. ASSUME NEW t \in Readers, NEW b \in Brokers, GetBroker(t, b)
      PROVE  KnownInv'
  BY <1>9 DEF GetBroker, Readers
<1>10. ASSUME NEW b \in Brokers, BrokersChange(b)
       PROVE  KnownInv'
  BY <1>10 DEF BrokersChange
<1> QED
  BY <1>0, <1>1, <1>2, <1>3, <1>4, <1>5, <1>6, <1>7, <1>8, <1>9, <1>10, PopCases, PopAside, ChangeAside
  DEF MainSteps

\* A consumer whose zookeeper thread is idle, with no event on its way, knows the
\* brokers that are in zookeeper now, until kfkDestroy, though brokers go and come
\* between the reads of their list and of their addresses; provided that none of
\* these reads failed and that the brokers do not change in zookInit
\* (ZooKfkTopicsPop.cpp, set_brokerlist_from_zookeeper, watcher).
THEOREM BrokersAreCurrentAlways ==
  ASSUME ~EarlyChange PROVE Spec => []BrokersAreCurrent
<1>1. Init => KnownInv
  <2> SUFFICES ASSUME Init PROVE KnownInv
    OBVIOUS
  <2>1. pc[Owner] = "new" /\ pc[Watcher] = "idle"
    BY PopAssumption DEF Init, Threads
  <2>2. list[Owner] = {} /\ list[Watcher] = {}
    BY DEF Init, Readers
  <2> QED
    BY <2>1, <2>2 DEF Init, KnownInv, Started
<1>2. KnownInv => BrokersAreCurrent
  BY DEF KnownInv, BrokersAreCurrent
<1>3. IInv /\ WhereInv /\ FlagInv /\ KnownInv /\ [Next]_vars => KnownInv'
  BY KnownKept
<1> QED
  BY <1>1, <1>2, <1>3, AlwaysIInv, AlwaysWhere, PTL DEF Spec

-----------------------------------------------------------------------------
(* zookconfig: types                                                        *)

\* The watches and the events on their way.
WatchOK ==
  childWatch \in BOOLEAN /\ dataWatch \in BOOLEAN /\ events \in Seq({"child", "changed"})

\* An event of zookeeper keeps the types.
LEMMA EventTypes == ASSUME TreeOK, ChildEvent \/ UNCHANGED watchVars PROVE WatchOK'
<1>1. events \in Seq({"child", "changed"}) /\ childWatch \in BOOLEAN /\ dataWatch \in BOOLEAN
  BY DEF TreeOK
<1>2. Append(events, "child") \in Seq({"child", "changed"})
  BY <1>1
<1> QED
  BY <1>1, <1>2 DEF ChildEvent, watchVars, WatchOK

\* A node made by a process or left alone has its type.
LEMMA NodeTypes ==
  ASSUME TreeOK, ServersOK, NEW s \in Servers, SetNode(s, start[s]) \/ UNCHANGED <<node, watchVars>>
  PROVE  node' \in [Servers -> 0 .. opened] /\ WatchOK'
<1>1. node \in [Servers -> 0 .. opened] /\ start[s] \in 0 .. opened
  BY DEF TreeOK, ServersOK
<1>2. node' \in [Servers -> 0 .. opened]
  BY <1>1 DEF SetNode
<1> QED
  BY <1>2, EventTypes DEF SetNode

\* Every step of a registering process keeps the types.
LEMMA ServerTypes ==
  ASSUME ConfTypeOK, NEW s \in Servers, ServerStep(s) \/ Start(s) \/ Lost(s) \/ Crash(s)
  PROVE  ConfTypeOK'
<1> USE ZookAssumption DEF ConfTypeOK, TreeOK, ServersOK, LoadsOK, FollowerOK, treeVars, watchVars, sessionVars, serverVars, loadVars, configVars,
      listVars, GoTo, NoNode
<1>1. CASE ExistsParent(s)
  <2>1. TreeOK'
    BY <1>1 DEF ExistsParent
  <2>2. ServersOK'
    BY <1>1 DEF ExistsParent
  <2>3. LoadsOK'
    BY <1>1 DEF ExistsParent
  <2>4. FollowerOK'
    BY <1>1 DEF ExistsParent
  <2> QED
    BY <2>1, <2>2, <2>3, <2>4
<1>2. CASE CreateParent(s)
  <2>1. TreeOK'
    BY <1>2 DEF CreateParent
  <2>2. ServersOK'
    BY <1>2 DEF CreateParent
  <2>3. LoadsOK'
    BY <1>2 DEF CreateParent
  <2>4. FollowerOK'
    BY <1>2 DEF CreateParent
  <2> QED
    BY <2>1, <2>2, <2>3, <2>4
<1>3. CASE Exists(s)
  <2>1. TreeOK'
    BY <1>3 DEF Exists
  <2>2. ServersOK'
    BY <1>3 DEF Exists
  <2>3. LoadsOK'
    BY <1>3 DEF Exists
  <2>4. FollowerOK'
    BY <1>3 DEF Exists
  <2> QED
    BY <2>1, <2>2, <2>3, <2>4
<1>4. CASE Set(s)
  <2>1. TreeOK'
    BY <1>4 DEF Set
  <2>2. ServersOK'
    BY <1>4 DEF Set
  <2>3. LoadsOK'
    BY <1>4 DEF Set
  <2>4. FollowerOK'
    BY <1>4 DEF Set
  <2> QED
    BY <2>1, <2>2, <2>3, <2>4
<1>5. CASE Create(s)
  <2>a. node' \in [Servers -> 0 .. opened] /\ WatchOK'
    BY <1>5, NodeTypes DEF Create
  <2>1. TreeOK'
    BY <1>5, <2>a DEF Create, WatchOK
  <2>b. \E p \in {"ok", "failed"} : GoTo(s, p)
    BY <1>5 DEF Create
  <2>2. ServersOK'
    BY <1>5, <2>b DEF Create
  <2>3. LoadsOK'
    BY <1>5 DEF Create, SetNode, ChildEvent
  <2>4. FollowerOK'
    BY <1>5 DEF Create, SetNode, ChildEvent
  <2> QED
    BY <2>1, <2>2, <2>3, <2>4
<1>6. CASE Start(s)
  <2>1. opened' = opened + 1 /\ opened' \in 0 .. MaxStarts
    BY <1>6 DEF Start
  <2>2. 0 .. opened \subseteq 0 .. opened' /\ 1 .. opened \subseteq 1 .. opened'
    BY <2>1
  <2>3. opened' \in 1 .. opened'
    BY <2>1
  <2>4. sessions' \subseteq 1 .. opened'
    BY <1>6, <2>2, <2>3 DEF Start
  <2>5. start' \in [Servers -> 0 .. opened'] /\ node' \in [Servers -> 0 .. opened']
    <3>1. start \in [Servers -> 0 .. opened'] /\ node \in [Servers -> 0 .. opened']
      BY <2>2
    <3>2. opened' \in 0 .. opened'
      BY <2>1
    <3>3. start' = [start EXCEPT ![s] = opened'] /\ node' = node
      BY <1>6 DEF Start
    <3> QED
      BY <3>1, <3>2, <3>3
  <2>6. found' \in [Loaders -> SUBSET (Servers \X (1 .. opened'))]
    <3>1. Servers \X (1 .. opened) \subseteq Servers \X (1 .. opened')
      BY <2>2
    <3>2. SUBSET (Servers \X (1 .. opened)) \subseteq SUBSET (Servers \X (1 .. opened'))
      BY <3>1
    <3>3. found' = found
      BY <1>6 DEF Start
    <3> QED
      BY <3>2, <3>3
  <2>7. TreeOK'
    BY <1>6, <2>1, <2>4, <2>5 DEF Start
  <2>8. ServersOK'
    BY <1>6, <2>5 DEF Start
  <2>9. LoadsOK'
    BY <1>6, <2>6 DEF Start
  <2>10. FollowerOK'
    BY <1>6 DEF Start
  <2> QED
    BY <2>7, <2>8, <2>9, <2>10
<1>7. CASE Lost(s)
  <2>a. node' \in [Servers -> 0 .. opened] /\ WatchOK'
    BY <1>7, NodeTypes DEF Lost
  <2>b1. losses' \in 0 .. MaxLosses
    BY <1>7 DEF Lost
  <2>b. parent' \in BOOLEAN /\ losses' \in 0 .. MaxLosses
    BY <1>7, <2>b1 DEF Lost
  <2>1. TreeOK'
    BY <1>7, <2>a, <2>b DEF Lost, WatchOK
  <2>c. tries' \in [Servers -> 0 .. Tries - 1]
    <3>1. tries[s] + 1 < Tries => tries[s] + 1 \in 0 .. Tries - 1
      OBVIOUS
    <3>2. 0 \in 0 .. Tries - 1
      OBVIOUS
    <3>3. \E n \in 0 .. Tries - 1 : tries' = [tries EXCEPT ![s] = n]
      BY <1>7, <3>1, <3>2 DEF Lost
    <3> QED
      BY <3>3
  <2>d. spc' = spc \/ spc' = [spc EXCEPT ![s] = "failed"]
    BY <1>7 DEF Lost
  <2>e. UNCHANGED <<start, opened>>
    BY <1>7 DEF Lost
  <2>2. ServersOK'
    BY <2>c, <2>d, <2>e
  <2>3. LoadsOK'
    BY <1>7 DEF Lost, SetNode, ChildEvent
  <2>4. FollowerOK'
    BY <1>7 DEF Lost, SetNode, ChildEvent
  <2> QED
    BY <2>1, <2>2, <2>3, <2>4
<1>8. CASE Crash(s)
  <2>1. TreeOK'
    BY <1>8 DEF Crash
  <2>2. ServersOK'
    BY <1>8 DEF Crash
  <2>3. LoadsOK'
    BY <1>8 DEF Crash
  <2>4. FollowerOK'
    BY <1>8 DEF Crash
  <2> QED
    BY <2>1, <2>2, <2>3, <2>4
<1> QED
  BY <1>1, <1>2, <1>3, <1>4, <1>5, <1>6, <1>7, <1>8 DEF ServerStep

\* Every step of a load keeps the types.
LEMMA LoadTypes ==
  ASSUME ConfTypeOK, NEW t \in Loaders,
         Children(t) \/ \E s \in Servers : GetChild(t, s) \/ LoadLost(t, s)
  PROVE  ConfTypeOK'
<1> USE ZookAssumption DEF ConfTypeOK, TreeOK, ServersOK, LoadsOK, FollowerOK, treeVars, watchVars, sessionVars, serverVars, loadVars, configVars,
      listVars, NoNode
<1>1. CASE Children(t)
  <2>1. TreeOK'
    BY <1>1 DEF Children, ReadNames
  <2>2. ServersOK'
    BY <1>1 DEF Children, ReadNames
  <2>3. LoadsOK'
    BY <1>1 DEF Children, ReadNames
  <2>4. FollowerOK'
    BY <1>1 DEF Children, ReadNames
  <2> QED
    BY <2>1, <2>2, <2>3, <2>4
<1>2. ASSUME NEW s \in Servers, GetChild(t, s)
      PROVE  ConfTypeOK'
  <2>1. found' \in [Loaders -> SUBSET (Servers \X (1 .. opened))]
    <3>1. node[s] # NoNode => <<s, node[s]>> \in Servers \X (1 .. opened)
      OBVIOUS
    <3>2. found' = found \/ (node[s] # NoNode /\ found' = [found EXCEPT ![t] = @ \cup {<<s, node[s]>>}])
      BY <1>2 DEF GetChild
    <3>3. found \in [Loaders -> SUBSET (Servers \X (1 .. opened))]
      OBVIOUS
    <3>4. found' = found \/ \E p \in Servers \X (1 .. opened) : found' = [found EXCEPT ![t] = found[t] \cup {p}]
      BY <3>1, <3>2
    <3> QED
      BY ONLY <3>3, <3>4
  <2>2. names' \in [Loaders -> SUBSET Servers] /\ opened' = opened
    <3>1. \E N \in SUBSET Servers : names' = [names EXCEPT ![t] = N]
      BY <1>2 DEF GetChild
    <3> QED
      BY <1>2, <3>1 DEF GetChild
  <2>3. LoadsOK'
    BY <1>2, <2>1, <2>2 DEF GetChild
  <2>4. TreeOK'
    BY <1>2 DEF GetChild
  <2>5. ServersOK'
    BY <1>2 DEF GetChild
  <2>6. FollowerOK'
    BY <1>2 DEF GetChild
  <2> QED
    BY <2>3, <2>4, <2>5, <2>6
<1>3. ASSUME NEW s \in Servers, LoadLost(t, s)
      PROVE  ConfTypeOK'
  <2>a. losses' \in 0 .. MaxLosses
    BY <1>3 DEF LoadLost
  <2>1. TreeOK'
    BY <1>3, <2>a DEF LoadLost
  <2>2. ServersOK'
    BY <1>3 DEF LoadLost
  <2>b. ltries' \in [Loaders -> 0 .. Tries - 1]
    <3>0. ltries[t] \in 0 .. Tries - 1
      OBVIOUS
    <3>1. ltries[t] + 1 < Tries => ltries[t] + 1 \in 0 .. Tries - 1
      BY ONLY <3>0, ZookAssumption
    <3>2. 0 \in 0 .. Tries - 1
      OBVIOUS
    <3>3. \E n \in 0 .. Tries - 1 : ltries' = [ltries EXCEPT ![t] = n]
      BY <1>3, <3>1, <3>2 DEF LoadLost
    <3> QED
      BY <3>3
  <2>c. names' \in [Loaders -> SUBSET Servers]
    <3>1. names' = names \/ \E N \in SUBSET Servers : names' = [names EXCEPT ![t] = N]
      BY <1>3 DEF LoadLost
    <3> QED
      BY <3>1
  <2>d. lpc' = lpc \/ lpc' = [lpc EXCEPT ![t] = "get"]
    BY <1>3 DEF LoadLost
  <2>3. LoadsOK'
    BY <1>3, <2>b, <2>c, <2>d DEF LoadLost
  <2>4. FollowerOK'
    BY <1>3 DEF LoadLost
  <2> QED
    BY <2>1, <2>2, <2>3, <2>4
<1> QED
  BY <1>1, <1>2, <1>3

\* ConfTypeOK is inductive.
LEMMA ConfTypesKept == ConfTypeOK /\ [ConfNext]_confVars => ConfTypeOK'
<1> SUFFICES ASSUME ConfTypeOK, [ConfNext]_confVars PROVE ConfTypeOK'
  OBVIOUS
<1> USE ZookAssumption DEF ConfTypeOK, TreeOK, ServersOK, LoadsOK, FollowerOK, treeVars, watchVars, sessionVars, serverVars, loadVars, configVars, listVars, Begin,
      Loaders, NoVal, Empty
<1>0. CASE UNCHANGED confVars
  <2>1. TreeOK'
    BY <1>0 DEF confVars
  <2>2. ServersOK'
    BY <1>0 DEF confVars
  <2>3. LoadsOK'
    BY <1>0 DEF confVars
  <2>4. FollowerOK'
    BY <1>0 DEF confVars
  <2> QED
    BY <2>1, <2>2, <2>3, <2>4
<1>1. CASE LoadGet
  <2>1. TreeOK'
    BY <1>1 DEF LoadGet
  <2>2. ServersOK'
    BY <1>1 DEF LoadGet
  <2>3. LoadsOK'
    BY <1>1 DEF LoadGet
  <2>4. FollowerOK'
    BY <1>1 DEF LoadGet
  <2> QED
    BY <2>1, <2>2, <2>3, <2>4
<1>2. CASE LoadInsert
  <2>1. TreeOK'
    BY <1>2 DEF LoadInsert
  <2>2. ServersOK'
    BY <1>2 DEF LoadInsert
  <2>3. LoadsOK'
    BY <1>2 DEF LoadInsert
  <2>a. -1 \in -2 .. MaxSets /\ got["app"] \in -2 .. MaxSets
    OBVIOUS
  <2>4. FollowerOK'
    BY <1>2, <2>a DEF LoadInsert
  <2> QED
    BY <2>1, <2>2, <2>3, <2>4
<1>3. CASE GetList
  <2>1. TreeOK'
    BY <1>3 DEF GetList
  <2>2. ServersOK'
    BY <1>3 DEF GetList
  <2>3. LoadsOK'
    BY <1>3 DEF GetList
  <2>4. FollowerOK'
    BY <1>3 DEF GetList
  <2> QED
    BY <2>1, <2>2, <2>3, <2>4
<1>4. CASE ListReturned
  <2>1. TreeOK'
    BY <1>4 DEF ListReturned
  <2>2. ServersOK'
    BY <1>4 DEF ListReturned
  <2>3. LoadsOK'
    BY <1>4 DEF ListReturned
  <2>4. FollowerOK'
    BY <1>4 DEF ListReturned
  <2> QED
    BY <2>1, <2>2, <2>3, <2>4
<1>5. CASE WatchChild
  <2>t. Tail(events) \in Seq({"child", "changed"})
    BY <1>5 DEF WatchChild
  <2>1. TreeOK'
    BY <1>5, <2>t DEF WatchChild
  <2>2. ServersOK'
    BY <1>5 DEF WatchChild
  <2>a. 0 \in 0 .. Tries - 1
    OBVIOUS
  <2>3. LoadsOK'
    BY <1>5, <2>a DEF WatchChild
  <2>4. FollowerOK'
    BY <1>5 DEF WatchChild
  <2> QED
    BY <2>1, <2>2, <2>3, <2>4
<1>6. CASE CallServerCb
  <2>1. TreeOK'
    BY <1>6 DEF CallServerCb
  <2>2. ServersOK'
    BY <1>6 DEF CallServerCb
  <2>3. LoadsOK'
    BY <1>6 DEF CallServerCb
  <2>4. FollowerOK'
    BY <1>6 DEF CallServerCb
  <2> QED
    BY <2>1, <2>2, <2>3, <2>4
<1>7. CASE WatchChanged
  <2>t. Tail(events) \in Seq({"child", "changed"})
    BY <1>7 DEF WatchChanged, UpdateGet
  <2>a. losses' \in 0 .. MaxLosses
    <3>1. losses' = losses \/ (losses < MaxLosses /\ losses' = losses + 1)
      BY <1>7 DEF WatchChanged, UpdateGet
    <3> QED
      BY <3>1
  <2>1. TreeOK'
    BY <1>7, <2>t, <2>a DEF WatchChanged, UpdateGet
  <2>2. ServersOK'
    BY <1>7 DEF WatchChanged, UpdateGet
  <2>3. LoadsOK'
    BY <1>7 DEF WatchChanged, UpdateGet
  <2>b. \E v \in -2 .. MaxSets : got' = [got EXCEPT !["watcher"] = v]
    <3>1. value \in -2 .. MaxSets /\ -2 \in -2 .. MaxSets
      OBVIOUS
    <3> QED
      BY <1>7, <3>1 DEF WatchChanged, UpdateGet
  <2>4. FollowerOK'
    BY <1>7, <2>b DEF WatchChanged, UpdateGet
  <2> QED
    BY <2>1, <2>2, <2>3, <2>4
<1>8. CASE UpdateConfig
  <2>1. TreeOK'
    BY <1>8 DEF UpdateConfig
  <2>2. ServersOK'
    BY <1>8 DEF UpdateConfig
  <2>3. LoadsOK'
    BY <1>8 DEF UpdateConfig
  <2>4. FollowerOK'
    BY <1>8 DEF UpdateConfig
  <2> QED
    BY <2>1, <2>2, <2>3, <2>4
<1>9. CASE SetConfig
  <2>a. Append(events, "changed") \in Seq({"child", "changed"})
    OBVIOUS
  <2>c. value' \in 0 .. MaxSets
    BY <1>9 DEF SetConfig
  <2>b. events' \in Seq({"child", "changed"}) /\ dataWatch' \in BOOLEAN /\ value' \in 0 .. MaxSets
    BY <1>9, <2>a, <2>c DEF SetConfig
  <2>1. TreeOK'
    BY <1>9, <2>b DEF SetConfig
  <2>2. ServersOK'
    BY <1>9 DEF SetConfig
  <2>3. LoadsOK'
    BY <1>9 DEF SetConfig
  <2>4. FollowerOK'
    BY <1>9 DEF SetConfig
  <2> QED
    BY <2>1, <2>2, <2>3, <2>4
<1>10. ASSUME NEW e \in 1 .. MaxStarts, Expire(e)
       PROVE  ConfTypeOK'
  <2>a. ChildEvent \/ UNCHANGED watchVars
    BY <1>10 DEF Expire
  <2>b. WatchOK'
    BY <2>a, EventTypes
  <2>c. node' \in [Servers -> 0 .. opened]
    <3>1. 0 \in 0 .. opened /\ \A s \in Servers : node[s] \in 0 .. opened
      OBVIOUS
    <3>2. node' = node \/ node' = [s \in Servers |-> IF node[s] = e THEN 0 ELSE node[s]]
      BY <1>10 DEF Expire, NoNode
    <3> QED
      BY <3>1, <3>2
  <2>1. TreeOK'
    BY <1>10, <2>b, <2>c DEF Expire, WatchOK
  <2>2. ServersOK'
    BY <1>10 DEF Expire, ChildEvent, NoNode
  <2>3. LoadsOK'
    BY <1>10 DEF Expire, ChildEvent, NoNode
  <2>4. FollowerOK'
    BY <1>10 DEF Expire, ChildEvent, NoNode
  <2> QED
    BY <2>1, <2>2, <2>3, <2>4
<1>11. CASE \E s \in Servers : ServerStep(s) \/ Start(s) \/ Lost(s) \/ Crash(s)
  BY <1>11, ServerTypes
<1>12. CASE \E t \in Loaders : Children(t) \/ \E s \in Servers : GetChild(t, s) \/ LoadLost(t, s)
  BY <1>12, LoadTypes
<1>13. "app" \in Loaders /\ "watcher" \in Loaders
  OBVIOUS
<1> HIDE DEF Loaders
<1> QED
  BY <1>0, <1>1, <1>2, <1>3, <1>4, <1>5, <1>6, <1>7, <1>8, <1>9, <1>10, <1>11, <1>12, <1>13
  DEF ConfNext, AppStep, WatcherStep, LoadStep

\* Every variable of the registering processes, of the follower and of zookeeper
\* has its type (ZookConfig.cpp).
THEOREM ConfTypeCorrect == ConfSpec => []ConfTypeOK
<1>1. ConfInit => ConfTypeOK
  <2> SUFFICES ASSUME ConfInit PROVE ConfTypeOK
    OBVIOUS
  <2> USE ZookAssumption DEF ConfInit, NoNode, NoVal, Empty
  <2>a. <<>> \in Seq({"child", "changed"}) /\ 0 \in 0 .. 0 /\ {} \subseteq 1 .. 0
    OBVIOUS
  <2>b. 0 \in 0 .. MaxStarts /\ 0 \in 0 .. MaxSets /\ 0 \in 0 .. MaxLosses /\ (~FreshTree) \in BOOLEAN
    OBVIOUS
  <2>1. TreeOK
    BY <2>a, <2>b DEF TreeOK
  <2>2. ServersOK
    BY DEF ServersOK
  <2>3. LoadsOK
    BY DEF LoadsOK
  <2>c. -1 \in -2 .. MaxSets
    OBVIOUS
  <2>d. got \in [Loaders -> -2 .. MaxSets] /\ configMap \in -2 .. MaxSets
    BY <2>c
  <2>4. FollowerOK
    BY <2>d DEF FollowerOK
  <2> QED
    BY <2>1, <2>2, <2>3, <2>4 DEF ConfTypeOK
<1> QED
  BY <1>1, ConfTypesKept, PTL DEF ConfSpec

-----------------------------------------------------------------------------
(* zookconfig: who owns a registration                                      *)

\* A process that is up has a session of its own, and once registered its node is
\* that session's.
SessionInv ==
  /\ \A s \in Servers : spc[s] # "down" => start[s] \in 1 .. opened
  /\ RegisteredIsOurs

\* Steps of the follower and changes of the value do not touch registrations.
LEMMA FollowerSteps ==
  ASSUME UNCHANGED confVars \/ AppStep \/ WatcherStep \/ SetConfig
           \/ \E t \in Loaders, s \in Servers : LoadLost(t, s)
  PROVE  UNCHANGED <<parent, node, serverVars>>
<1> USE DEF treeVars, serverVars, sessionVars
<1>1. CASE UNCHANGED confVars
  BY <1>1 DEF confVars
<1>2. CASE AppStep
  BY <1>2 DEF AppStep, LoadGet, LoadInsert, GetList, LoadStep, Children, ReadNames, GetChild,
               ListReturned
<1>3. CASE WatcherStep
  BY <1>3 DEF WatcherStep, WatchChild, LoadStep, Children, ReadNames, GetChild,
               CallServerCb, WatchChanged, UpdateGet, UpdateConfig
<1>4. CASE SetConfig
  BY <1>4 DEF SetConfig
<1>5. CASE \E t \in Loaders, s \in Servers : LoadLost(t, s)
  BY <1>5 DEF LoadLost
<1> QED
  BY <1>1, <1>2, <1>3, <1>4, <1>5

\* SessionInv is inductive. It needs both parts: a session expires only when the
\* process that opened it is down, and no session has the number of no node.
LEMMA SessionKept == ConfTypeOK /\ SessionInv /\ [ConfNext]_confVars => SessionInv'
<1> SUFFICES ASSUME ConfTypeOK, SessionInv, [ConfNext]_confVars PROVE SessionInv'
  OBVIOUS
<1> USE DEF SessionInv, RegisteredIsOurs, sessionVars, serverVars, treeVars, GoTo
<1>0. /\ node \in [Servers -> 0 .. opened] /\ opened \in Nat
      /\ start \in [Servers -> 0 .. opened] /\ DOMAIN spc = Servers
  BY ZookAssumption DEF ConfTypeOK, TreeOK, ServersOK
<1>1. CASE UNCHANGED <<node, serverVars>>
  BY <1>1
<1>2. ASSUME NEW e \in 1 .. MaxStarts, Expire(e)
      PROVE  SessionInv'
  <2>1. UNCHANGED <<opened, start, spc>>
    BY <1>2 DEF Expire
  <2>2. ASSUME NEW s \in Servers, spc[s] = "ok"
        PROVE  node'[s] = node[s]
    <3>1. start[s] # e
      BY <1>2, <2>2 DEF Expire
    <3>2. node[s] # e
      BY <2>2, <3>1
    <3> QED
      BY <1>0, <1>2, <3>2 DEF Expire
  <2> QED
    BY <2>1, <2>2
<1>3. ASSUME NEW s \in Servers, ExistsParent(s) \/ CreateParent(s) \/ Exists(s) \/ Set(s) \/ Crash(s)
      PROVE  SessionInv'
  <2>1. UNCHANGED <<node, opened, start>> /\ spc[s] # "down"
    BY <1>3 DEF ExistsParent, CreateParent, Exists, Set, Crash
  <2>2. \E p : spc' = [spc EXCEPT ![s] = p] /\ p # "ok"
    BY <1>3 DEF ExistsParent, CreateParent, Exists, Set, Crash
  <2> QED
    BY <1>0, <2>1, <2>2
<1>4. ASSUME NEW s \in Servers, Create(s)
      PROVE  SessionInv'
  <2>1. UNCHANGED <<opened, start>> /\ spc[s] # "down"
    BY <1>4 DEF Create
  <2>2. \/ spc' = [spc EXCEPT ![s] = "ok"] /\ node' = [node EXCEPT ![s] = start[s]]
        \/ spc' = [spc EXCEPT ![s] = "failed"] /\ node' = node
    BY <1>4 DEF Create, SetNode
  <2> QED
    BY <1>0, <2>1, <2>2
<1>5. ASSUME NEW s \in Servers, Start(s)
      PROVE  SessionInv'
  <2>1. /\ opened' = opened + 1 /\ start' = [start EXCEPT ![s] = opened'] /\ node' = node
        /\ spc' = [spc EXCEPT ![s] = "existsParent"]
    BY <1>5 DEF Start
  <2>2. opened' \in 1 .. opened' /\ 1 .. opened \subseteq 1 .. opened'
    BY <1>0, <2>1
  <2> QED
    BY <1>0, <2>1, <2>2
<1>6. ASSUME NEW s \in Servers, Lost(s)
      PROVE  SessionInv'
  <2>1. UNCHANGED <<opened, start>> /\ spc[s] # "down" /\ spc[s] # "ok"
    BY <1>6 DEF Lost
  <2>2. spc' = spc \/ spc' = [spc EXCEPT ![s] = "failed"]
    BY <1>6 DEF Lost
  <2>3. node' = node \/ node' = [node EXCEPT ![s] = start[s]]
    BY <1>6 DEF Lost, SetNode
  <2> QED
    BY <1>0, <2>1, <2>2, <2>3
<1> QED
  BY <1>1, <1>2, <1>3, <1>4, <1>5, <1>6, FollowerSteps DEF ConfNext, ServerStep

\* SessionInv in every reachable state.
LEMMA SessionAlways == ConfSpec => []SessionInv
<1>1. ConfInit => SessionInv
  BY DEF ConfInit, SessionInv, RegisteredIsOurs
<1> QED
  BY <1>1, SessionKept, ConfTypeCorrect, PTL DEF ConfSpec

\* A process that createSessionPath told ZOK has the node of its own session, which
\* does not go while it lives, whatever calls were lost or made again and however
\* often it was restarted (ZookConfig.cpp, createSessionPath).
THEOREM RegisteredIsOursAlways == ConfSpec => []RegisteredIsOurs
<1>1. SessionInv => RegisteredIsOurs
  BY DEF SessionInv
<1> QED
  BY <1>1, SessionAlways, PTL

-----------------------------------------------------------------------------
(* zookconfig: the list of servers                                          *)

\* An event that is put at the end of the queue comes after all others.
LEMMA EventAdded ==
  ASSUME events \in Seq({"child", "changed"}), NEW e, e \in {"child", "changed"},
         events' = Append(events, e), NEW k
  PROVE  Announced(k)' <=> Announced(k) \/ k = e
<1>1. /\ Len(events') = Len(events) + 1 /\ Len(events) \in Nat
      /\ \A i \in 1 .. Len(events) : events'[i] = events[i]
      /\ events'[Len(events) + 1] = e
  OBVIOUS
<1>2. \A i \in 1 .. Len(events') : i \in 1 .. Len(events) \/ i = Len(events) + 1
  BY <1>1
<1>3. Len(events) + 1 \in 1 .. Len(events') /\ 1 .. Len(events) \subseteq 1 .. Len(events')
  BY <1>1
<1> QED
  BY <1>1, <1>2, <1>3 DEF Announced

\* Taking the first event leaves the others.
LEMMA EventTaken ==
  ASSUME events \in Seq({"child", "changed"}), events # <<>>, events' = Tail(events), NEW k
  PROVE  /\ Announced(k) => k = Head(events) \/ Announced(k)'
         /\ Announced(k)' => Announced(k)
<1>1. /\ Len(events') = Len(events) - 1 /\ Len(events) \in Nat \ {0}
      /\ \A i \in 1 .. Len(events') : events'[i] = events[i + 1]
      /\ Head(events) = events[1]
  OBVIOUS
<1>2. \A i \in 1 .. Len(events) : i = 1 \/ (i - 1 \in 1 .. Len(events') /\ (i - 1) + 1 = i)
  BY <1>1
<1>3. \A i \in 1 .. Len(events') : i + 1 \in 1 .. Len(events)
  BY <1>1
<1> QED
  BY <1>1, <1>2, <1>3 DEF Announced

\* A load that begins after all changes so far is announced or about to begin.
Owed == Announced("child") \/ (wpc = "list" /\ lpc["watcher"] = "children")

\* What a load will have found when nothing changes before its end.
Loading(t) == found[t] \cup {<<s, node[s]>> : s \in names[t]}

\* Which thread loads, and what it begins with.
PlaceInv ==
  /\ wpc = "list" <=> lpc["watcher"] # "off"
  /\ apc = "loading" <=> lpc["app"] # "off"
  /\ \A t \in Loaders : lpc[t] = "children" => found[t] = {}

\* A list that is being read, was given to serverCb or was returned is right and the
\* watch of the children set, or a later load is owed. The list of the application's
\* thread does not matter when watcher() has given one or is about to.
ListInv ==
  /\ lpc["watcher"] = "get" => Owed \/ (childWatch /\ Loading("watcher") = Registered)
  /\ lpc["app"] = "get" => \/ Owed \/ wpc = "list" \/ told # Nothing
                           \/ childWatch /\ Loading("app") = Registered
  /\ wpc # "list" /\ told # Nothing => Owed \/ (childWatch /\ told = Registered)
  /\ wpc # "list" /\ apc = "done" /\ told = Nothing => Owed \/ (childWatch /\ returned = Registered)

\* That is so as long as the path was there when the children were read.
FollowInv == PlaceInv /\ (missing \/ ListInv)

\* A change of the nodes is announced if the watch is set; if it is not, a load is
\* owed already.
LEMMA FollowNodes ==
  ASSUME ConfTypeOK, FollowInv, UNCHANGED <<apc, wpc, loadVars, listVars>>,
         ChildEvent \/ UNCHANGED <<node, watchVars>>
  PROVE  FollowInv'
<1>1. events \in Seq({"child", "changed"})
  BY DEF ConfTypeOK, TreeOK
<1>2. PlaceInv'
  BY DEF FollowInv, PlaceInv, loadVars
<1>3. CASE UNCHANGED <<node, watchVars>>
  <2>1. Announced("child")' = Announced("child") /\ Registered' = Registered
        /\ Loading("app")' = Loading("app") /\ Loading("watcher")' = Loading("watcher")
    BY <1>3 DEF Announced, Registered, Loading, watchVars, loadVars
  <2>2. Owed' = Owed
    BY <2>1 DEF Owed, loadVars
  <2> QED
    BY <1>2, <1>3, <2>1, <2>2 DEF FollowInv, ListInv, loadVars, listVars, watchVars
<1>4. CASE ChildEvent /\ childWatch
  <2>1. Announced("child")'
    BY <1>1, <1>4, EventAdded DEF ChildEvent
  <2>2. Owed'
    BY <2>1 DEF Owed
  <2> QED
    BY <1>2, <2>2 DEF FollowInv, ListInv
<1>5. CASE ChildEvent /\ ~childWatch
  <2>1. Announced("child")' = Announced("child")
    BY <1>5 DEF ChildEvent, Announced
  <2>2. Owed' = Owed
    BY <2>1 DEF Owed, loadVars
  <2> QED
    BY <1>2, <1>5, <2>2 DEF FollowInv, ListInv, loadVars, listVars
<1> QED
  BY <1>3, <1>4, <1>5

\* Steps of the configuration leave the list alone.
LEMMA FollowConfig ==
  ASSUME ConfTypeOK, FollowInv, SetConfig \/ LoadGet \/ LoadInsert \/ WatchChanged \/ UpdateConfig
  PROVE  FollowInv'
<1> USE DEF treeVars, watchVars, loadVars, listVars
<1>1. /\ UNCHANGED <<node, childWatch, lpc, names, found, missing, told, returned>>
      /\ wpc' = "list" <=> wpc = "list"
      /\ apc' = "loading" <=> apc = "loading"
      /\ apc' = "done" <=> apc = "done"
  BY DEF SetConfig, LoadGet, LoadInsert, WatchChanged, UpdateGet, UpdateConfig
<1>2. Announced("child") => Announced("child")'
  <2>0. events \in Seq({"child", "changed"})
    BY DEF ConfTypeOK, TreeOK
  <2>1. CASE events' = events
    BY <2>1 DEF Announced
  <2>2. CASE events' = Append(events, "changed")
    BY <2>0, <2>2, EventAdded
  <2>3. CASE WatchChanged
    BY <2>0, <2>3, EventTaken DEF WatchChanged, UpdateGet
  <2> QED
    BY <2>1, <2>2, <2>3 DEF SetConfig, LoadGet, LoadInsert, UpdateConfig
<1>3. Owed => Owed'
  BY <1>1, <1>2 DEF Owed
<1>4. Registered' = Registered /\ Loading("app")' = Loading("app") /\ Loading("watcher")' = Loading("watcher")
  BY <1>1 DEF Registered, Loading
<1>5. PlaceInv'
  BY <1>1 DEF FollowInv, PlaceInv
<1>6. ListInv => ListInv'
  BY <1>1, <1>3, <1>4 DEF ListInv
<1> QED
  BY <1>1, <1>5, <1>6 DEF FollowInv

\* What a list that has been read to its end is.
LEMMA LoadedAll ==
  ASSUME ConfTypeOK, NEW t \in Loaders, Loaded(t)
  PROVE  Loading(t) = found[t] /\ found[t] # Nothing
<1>1. names[t] = {} /\ found[t] \subseteq Servers \X (1 .. opened)
  BY DEF Loaded, ConfTypeOK, LoadsOK
<1>2. Loading(t) = found[t]
  BY <1>1 DEF Loading
<1>3. <<"none", 0>> \notin Servers \X (1 .. opened)
  <2>1. 0 \notin 1 .. opened
    BY DEF ConfTypeOK, TreeOK
  <2> QED
    BY <2>1
<1>4. found[t] # Nothing
  BY <1>1, <1>3 DEF Nothing, NoNode
<1> QED
  BY <1>2, <1>4

\* zoo_get_children lists the nodes that are there and sets the watch.
LEMMA FollowChildren ==
  ASSUME ConfTypeOK, FollowInv, NEW t \in Loaders, Children(t)
  PROVE  FollowInv'
<1> USE DEF treeVars, listVars
<1>1. /\ UNCHANGED <<node, events, apc, wpc, found, told, returned>>
      /\ missing' \/ (~missing /\ childWatch' = TRUE)
      /\ names' = [names EXCEPT ![t] = {s \in Servers : node[s] # NoNode}]
      /\ lpc' = [lpc EXCEPT ![t] = "get"]
      /\ lpc[t] = "children"
  BY DEF Children, ReadNames
<1>2. lpc \in [Loaders -> {"off", "children", "get"}] /\ names \in [Loaders -> SUBSET Servers]
  BY DEF ConfTypeOK, LoadsOK
<1>3. PlaceInv'
  BY <1>1, <1>2 DEF FollowInv, PlaceInv, Loaders
<1>4. Announced("child")' = Announced("child") /\ Registered' = Registered
  BY <1>1 DEF Announced, Registered
<1>5. Loading(t)' = Registered /\ found[t] = {}
  <2>1. found'[t] = {} /\ names'[t] = {s \in Servers : node[s] # NoNode}
    BY <1>1, <1>2 DEF FollowInv, PlaceInv
  <2> QED
    BY <1>1, <2>1 DEF Loading, Registered
<1>6. \A u \in Loaders \ {t} : names'[u] = names[u] /\ lpc'[u] = lpc[u]
  BY <1>1, <1>2
<1>7. lpc'[t] = "get"
  BY <1>1, <1>2
<1>8. CASE t = "watcher"
  <2>1. Loading("watcher")' = Registered
    BY <1>5, <1>8
  <2>2. wpc' = "list"
    BY <1>1, <1>8 DEF FollowInv, PlaceInv
  <2>3. ~missing' => ListInv'
    BY <1>1, <1>4, <2>1, <2>2 DEF ListInv
  <2> QED
    BY <1>3, <2>3 DEF FollowInv
<1>9. CASE t = "app"
  <2>1. Loading("app")' = Registered
    BY <1>5, <1>9
  <2>2. lpc'["watcher"] = lpc["watcher"] /\ names'["watcher"] = names["watcher"]
    BY <1>6, <1>9 DEF Loaders
  <2>3. Loading("watcher")' = Loading("watcher")
    BY <1>1, <2>2 DEF Loading
  <2>4. Owed' = Owed
    BY <1>1, <1>4, <2>2 DEF Owed
  <2>5. apc' = "loading"
    BY <1>1, <1>9 DEF FollowInv, PlaceInv
  <2>6. ~missing' => ListInv'
    BY <1>1, <1>4, <2>1, <2>2, <2>3, <2>4, <2>5 DEF FollowInv, ListInv
  <2> QED
    BY <1>3, <2>6 DEF FollowInv
<1> QED
  BY <1>8, <1>9 DEF Loaders

\* Reading a child moves it from those to read to those found; one that is gone was
\* not registered, so that the list was not right before.
LEMMA FollowGet ==
  ASSUME ConfTypeOK, FollowInv, NEW t \in Loaders, NEW s \in Servers, GetChild(t, s)
  PROVE  FollowInv'
<1> USE DEF treeVars, watchVars, listVars
<1>1. UNCHANGED <<node, childWatch, events, apc, wpc, lpc, missing, told, returned>>
  BY DEF GetChild
<1>2. /\ lpc \in [Loaders -> {"off", "children", "get"}] /\ names \in [Loaders -> SUBSET Servers]
      /\ found \in [Loaders -> SUBSET (Servers \X (1 .. opened))]
  BY DEF ConfTypeOK, LoadsOK
<1>3. \A u \in Loaders \ {t} : names'[u] = names[u] /\ found'[u] = found[u]
  BY <1>2 DEF GetChild
<1>4. PlaceInv'
  <2>1. lpc[t] = "get"
    BY DEF GetChild
  <2> QED
    BY <1>1, <1>2, <1>3, <2>1 DEF FollowInv, PlaceInv
<1>5. Announced("child")' = Announced("child") /\ Registered' = Registered /\ Owed' = Owed
  BY <1>1 DEF Announced, Registered, Owed
<1>6. \A u \in Loaders \ {t} : found'[u] \cup {<<r, node'[r]>> : r \in names'[u]}
                                 = found[u] \cup {<<r, node[r]>> : r \in names[u]}
  BY <1>1, <1>3
<1>7. Loading(t) = Registered => Loading(t)' = Registered
  <2>1. s \in names[t]
    BY DEF GetChild
  <2>2. CASE node[s] # NoNode
    <3>1. found'[t] = found[t] \cup {<<s, node[s]>>} /\ names'[t] = names[t] \ {s}
      BY <1>2, <2>2 DEF GetChild
    <3>2. {<<r, node[r]>> : r \in names[t]} = {<<s, node[s]>>} \cup {<<r, node[r]>> : r \in names[t] \ {s}}
      BY <2>1
    <3>3. Loading(t)' = Loading(t)
      BY <1>1, <3>1, <3>2 DEF Loading
    <3> QED
      BY <3>3
  <2>3. CASE node[s] = NoNode
    <3>1. <<s, node[s]>> \in Loading(t)
      BY <2>1 DEF Loading
    <3>2. <<s, node[s]>> \notin Registered
      BY <2>3 DEF Registered
    <3> QED
      BY <3>1, <3>2
  <2> QED
    BY <2>2, <2>3
<1>8. /\ Loading("app") = Registered => Loading("app")' = Registered
      /\ Loading("watcher") = Registered => Loading("watcher")' = Registered
  <2>1. \A u \in Loaders : u = "app" \/ u = "watcher"
    BY DEF Loaders
  <2>2. "app" \in Loaders /\ "watcher" \in Loaders
    BY DEF Loaders
  <2>3. "app" # t => Loading("app")' = Loading("app")
    BY <1>6, <2>2 DEF Loading
  <2>4. "watcher" # t => Loading("watcher")' = Loading("watcher")
    BY <1>6, <2>2 DEF Loading
  <2>5. CASE t = "app"
    BY <1>7, <2>4, <2>5
  <2>6. CASE t = "watcher"
    BY <1>7, <2>3, <2>6
  <2> QED
    BY <2>1, <2>5, <2>6
<1>9. ListInv => ListInv'
  BY <1>1, <1>5, <1>8 DEF ListInv
<1> QED
  BY <1>1, <1>4, <1>9 DEF FollowInv

\* A call of a load that is made again changes nothing.
LEMMA FollowLost ==
  ASSUME ~LoadMayGiveUp, FollowInv, NEW t \in Loaders, NEW s \in Servers, LoadLost(t, s)
  PROVE  FollowInv'
<1>1. UNCHANGED <<node, childWatch, events, apc, wpc, lpc, names, found, missing, told, returned>>
  BY DEF LoadLost, watchVars, listVars
<1>2. /\ Announced("child")' = Announced("child") /\ Registered' = Registered /\ Owed' = Owed
      /\ Loading("app")' = Loading("app") /\ Loading("watcher")' = Loading("watcher")
  BY <1>1 DEF Announced, Registered, Owed, Loading
<1> QED
  BY <1>1, <1>2 DEF FollowInv, PlaceInv, ListInv

\* The beginning and the end of a load.
LEMMA FollowEnds ==
  ASSUME ConfTypeOK, FollowInv, GetList \/ ListReturned \/ WatchChild \/ CallServerCb
  PROVE  FollowInv'
<1> USE DEF treeVars, watchVars, listVars
<1>0. /\ lpc \in [Loaders -> {"off", "children", "get"}] /\ names \in [Loaders -> SUBSET Servers]
      /\ found \in [Loaders -> SUBSET (Servers \X (1 .. opened))]
      /\ events \in Seq({"child", "changed"})
  BY DEF ConfTypeOK, LoadsOK, TreeOK
<1>a. "app" \in Loaders /\ "watcher" \in Loaders /\ \A u \in Loaders : u = "app" \/ u = "watcher"
  BY DEF Loaders
<1>1. CASE GetList
  <2>1. /\ UNCHANGED <<node, childWatch, events, wpc, names, missing, told, returned>>
        /\ apc = "list" /\ apc' = "loading"
        /\ lpc' = [lpc EXCEPT !["app"] = "children"] /\ found' = [found EXCEPT !["app"] = {}]
    BY <1>1 DEF GetList, Begin
  <2>2. /\ lpc'["app"] = "children" /\ lpc'["watcher"] = lpc["watcher"]
        /\ found'["app"] = {} /\ found'["watcher"] = found["watcher"]
    BY <1>0, <1>a, <2>1
  <2>3. PlaceInv'
    BY <1>a, <2>1, <2>2 DEF FollowInv, PlaceInv
  <2>4. /\ Owed' = Owed /\ Registered' = Registered
        /\ Loading("watcher")' = Loading("watcher")
    BY <2>1, <2>2 DEF Announced, Registered, Owed, Loading
  <2>5. ListInv => ListInv'
    BY <2>1, <2>2, <2>4 DEF ListInv
  <2> QED
    BY <2>1, <2>3, <2>5 DEF FollowInv
<1>2. CASE ListReturned
  <2>1. /\ UNCHANGED <<node, childWatch, events, wpc, names, found, missing, told>>
        /\ apc = "loading" /\ apc' = "done" /\ Loaded("app")
        /\ lpc' = [lpc EXCEPT !["app"] = "off"] /\ returned' = found["app"]
    BY <1>2 DEF ListReturned
  <2>2. lpc'["app"] = "off" /\ lpc'["watcher"] = lpc["watcher"] /\ lpc["app"] = "get"
    BY <1>0, <1>a, <2>1 DEF Loaded
  <2>3. PlaceInv'
    BY <1>a, <2>1, <2>2 DEF FollowInv, PlaceInv
  <2>4. /\ Owed' = Owed /\ Registered' = Registered
        /\ Loading("watcher")' = Loading("watcher")
    BY <2>1, <2>2 DEF Announced, Registered, Owed, Loading
  <2>5. Loading("app") = returned'
    BY <1>a, <2>1, LoadedAll
  <2>6. ListInv => ListInv'
    BY <2>1, <2>2, <2>4, <2>5 DEF ListInv
  <2> QED
    BY <2>1, <2>3, <2>6 DEF FollowInv
<1>3. CASE WatchChild
  <2>1. /\ UNCHANGED apc /\ wpc = "idle" /\ wpc' = "list"
        /\ lpc' = [lpc EXCEPT !["watcher"] = "children"] /\ found' = [found EXCEPT !["watcher"] = {}]
    BY <1>3 DEF WatchChild, Begin
  <2>2. /\ lpc'["watcher"] = "children" /\ lpc'["app"] = lpc["app"]
        /\ found'["watcher"] = {} /\ found'["app"] = found["app"]
    BY <1>0, <1>a, <2>1
  <2>3. PlaceInv'
    BY <1>a, <2>1, <2>2 DEF FollowInv, PlaceInv
  <2>4. Owed'
    BY <2>1, <2>2 DEF Owed
  <2>5. ListInv'
    BY <2>4 DEF ListInv
  <2> QED
    BY <2>3, <2>5 DEF FollowInv
<1>4. CASE CallServerCb
  <2>1. /\ UNCHANGED <<node, childWatch, events, apc, names, found, missing, returned>>
        /\ wpc = "list" /\ wpc' = "idle" /\ Loaded("watcher")
        /\ lpc' = [lpc EXCEPT !["watcher"] = "off"] /\ told' = found["watcher"]
    BY <1>4 DEF CallServerCb
  <2>2. lpc'["watcher"] = "off" /\ lpc'["app"] = lpc["app"] /\ lpc["watcher"] = "get"
    BY <1>0, <1>a, <2>1 DEF Loaded
  <2>3. PlaceInv'
    BY <1>a, <2>1, <2>2 DEF FollowInv, PlaceInv
  <2>4. Owed' = Owed /\ Registered' = Registered
    BY <2>1, <2>2 DEF Announced, Registered, Owed
  <2>5. Loading("watcher") = told' /\ told' # Nothing'
    BY <1>a, <2>1, LoadedAll DEF Nothing
  <2>6. ListInv => ListInv'
    BY <2>1, <2>2, <2>4, <2>5 DEF ListInv
  <2> QED
    BY <2>1, <2>3, <2>6 DEF FollowInv
<1> QED
  BY <1>1, <1>2, <1>3, <1>4

\* FollowInv is inductive.
LEMMA FollowKept ==
  ASSUME ~LoadMayGiveUp
  PROVE  ConfTypeOK /\ FollowInv /\ [ConfNext]_confVars => FollowInv'
<1> SUFFICES ASSUME ConfTypeOK, FollowInv, [ConfNext]_confVars PROVE FollowInv'
  OBVIOUS
<1> USE DEF treeVars, sessionVars
<1>1. CASE UNCHANGED confVars
  BY <1>1, FollowNodes DEF confVars
<1>2. ASSUME NEW e \in 1 .. MaxStarts, Expire(e)
      PROVE  FollowInv'
  BY <1>2, FollowNodes DEF Expire
<1>3. ASSUME NEW s \in Servers, ServerStep(s) \/ Start(s) \/ Crash(s)
      PROVE  FollowInv'
  <2>1. UNCHANGED <<apc, wpc, loadVars, listVars>>
    BY <1>3 DEF ServerStep, ExistsParent, CreateParent, Exists, Set, Create, Start, Crash
  <2>2. ChildEvent \/ UNCHANGED <<node, watchVars>>
    BY <1>3 DEF ServerStep, ExistsParent, CreateParent, Exists, Set, Create, Start, Crash, SetNode
  <2> QED
    BY <2>1, <2>2, FollowNodes
<1>4. ASSUME NEW s \in Servers, Lost(s)
      PROVE  FollowInv'
  <2>1. UNCHANGED <<apc, wpc, loadVars, listVars>>
    BY <1>4 DEF Lost
  <2>2. ChildEvent \/ UNCHANGED <<node, watchVars>>
    BY <1>4 DEF Lost, SetNode
  <2> QED
    BY <2>1, <2>2, FollowNodes
<1>5. CASE SetConfig \/ LoadGet \/ LoadInsert \/ WatchChanged \/ UpdateConfig
  BY <1>5, FollowConfig
<1>6. CASE GetList \/ ListReturned \/ WatchChild \/ CallServerCb
  BY <1>6, FollowEnds
<1>7. ASSUME NEW t \in Loaders, LoadStep(t) \/ \E s \in Servers : LoadLost(t, s)
      PROVE  FollowInv'
  BY <1>7, FollowChildren, FollowGet, FollowLost DEF LoadStep
<1>8. "app" \in Loaders /\ "watcher" \in Loaders
  BY DEF Loaders
<1> QED
  BY <1>1, <1>2, <1>3, <1>4, <1>5, <1>6, <1>7, <1>8 DEF ConfNext, AppStep, WatcherStep

\* A follower that is at rest has the list of the servers registered now, though the
\* watch fires once, two threads load and children go while they are read, if it found
\* the path when it started and no load loses its connection colonyNum times
\* (ZookConfig.cpp, LoadTcpServerListInfo, watcher).
THEOREM ListIsCurrentAlways == ASSUME ~LoadMayGiveUp PROVE ConfSpec => []ListIsCurrent
<1>1. ConfInit => FollowInv
  <2> SUFFICES ASSUME ConfInit PROVE FollowInv
    OBVIOUS
  <2>1. \A t \in Loaders : lpc[t] = "off"
    BY DEF ConfInit
  <2>2. lpc["app"] = "off" /\ lpc["watcher"] = "off"
    BY <2>1 DEF Loaders
  <2>3. PlaceInv
    BY <2>1, <2>2 DEF ConfInit, PlaceInv
  <2>4. ListInv
    BY <2>2 DEF ConfInit, ListInv
  <2> QED
    BY <2>3, <2>4 DEF FollowInv
<1>2. FollowInv => ListIsCurrent
  BY DEF FollowInv, ListInv, Owed, ListIsCurrent, View
<1> QED
  BY <1>1, <1>2, FollowKept, ConfTypeCorrect, PTL DEF ConfSpec

-----------------------------------------------------------------------------
(* zookconfig: the value of the configuration                               *)

\* The watch of the value is set once, by loadAllKeyValue; while it is set no change
\* is on its way and the value read is the one in zookeeper.
ValueInv ==
  /\ Announced("changed") \/ wpc = "update" \/ dataWatch => apc # "config"
  /\ Announced("changed") \/ wpc = "update" => ~dataWatch
  /\ apc = "insert" /\ dataWatch => got["app"] = value
  /\ ConfigIsCurrent

\* Steps on registrations and lists leave it alone.
LEMMA ValueQuiet ==
  ASSUME ConfTypeOK, ValueInv, UNCHANGED <<value, dataWatch, got, configMap>>,
         wpc' = "update" <=> wpc = "update",
         apc' \in {"config", "insert"} \/ apc \in {"config", "insert"} => apc' = apc,
         Announced("changed")' => Announced("changed")
  PROVE  ValueInv'
  BY DEF ValueInv, ConfigIsCurrent

\* A change of the children announces no change of the value.
LEMMA ChildrenOnly ==
  ASSUME ConfTypeOK, ChildEvent \/ UNCHANGED watchVars
  PROVE  dataWatch' = dataWatch /\ (Announced("changed")' => Announced("changed"))
<1>1. events \in Seq({"child", "changed"})
  BY DEF ConfTypeOK, TreeOK
<1>2. CASE events' = events
  BY <1>2 DEF ChildEvent, Announced, watchVars
<1>3. CASE ChildEvent /\ events' = Append(events, "child")
  BY <1>1, <1>3, EventAdded DEF ChildEvent
<1> QED
  BY <1>2, <1>3 DEF ChildEvent, watchVars

\* ValueInv is inductive.
LEMMA ValueKept == ConfTypeOK /\ ValueInv /\ [ConfNext]_confVars => ValueInv'
<1> SUFFICES ASSUME ConfTypeOK, ValueInv, [ConfNext]_confVars PROVE ValueInv'
  OBVIOUS
<1> USE DEF treeVars, sessionVars, configVars
<1>0. /\ events \in Seq({"child", "changed"}) /\ got \in [Loaders -> Empty .. MaxSets]
      /\ "app" \in Loaders /\ "watcher" \in Loaders
  BY DEF ConfTypeOK, TreeOK, FollowerOK, Loaders
<1>1. ASSUME UNCHANGED <<value, apc, wpc, got, configMap>>, ChildEvent \/ UNCHANGED watchVars
      PROVE  ValueInv'
  BY <1>1, ValueQuiet, ChildrenOnly
<1>2. CASE UNCHANGED confVars
  BY <1>1, <1>2 DEF confVars
<1>3. ASSUME NEW e \in 1 .. MaxStarts, Expire(e)
      PROVE  ValueInv'
  BY <1>1, <1>3 DEF Expire
<1>4. ASSUME NEW s \in Servers, ServerStep(s) \/ Start(s) \/ Crash(s) \/ Lost(s)
      PROVE  ValueInv'
  <2>1. UNCHANGED <<value, apc, wpc, got, configMap>>
    BY <1>4 DEF ServerStep, ExistsParent, CreateParent, Exists, Set, Create, Start, Crash, Lost
  <2>2. ChildEvent \/ UNCHANGED watchVars
    BY <1>4 DEF ServerStep, ExistsParent, CreateParent, Exists, Set, Create, Start, Crash, Lost, SetNode
  <2> QED
    BY <1>1, <2>1, <2>2
<1>5. ASSUME NEW t \in Loaders, LoadStep(t) \/ \E s \in Servers : LoadLost(t, s)
      PROVE  ValueInv'
  <2>1. UNCHANGED <<value, apc, wpc, got, configMap, dataWatch, events>>
    BY <1>5 DEF LoadStep, Children, ReadNames, GetChild, LoadLost, watchVars
  <2> QED
    BY <2>1, ValueQuiet DEF Announced
<1>6. CASE GetList \/ ListReturned \/ CallServerCb
  <2>1. UNCHANGED <<value, got, configMap, dataWatch, events>>
    BY <1>6 DEF GetList, ListReturned, CallServerCb, watchVars
  <2>2. /\ wpc' = "update" <=> wpc = "update"
        /\ apc' \in {"config", "insert"} \/ apc \in {"config", "insert"} => apc' = apc
    BY <1>6 DEF GetList, ListReturned, CallServerCb
  <2> QED
    BY <2>1, <2>2, ValueQuiet DEF Announced
<1>7. CASE WatchChild
  <2>1. UNCHANGED <<value, got, configMap, dataWatch, apc>> /\ wpc = "idle" /\ wpc' = "list"
    BY <1>7 DEF WatchChild
  <2>2. Announced("changed")' => Announced("changed")
    BY <1>0, <1>7, EventTaken DEF WatchChild
  <2> QED
    BY <2>1, <2>2, ValueQuiet
<1>8. CASE SetConfig
  <2>1. UNCHANGED <<apc, wpc, got, configMap>> /\ ~dataWatch'
    BY <1>8 DEF SetConfig
  <2>2. Announced("changed")' => Announced("changed") \/ dataWatch
    BY <1>8 DEF SetConfig, Announced
  <2> QED
    BY <2>1, <2>2 DEF ValueInv, ConfigIsCurrent
<1>9. CASE LoadGet
  <2>1. UNCHANGED <<value, wpc, events, configMap>> /\ apc = "config" /\ apc' = "insert" /\ got'["app"] = value
    BY <1>0, <1>9 DEF LoadGet
  <2>2. Announced("changed")' = Announced("changed")
    BY <2>1 DEF Announced
  <2> QED
    BY <2>1, <2>2 DEF ValueInv, ConfigIsCurrent
<1>10. CASE LoadInsert
  <2>1. /\ UNCHANGED <<value, wpc, events, dataWatch>> /\ apc = "insert" /\ apc' = "list"
        /\ configMap' = got["app"]
    BY <1>10 DEF LoadInsert, watchVars
  <2>2. Announced("changed")' = Announced("changed")
    BY <2>1 DEF Announced
  <2> QED
    BY <2>1, <2>2 DEF ValueInv, ConfigIsCurrent
<1>11. CASE WatchChanged
  <2>1. /\ UNCHANGED <<value, dataWatch, apc, configMap>> /\ wpc' = "update"
        /\ events # <<>> /\ Head(events) = "changed" /\ events' = Tail(events)
    BY <1>11 DEF WatchChanged, UpdateGet
  <2>2. Announced("changed")
    BY <1>0, <2>1 DEF Announced
  <2> QED
    BY <2>1, <2>2 DEF ValueInv, ConfigIsCurrent
<1>12. CASE UpdateConfig
  <2>1. UNCHANGED <<value, events, dataWatch, apc>> /\ wpc = "update" /\ wpc' = "idle"
    BY <1>12 DEF UpdateConfig, watchVars
  <2>2. Announced("changed")' = Announced("changed")
    BY <2>1 DEF Announced
  <2> QED
    BY <2>1, <2>2 DEF ValueInv, ConfigIsCurrent
<1> QED
  BY <1>0, <1>2, <1>3, <1>4, <1>5, <1>6, <1>7, <1>8, <1>9, <1>10, <1>11, <1>12
  DEF ConfNext, AppStep, WatcherStep

\* While the watch set by loadAllKeyValue has not fired, configMap has the value in
\* zookeeper, whenever that is changed (ZookConfig.cpp, loadAllKeyValue,
\* configUpdateCallBack).
THEOREM ConfigIsCurrentAlways == ConfSpec => []ConfigIsCurrent
<1>1. ConfInit => ValueInv
  BY DEF ConfInit, ValueInv, ConfigIsCurrent, Announced
<1>2. ValueInv => ConfigIsCurrent
  BY DEF ValueInv
<1> QED
  BY <1>1, <1>2, ValueKept, ConfTypeCorrect, PTL DEF ConfSpec
=============================================================================
