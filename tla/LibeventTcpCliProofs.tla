------------------------ MODULE LibeventTcpCliProofs ------------------------
(***************************************************************************)
(* Proofs about LibeventTcpCli, for any number of IO threads, callers,     *)
(* connections and orders: its variables keep their types, no order is     *)
(* left in the deque of a thread that nobody wakes, what connCb tells the  *)
(* application about one connection is told once, and a client lives as    *)
(* long as its IO thread uses it. All rest on Refs, that whatever names a  *)
(* connection names one that was made.                                     *)
(***************************************************************************)
EXTENDS LibeventTcpCli, FiniteSetTheorems, TLAPS

\* The places where a thread relies on its uid naming a client that exists.
NamesClient == {"got", "wake", "insert", "state", "notify", "cb", "msgcb"}

\* Everything that names a client names one that libeventAddConnect has made.
Refs ==
  /\ connMap \subseteq used
  /\ \A t \in Threads : pc[t] \in NamesClient => cur[t] \in used
  /\ \A i \in Ios : \A k \in 1 .. Len(orderDeque[i]) : orderDeque[i][k].uid \in used
  /\ \A u \in Uids : cli[u].bev # "none" => u \in used

\* A call that returns leaves the state of its thread well typed.
LEMMA ReturnType ==
  ASSUME TypeOK, NEW t \in Callers, Return(t)
  PROVE  /\ pc' \in [Threads -> CallerPcs \cup IoPcs]
         /\ op' \in [Threads -> Ops]
         /\ cur' \in [Threads -> Uids \cup {NoUid}]
         /\ held' \in [Threads -> Uids \cup {NoUid}]
  BY DEF TypeOK, Return, ReturnPc, Goto, Threads, CallerPcs, Ops

\* Of a client that other threads may free, only the bufferevent changes.
LEMMA ClientsType ==
  ASSUME NEW c \in [Uids -> Client], Clients(c)
  PROVE  /\ cli' \in [Uids -> Client]
         /\ \A u \in Uids : /\ cli'[u].io = c[u].io
                            /\ cli'[u].sock = c[u].sock
                            /\ cli'[u].state = c[u].state
                            /\ cli'[u].bev \in {c[u].bev, "none"}
  BY DEF Clients, Disconnected, Client

\* What the code does to a client gives a client.
LEMMA ClientOps ==
  ASSUME now \in Nat
  PROVE  /\ \A i \in Ios : NewClient(i) \in Client
         /\ \A c \in Client : /\ Disconnected(c) \in Client
                              /\ Connecting(c) \in Client
                              /\ [c EXCEPT !.last = now] \in Client
                              /\ c.io \in Ios
                              /\ [c EXCEPT !.bev = "up", !.state = CONN_SUCCESS] \in Client
  BY DEF Client, NewClient, Disconnected, Connecting, CONN_FAILED, CONN_SUCCESS

\* Appending an order to a deque gives a deque.
LEMMA AppendType ==
  ASSUME NEW S, NEW s \in Seq(S), NEW e \in S
  PROVE  Append(s, e) \in Seq(S)
  OBVIOUS

\* Queueing an order and taking one off keep the deques well formed.
LEMMA EnqueueType ==
  ASSUME orderDeque \in [Ios -> Seq(Order)],
         NEW i \in Ios, NEW u \in Uids, NEW m \in BOOLEAN,
         Enqueue(i, [uid |-> u, msg |-> m])
  PROVE  orderDeque' \in [Ios -> Seq(Order)]
<1> USE IoNumAssumption, UidAssumption, ThreadAssumption, BoundAssumption
<1>1. [uid |-> u, msg |-> m] \in Order
  BY DEF Order
<1>2. Append(orderDeque[i], [uid |-> u, msg |-> m]) \in Seq(Order)
  BY <1>1, AppendType
<1> QED
  BY <1>2 DEF Enqueue

\* A deque that is not empty has an order at its head and a deque behind it.
LEMMA HeadType ==
  ASSUME orderDeque \in [Ios -> Seq(Order)], NEW i \in Ios, orderDeque[i] # <<>>
  PROVE  /\ Head(orderDeque[i]) \in Order
         /\ Head(orderDeque[i]).uid \in Uids
         /\ Tail(orderDeque[i]) \in Seq(Order)
<1> USE IoNumAssumption, UidAssumption, ThreadAssumption, BoundAssumption
<1>1. Head(orderDeque[i]) \in Order /\ Tail(orderDeque[i]) \in Seq(Order)
  OBVIOUS
<1> QED
  BY <1>1 DEF Order

\* Every step keeps the types, given that what names a client names one that
\* exists.
LEMMA TypeStep ==
  ASSUME TypeOK, Refs, [Next]_vars
  PROVE  TypeOK'
<1> USE IoNumAssumption, UidAssumption, ThreadAssumption, BoundAssumption
<1>pc. pc \in [Threads -> CallerPcs \cup IoPcs]
  BY DEF TypeOK
<1>op. op \in [Threads -> Ops]
  BY DEF TypeOK
<1>cur. cur \in [Threads -> Uids \cup {NoUid}]
  BY DEF TypeOK
<1>held. held \in [Threads -> Uids \cup {NoUid}]
  BY DEF TypeOK
<1>num. num \in [Threads -> Nat]
  BY DEF TypeOK
<1>st. st \in [Threads -> States]
  BY DEF TypeOK
<1>orderDeque. orderDeque \in [Ios -> Seq(Order)]
  BY DEF TypeOK
<1>wakeupFd. wakeupFd \in [Ios -> Nat]
  BY DEF TypeOK
<1>cli. cli \in [Uids -> Client]
  BY DEF TypeOK
<1>delivered. delivered \in [Uids -> Seq(Notice)]
  BY DEF TypeOK
<1>connMap. connMap \subseteq Uids
  BY DEF TypeOK
<1>used. used \subseteq Uids
  BY DEF TypeOK
<1>expired. expired \subseteq Uids
  BY DEF TypeOK
<1>nat. now \in Nat /\ lastIndex \in Ios /\ ioVect \subseteq Ios
  BY DEF TypeOK
<1>1. ASSUME NEW t \in Users, InitStart(t)
      PROVE  TypeOK'
  <2>1. started' \in BOOLEAN
    BY <1>1 DEF InitStart, TypeOK
  <2>2. pc' \in [Threads -> CallerPcs \cup IoPcs]
    BY <1>1, <1>pc DEF InitStart, Goto, CallerPcs, IoPcs, Threads, Callers
  <2> QED
    BY <1>1, <2>1, <2>2 DEF InitStart, TypeOK, mgrVars, ioVars, thVars, boundVars
<1>2. ASSUME NEW t \in Users, InitDone(t)
      PROVE  TypeOK'
  <2>1. ioThreadNum' \in {0, IoNum}
    BY <1>2 DEF InitDone, TypeOK
  <2>2. pc' \in [Threads -> CallerPcs \cup IoPcs]
    BY <1>2, <1>pc DEF InitDone, Goto, CallerPcs, IoPcs, Threads, Callers
  <2> QED
    BY <1>2, <2>1, <2>2 DEF InitDone, TypeOK, mgrVars, ioVars, thVars, boundVars
<1>3. ASSUME NEW t \in Users, NEW u \in Uids \cup {NoUid},
              NEW o \in {"add", "send", "reset", "disc"}, Call(t, o, u)
      PROVE  TypeOK'
  <2>1. calls' \in Nat
    BY <1>3 DEF Call, TypeOK
  <2>2. pc' \in [Threads -> CallerPcs \cup IoPcs]
    BY <1>3, <1>pc DEF Call, Goto, CallerPcs, IoPcs, Threads, Callers
  <2>3. op' \in [Threads -> Ops]
    BY <1>3, <1>op DEF Call, Ops, Threads, Callers
  <2>4. cur' \in [Threads -> Uids \cup {NoUid}]
    BY <1>3, <1>cur DEF Call, Threads, Callers
  <2> QED
    BY <1>3, <2>1, <2>2, <2>3, <2>4 DEF Call, TypeOK, mgrVars, ioVars, thVars, boundVars
<1>4. ASSUME NEW t \in Users, ExitCall(t)
      PROVE  TypeOK'
  <2>1. exits' \in Nat
    BY <1>4 DEF ExitCall, TypeOK
  <2>2. isExit' \in BOOLEAN
    BY <1>4 DEF ExitCall, TypeOK
  <2>3. num' \in [Threads -> Nat]
    BY <1>4, <1>num DEF ExitCall, Threads, Callers
  <2>4. pc' \in [Threads -> CallerPcs \cup IoPcs]
    BY <1>4, <1>pc DEF ExitCall, Goto, CallerPcs, IoPcs, Threads, Callers
  <2>5. op' \in [Threads -> Ops]
    BY <1>4, <1>op DEF ExitCall, Ops, Threads, Callers
  <2> QED
    BY <1>4, <2>1, <2>2, <2>3, <2>4, <2>5 DEF ExitCall, TypeOK, mgrVars, ioVars, thVars, boundVars
<1>5. ASSUME NEW t \in Users, ExitWrite(t)
      PROVE  TypeOK'
  <2>1. wakeupFd' \in [Ios -> Nat]
    BY <1>5, <1>wakeupFd, <1>nat DEF ExitWrite
  <2>2. num' \in [Threads -> Nat]
    BY <1>5, <1>num DEF ExitWrite, Threads, Callers
  <2>3. pc' \in [Threads -> CallerPcs \cup IoPcs]
    BY <1>5, <1>pc DEF ExitWrite, Goto, CallerPcs, IoPcs, Threads, Callers
  <2> QED
    BY <1>5, <2>1, <2>2, <2>3 DEF ExitWrite, TypeOK, mgrVars, ioVars, thVars, boundVars
<1>6. ASSUME NEW t \in Users, ExitSpin(t)
      PROVE  TypeOK'
  <2>1. pc' \in [Threads -> CallerPcs \cup IoPcs]
    BY <1>6, <1>pc DEF ExitSpin, Goto, CallerPcs, IoPcs, Threads, Callers
  <2> QED
    BY <1>6, <2>1 DEF ExitSpin, TypeOK, mgrVars, ioVars, thVars, boundVars
<1>7. ASSUME NEW t \in Users, ExitJoin(t)
      PROVE  TypeOK'
  <2>1. ioVect' \subseteq Ios
    BY <1>7 DEF ExitJoin, TypeOK
  <2>2. orderDeque' \in [Ios -> Seq(Order)]
    BY <1>7, <1>orderDeque, <1>nat, <1>cli DEF ExitJoin, Enqueue
  <2>3. /\ pc' \in [Threads -> CallerPcs \cup IoPcs] /\ op' \in [Threads -> Ops]
       /\ cur' \in [Threads -> Uids \cup {NoUid}] /\ held' \in [Threads -> Uids \cup {NoUid}]
    BY <1>7, ReturnType DEF ExitJoin, Callers
  <2>4. cli' \in [Uids -> Client]
    BY <1>7, <1>cli, ClientsType DEF ExitJoin
  <2> QED
    BY <1>7, <2>1, <2>2, <2>3, <2>4 DEF ExitJoin, TypeOK, mgrVars, ioVars, thVars, boundVars
<1>8. ASSUME NEW t \in Callers, WaitReady(t)
      PROVE  TypeOK'
  <2>1. pc' \in [Threads -> CallerPcs \cup IoPcs]
    BY <1>8, <1>pc DEF WaitReady, Goto, CallerPcs, IoPcs, Threads, Callers
  <2> QED
    BY <1>8, <2>1 DEF WaitReady, TypeOK, mgrVars, ioVars, thVars, boundVars
<1>9. ASSUME NEW t \in Callers, NEW u \in Uids, AddOrder(t, u)
      PROVE  TypeOK'
  <2>1. lastIndex' \in Ios
    <3>1. lastIndex' = IF lastIndex = IoNum - 1 THEN 0 ELSE lastIndex + 1
      BY <1>9 DEF AddOrder
    <3> QED
      BY <3>1, <1>nat, IoNumAssumption DEF Ios
  <2>2. used' \subseteq Uids
    BY <1>9, <1>used DEF AddOrder
  <2>3. cur' \in [Threads -> Uids \cup {NoUid}]
    BY <1>9, <1>cur DEF AddOrder, Threads, Callers
  <2>4. held' \in [Threads -> Uids \cup {NoUid}]
    BY <1>9, <1>held DEF AddOrder, Threads, Callers
  <2>5. orderDeque' \in [Ios -> Seq(Order)]
    <3>1. CASE lastIndex \in ioVect
      BY <1>9, <3>1, <1>orderDeque, <1>nat, EnqueueType DEF AddOrder
    <3>2. CASE lastIndex \notin ioVect
      BY <1>9, <3>2, <1>orderDeque DEF AddOrder
    <3> QED
      BY <3>1, <3>2
  <2>6. cli' \in [Uids -> Client]
    BY <1>9, <1>cli, <1>nat, ClientOps DEF AddOrder
  <2>7. pc' \in [Threads -> CallerPcs \cup IoPcs]
    BY <1>9, <1>pc DEF AddOrder, Goto, CallerPcs, IoPcs, Threads, Callers
  <2> QED
    BY <1>9, <2>1, <2>2, <2>3, <2>4, <2>5, <2>6, <2>7 DEF AddOrder, TypeOK, mgrVars, ioVars, thVars, boundVars
<1>10. ASSUME NEW t \in Callers, Lookup(t)
      PROVE  TypeOK'
  <2>1. held' \in [Threads -> Uids \cup {NoUid}]
    BY <1>10, <1>held, <1>connMap DEF Lookup, Return, ReturnPc, Threads, Callers
  <2>2. pc' \in [Threads -> CallerPcs \cup IoPcs]
    BY <1>10, <1>pc DEF Lookup, Return, ReturnPc, Goto, CallerPcs, IoPcs, Threads, Callers
  <2>3. op' \in [Threads -> Ops]
    BY <1>10, <1>op DEF Lookup, Return, ReturnPc, Ops, Threads, Callers
  <2>4. cur' \in [Threads -> Uids \cup {NoUid}]
    BY <1>10, <1>cur DEF Lookup, Return, ReturnPc, Threads, Callers
  <2>5. cli' \in [Uids -> Client]
    BY <1>10, <1>cli, ClientsType DEF Lookup
  <2> QED
    BY <1>10, <2>1, <2>2, <2>3, <2>4, <2>5 DEF Lookup, Return, ReturnPc, TypeOK, mgrVars, ioVars, thVars, boundVars
<1>11. ASSUME NEW t \in Callers, SendOrder(t)
      PROVE  TypeOK'
  <2>0. cur[t] \in Uids
    BY <1>11, <1>used DEF SendOrder, Refs, NamesClient, Threads
  <2>1. op' \in [Threads -> Ops]
    BY <1>11, <1>op, <2>0 DEF SendOrder, Ops, Threads, Callers
  <2>2. pc' \in [Threads -> CallerPcs \cup IoPcs]
    BY <1>11, <1>pc, <2>0 DEF SendOrder, Goto, CallerPcs, IoPcs, Threads, Callers
  <2>3. cli' \in [Uids -> Client]
    <3>1. cli' = cli \/ cli' = [cli EXCEPT ![cur[t]] = [cli[cur[t]] EXCEPT !.last = now]]
      BY <1>11, <1>cli, <2>0 DEF SendOrder
    <3>2. [cli[cur[t]] EXCEPT !.last = now] \in Client
      BY <1>cli, <1>nat, <2>0, ClientOps
    <3> QED
      BY <3>1, <3>2, <1>cli, <2>0
  <2>4. orderDeque' \in [Ios -> Seq(Order)]
    <3>1. cli[cur[t]].io \in Ios
      BY <2>0, <1>cli, <1>nat, ClientOps
    <3> QED
      BY <1>11, <1>orderDeque, <3>1, EnqueueType, <2>0 DEF SendOrder
  <2> QED
    BY <1>11, <2>1, <2>2, <2>3, <2>4 DEF SendOrder, TypeOK, mgrVars, ioVars, thVars, boundVars
<1>12. ASSUME NEW t \in Callers, CallAgain(t)
      PROVE  TypeOK'
  <2>1. pc' \in [Threads -> CallerPcs \cup IoPcs]
    BY <1>12, <1>pc DEF CallAgain, Return, ReturnPc, Goto, CallerPcs, IoPcs, Threads, Callers
  <2>2. op' \in [Threads -> Ops]
    BY <1>12, <1>op DEF CallAgain, Return, ReturnPc, Ops, Threads, Callers
  <2>3. cur' \in [Threads -> Uids \cup {NoUid}]
    BY <1>12, <1>cur DEF CallAgain, Return, ReturnPc, Threads, Callers
  <2>4. held' \in [Threads -> Uids \cup {NoUid}]
    BY <1>12, <1>held DEF CallAgain, Return, ReturnPc, Threads, Callers
  <2>5. cli' \in [Uids -> Client]
    BY <1>12, <1>cli, ClientsType DEF CallAgain
  <2> QED
    BY <1>12, <2>1, <2>2, <2>3, <2>4, <2>5 DEF CallAgain, Return, ReturnPc, TypeOK, mgrVars, ioVars, thVars, boundVars
<1>13. ASSUME NEW t \in Callers, ResetPrivate(t)
      PROVE  TypeOK'
  <2>1. /\ pc' \in [Threads -> CallerPcs \cup IoPcs] /\ op' \in [Threads -> Ops]
       /\ cur' \in [Threads -> Uids \cup {NoUid}] /\ held' \in [Threads -> Uids \cup {NoUid}]
    BY <1>13, ReturnType DEF ResetPrivate, Callers
  <2>2. cli' \in [Uids -> Client]
    BY <1>13, <1>cli, ClientsType DEF ResetPrivate
  <2> QED
    BY <1>13, <2>1, <2>2 DEF ResetPrivate, TypeOK, mgrVars, ioVars, thVars, boundVars
<1>14. ASSUME NEW t \in Callers, DiscOrder(t)
      PROVE  TypeOK'
  <2>0. cur[t] \in Uids
    BY <1>14, <1>used DEF DiscOrder, Refs, NamesClient, Threads
  <2>1. orderDeque' \in [Ios -> Seq(Order)]
    <3>1. cli[cur[t]].io \in Ios
      BY <2>0, <1>cli, <1>nat, ClientOps
    <3> QED
      BY <1>14, <1>orderDeque, <3>1, EnqueueType, <2>0 DEF DiscOrder
  <2>2. pc' \in [Threads -> CallerPcs \cup IoPcs]
    BY <1>14, <1>pc, <2>0 DEF DiscOrder, Goto, CallerPcs, IoPcs, Threads, Callers
  <2> QED
    BY <1>14, <2>1, <2>2 DEF DiscOrder, TypeOK, mgrVars, ioVars, thVars, boundVars
<1>15. ASSUME NEW t \in Callers, Wakeup(t)
      PROVE  TypeOK'
  <2>0. cur[t] \in Uids
    BY <1>15, <1>used DEF Wakeup, Refs, NamesClient, Threads
  <2>1. wakeupFd' \in [Ios -> Nat]
    <3>1. cli[cur[t]].io \in Ios
      BY <2>0, <1>cli, <1>nat, ClientOps
    <3> QED
      BY <1>15, <1>wakeupFd, <3>1 DEF Wakeup
  <2>2. pc' \in [Threads -> CallerPcs \cup IoPcs]
    BY <1>15, <1>pc, <2>0 DEF Wakeup, Return, ReturnPc, Goto, CallerPcs, IoPcs, Threads, Callers
  <2>3. op' \in [Threads -> Ops]
    BY <1>15, <1>op, <2>0 DEF Wakeup, Return, ReturnPc, Ops, Threads, Callers
  <2>4. cur' \in [Threads -> Uids \cup {NoUid}]
    BY <1>15, <1>cur, <2>0 DEF Wakeup, Return, ReturnPc, Threads, Callers
  <2>5. held' \in [Threads -> Uids \cup {NoUid}]
    BY <1>15, <1>held, <2>0 DEF Wakeup, Return, ReturnPc, Threads, Callers
  <2>6. cli' \in [Uids -> Client]
    BY <1>15, <1>cli, ClientsType DEF Wakeup
  <2> QED
    BY <1>15, <2>1, <2>2, <2>3, <2>4, <2>5, <2>6 DEF Wakeup, Return, ReturnPc, TypeOK, mgrVars, ioVars, thVars, boundVars
<1>16. ASSUME NEW t \in Callers, Insert(t)
      PROVE  TypeOK'
  <2>0. cur[t] \in Uids
    BY <1>16, <1>used DEF Insert, Refs, NamesClient, Threads
  <2>1. connMap' \subseteq Uids
    BY <1>16, <1>connMap, <2>0 DEF Insert
  <2>2. /\ pc' \in [Threads -> CallerPcs \cup IoPcs] /\ op' \in [Threads -> Ops]
       /\ cur' \in [Threads -> Uids \cup {NoUid}] /\ held' \in [Threads -> Uids \cup {NoUid}]
    BY <1>16, ReturnType DEF Insert, Callers
  <2>3. cli' \in [Uids -> Client]
    BY <1>16, <1>cli, ClientsType DEF Insert
  <2> QED
    BY <1>16, <2>1, <2>2, <2>3 DEF Insert, TypeOK, mgrVars, ioVars, thVars, boundVars
<1>17. ASSUME NEW t \in Callers, ReadState(t)
      PROVE  TypeOK'
  <2>0. cur[t] \in Uids
    BY <1>17, <1>used DEF ReadState, Refs, NamesClient, Threads
  <2>1. st' \in [Threads -> States]
    BY <1>17, <1>st, <2>0 DEF ReadState, States, CONN_FAILED, CONN_SUCCESS, DIS_CONNECT, Threads, Callers
  <2>2. pc' \in [Threads -> CallerPcs \cup IoPcs]
    BY <1>17, <1>pc, <2>0 DEF ReadState, Goto, CallerPcs, IoPcs, Threads, Callers
  <2> QED
    BY <1>17, <2>1, <2>2 DEF ReadState, TypeOK, mgrVars, ioVars, thVars, boundVars
<1>18. ASSUME NEW t \in Threads, Notify(t)
      PROVE  TypeOK'
  <2>0. cur[t] \in Uids
    BY <1>18, <1>used DEF Notify, Refs, NamesClient, Threads
  <2>1. connMap' \subseteq Uids
    BY <1>18, <1>connMap, <2>0 DEF Notify, Resume, Return, ReturnPc
  <2>2. pc' \in [Threads -> CallerPcs \cup IoPcs]
    BY <1>18, <1>pc, <2>0 DEF Notify, Resume, Return, ReturnPc, Goto, CallerPcs, IoPcs, Threads, Callers
  <2>3. op' \in [Threads -> Ops]
    BY <1>18, <1>op, <2>0 DEF Notify, Resume, Return, ReturnPc, Ops, Threads, Callers
  <2>4. cur' \in [Threads -> Uids \cup {NoUid}]
    BY <1>18, <1>cur, <2>0 DEF Notify, Resume, Return, ReturnPc, Threads, Callers
  <2>5. held' \in [Threads -> Uids \cup {NoUid}]
    BY <1>18, <1>held, <2>0 DEF Notify, Resume, Return, ReturnPc, Threads, Callers
  <2>6. cli' \in [Uids -> Client]
    BY <1>18, <1>cli, ClientsType DEF Notify
  <2> QED
    BY <1>18, <2>1, <2>2, <2>3, <2>4, <2>5, <2>6 DEF Notify, Resume, Return, ReturnPc, TypeOK, mgrVars, ioVars, thVars, boundVars
<1>19. ASSUME NEW t \in Threads, Callback(t)
      PROVE  TypeOK'
  <2>0. cur[t] \in Uids
    BY <1>19, <1>used DEF Callback, Refs, NamesClient, Threads
  <2>1. delivered' \in [Uids -> Seq(Notice)]
    <3>1. [st |-> st[t], by |-> t] \in Notice
      BY <1>st DEF Notice
    <3>2. delivered[cur[t]] \in Seq(Notice)
      BY <2>0, <1>delivered
    <3>3. Append(delivered[cur[t]], [st |-> st[t], by |-> t]) \in Seq(Notice)
      BY <3>1, <3>2, AppendType
    <3> QED
      BY <1>19, <1>delivered, <3>3, <2>0 DEF Callback
  <2>2. pc' \in [Threads -> CallerPcs \cup IoPcs]
    BY <1>19, <1>pc, <2>0 DEF Callback, Resume, Return, ReturnPc, Goto, CallerPcs, IoPcs, Threads, Callers
  <2>3. op' \in [Threads -> Ops]
    BY <1>19, <1>op, <2>0 DEF Callback, Resume, Return, ReturnPc, Ops, Threads, Callers
  <2>4. cur' \in [Threads -> Uids \cup {NoUid}]
    BY <1>19, <1>cur, <2>0 DEF Callback, Resume, Return, ReturnPc, Threads, Callers
  <2>5. held' \in [Threads -> Uids \cup {NoUid}]
    BY <1>19, <1>held, <2>0 DEF Callback, Resume, Return, ReturnPc, Threads, Callers
  <2>6. cli' \in [Uids -> Client]
    BY <1>19, <1>cli, ClientsType DEF Callback
  <2> QED
    BY <1>19, <2>1, <2>2, <2>3, <2>4, <2>5, <2>6 DEF Callback, Resume, Return, ReturnPc, TypeOK, mgrVars, ioVars, thVars, boundVars
<1>20. ASSUME ExpireTop
      PROVE  TypeOK'
  <2>1. pc' \in [Threads -> CallerPcs \cup IoPcs]
    BY <1>20, <1>pc DEF ExpireTop, Goto, CallerPcs, IoPcs, Threads, Callers
  <2>2. num' \in [Threads -> Nat]
    BY <1>20, <1>num, <1>nat DEF ExpireTop, Threads, Callers
  <2> QED
    BY <1>20, <2>1, <2>2 DEF ExpireTop, TypeOK, mgrVars, ioVars, thVars, boundVars
<1>21. ASSUME ExpireScan
      PROVE  TypeOK'
  <2>1. expired' \subseteq Uids
    BY <1>21, <1>expired, <1>connMap DEF ExpireScan
  <2>2. pc' \in [Threads -> CallerPcs \cup IoPcs]
    BY <1>21, <1>pc DEF ExpireScan, Goto, CallerPcs, IoPcs, Threads, Callers
  <2> QED
    BY <1>21, <2>1, <2>2 DEF ExpireScan, TypeOK, mgrVars, ioVars, thVars, boundVars
<1>22. ASSUME ExpireNext
      PROVE  TypeOK'
  <2>1. expired' \subseteq Uids
    BY <1>22, <1>expired, <1>connMap DEF ExpireNext
  <2>2. pc' \in [Threads -> CallerPcs \cup IoPcs]
    BY <1>22, <1>pc DEF ExpireNext, Goto, CallerPcs, IoPcs, Threads, Callers
  <2>3. op' \in [Threads -> Ops]
    BY <1>22, <1>op DEF ExpireNext, Ops, Threads, Callers
  <2>4. cur' \in [Threads -> Uids \cup {NoUid}]
    BY <1>22, <1>cur, <1>expired DEF ExpireNext, Threads, Callers
  <2> QED
    BY <1>22, <2>1, <2>2, <2>3, <2>4 DEF ExpireNext, TypeOK, mgrVars, ioVars, thVars, boundVars
<1>23. ASSUME ExpireSleep
      PROVE  TypeOK'
  <2>1. pc' \in [Threads -> CallerPcs \cup IoPcs]
    BY <1>23, <1>pc DEF ExpireSleep, Goto, CallerPcs, IoPcs, Threads, Callers
  <2> QED
    BY <1>23, <2>1 DEF ExpireSleep, TypeOK, mgrVars, ioVars, thVars, boundVars
<1>24. ASSUME NEW i \in Ios, IoCreate(i)
      PROVE  TypeOK'
  <2>1. ioVect' \subseteq Ios
    BY <1>24 DEF IoCreate, TypeOK
  <2>2. wakeupFd' \in [Ios -> Nat]
    BY <1>24, <1>wakeupFd DEF IoCreate
  <2>3. orderDeque' \in [Ios -> Seq(Order)]
    BY <1>24, <1>orderDeque, <1>nat, <1>cli DEF IoCreate, Enqueue
  <2>4. pc' \in [Threads -> CallerPcs \cup IoPcs]
    BY <1>24, <1>pc DEF IoCreate, Goto, CallerPcs, IoPcs, Threads, Callers
  <2>5. cli' \in [Uids -> Client]
    BY <1>24, <1>cli, ClientsType DEF IoCreate
  <2> QED
    BY <1>24, <2>1, <2>2, <2>3, <2>4, <2>5 DEF IoCreate, TypeOK, mgrVars, ioVars, thVars, boundVars
<1>25. ASSUME NEW i \in Ios, IoReady(i)
      PROVE  TypeOK'
  <2>1. readyIothread' \in 0 .. UMod - 1
    BY <1>25 DEF IoReady, TypeOK, Decremented
  <2>2. pc' \in [Threads -> CallerPcs \cup IoPcs]
    BY <1>25, <1>pc DEF IoReady, Goto, CallerPcs, IoPcs, Threads, Callers
  <2> QED
    BY <1>25, <2>1, <2>2 DEF IoReady, TypeOK, mgrVars, ioVars, thVars, boundVars
<1>26. ASSUME NEW i \in Ios, IoReadyFail(i)
      PROVE  TypeOK'
  <2>1. readyFails' \in Nat
    BY <1>26 DEF IoReadyFail, TypeOK
  <2>2. pc' \in [Threads -> CallerPcs \cup IoPcs]
    BY <1>26, <1>pc DEF IoReadyFail, Goto, CallerPcs, IoPcs, Threads, Callers
  <2> QED
    BY <1>26, <2>1, <2>2 DEF IoReadyFail, TypeOK, mgrVars, ioVars, thVars, boundVars
<1>27. ASSUME NEW i \in Ios, HandleRead(i)
      PROVE  TypeOK'
  <2>1. num' \in [Threads -> Nat]
    BY <1>27, <1>num, <1>wakeupFd DEF HandleRead, Threads, Callers
  <2>2. wakeupFd' \in [Ios -> Nat]
    BY <1>27, <1>wakeupFd DEF HandleRead
  <2>3. pc' \in [Threads -> CallerPcs \cup IoPcs]
    BY <1>27, <1>pc DEF HandleRead, Goto, CallerPcs, IoPcs, Threads, Callers
  <2> QED
    BY <1>27, <2>1, <2>2, <2>3 DEF HandleRead, TypeOK, mgrVars, ioVars, thVars, boundVars
<1>28. ASSUME NEW i \in Ios, DealConnect(i)
      PROVE  TypeOK'
  <2>0. /\ Head(orderDeque[i]) \in Order /\ Tail(orderDeque[i]) \in Seq(Order)
       /\ Head(orderDeque[i]).uid \in Uids
    BY <1>28, <1>orderDeque, HeadType DEF DealConnect
  <2>1. orderDeque' \in [Ios -> Seq(Order)]
    BY <1>28, <1>orderDeque, <1>nat, <1>cli, <2>0 DEF DealConnect, Enqueue
  <2>2. cli' \in [Uids -> Client]
    BY <1>28, <1>cli, <1>nat, <2>0, ClientsType, ClientOps DEF DealConnect
  <2> QED
    BY <1>28, <2>1, <2>2 DEF DealConnect, TypeOK, mgrVars, ioVars, thVars, boundVars
<1>29. ASSUME NEW i \in Ios, DealConnectFail(i)
      PROVE  TypeOK'
  <2>0. /\ Head(orderDeque[i]) \in Order /\ Tail(orderDeque[i]) \in Seq(Order)
       /\ Head(orderDeque[i]).uid \in Uids
    BY <1>29, <1>orderDeque, HeadType DEF DealConnectFail
  <2>1. orderDeque' \in [Ios -> Seq(Order)]
    BY <1>29, <1>orderDeque, <1>nat, <1>cli, <2>0 DEF DealConnectFail, Enqueue
  <2>2. cur' \in [Threads -> Uids \cup {NoUid}]
    BY <1>29, <1>cur, <2>0 DEF DealConnectFail, Threads, Callers
  <2>3. held' \in [Threads -> Uids \cup {NoUid}]
    BY <1>29, <1>held, <2>0 DEF DealConnectFail, Threads, Callers
  <2>4. st' \in [Threads -> States]
    BY <1>29, <1>st, <2>0 DEF DealConnectFail, States, CONN_FAILED, CONN_SUCCESS, DIS_CONNECT, Threads, Callers
  <2>5. pc' \in [Threads -> CallerPcs \cup IoPcs]
    BY <1>29, <1>pc, <2>0 DEF DealConnectFail, Goto, CallerPcs, IoPcs, Threads, Callers
  <2> QED
    BY <1>29, <2>1, <2>2, <2>3, <2>4, <2>5 DEF DealConnectFail, TypeOK, mgrVars, ioVars, thVars, boundVars
<1>30. ASSUME NEW i \in Ios, DealSend(i)
      PROVE  TypeOK'
  <2>0. /\ Head(orderDeque[i]) \in Order /\ Tail(orderDeque[i]) \in Seq(Order)
       /\ Head(orderDeque[i]).uid \in Uids
    BY <1>30, <1>orderDeque, HeadType DEF DealSend
  <2>1. orderDeque' \in [Ios -> Seq(Order)]
    BY <1>30, <1>orderDeque, <1>nat, <1>cli, <2>0 DEF DealSend, Enqueue
  <2>2. cli' \in [Uids -> Client]
    BY <1>30, <1>cli, <1>nat, <2>0, ClientsType, ClientOps DEF DealSend
  <2> QED
    BY <1>30, <2>1, <2>2 DEF DealSend, TypeOK, mgrVars, ioVars, thVars, boundVars
<1>31. ASSUME NEW i \in Ios, DrainEnd(i)
      PROVE  TypeOK'
  <2>1. pc' \in [Threads -> CallerPcs \cup IoPcs]
    BY <1>31, <1>pc DEF DrainEnd, Goto, CallerPcs, IoPcs, Threads, Callers
  <2>2. num' \in [Threads -> Nat]
    BY <1>31, <1>num DEF DrainEnd, Threads, Callers
  <2> QED
    BY <1>31, <2>1, <2>2 DEF DrainEnd, TypeOK, mgrVars, ioVars, thVars, boundVars
<1>32. ASSUME NEW i \in Ios, IoLeave(i)
      PROVE  TypeOK'
  <2>1. readyIothread' \in 0 .. UMod - 1
    BY <1>32 DEF IoLeave, TypeOK, Decremented
  <2>2. pc' \in [Threads -> CallerPcs \cup IoPcs]
    BY <1>32, <1>pc DEF IoLeave, Goto, CallerPcs, IoPcs, Threads, Callers
  <2> QED
    BY <1>32, <2>1, <2>2 DEF IoLeave, TypeOK, mgrVars, ioVars, thVars, boundVars
<1>33. ASSUME NEW i \in Ios, IoCheckExit(i)
      PROVE  TypeOK'
  <2>0. exitIothread \in Nat /\ exitIothread + 1 \in Nat
    BY DEF TypeOK
  <2>1. exitIothread' \in Nat
    BY <1>33, <2>0 DEF IoCheckExit
  <2>2. pc' \in [Threads -> CallerPcs \cup IoPcs]
    BY <1>33, <1>pc DEF IoCheckExit, Goto, CallerPcs, IoPcs, Threads, Callers
  <2> QED
    BY <1>33, <2>1, <2>2 DEF IoCheckExit, TypeOK, mgrVars, ioVars, thVars, boundVars
<1>34. ASSUME NEW i \in Ios, NEW u \in Uids, OnConnected(i, u)
      PROVE  TypeOK'
  <2>1. cli' \in [Uids -> Client]
    BY <1>34, <1>cli, <1>nat, ClientOps DEF OnConnected, Event
  <2>2. cur' \in [Threads -> Uids \cup {NoUid}]
    BY <1>34, <1>cur DEF OnConnected, Event, Threads, Callers
  <2>3. st' \in [Threads -> States]
    BY <1>34, <1>st DEF OnConnected, Event, States, CONN_FAILED, CONN_SUCCESS, DIS_CONNECT, Threads, Callers
  <2>4. pc' \in [Threads -> CallerPcs \cup IoPcs]
    BY <1>34, <1>pc DEF OnConnected, Event, Goto, CallerPcs, IoPcs, Threads, Callers
  <2> QED
    BY <1>34, <2>1, <2>2, <2>3, <2>4 DEF OnConnected, Event, TypeOK, mgrVars, ioVars, thVars, boundVars
<1>35. ASSUME NEW i \in Ios, NEW u \in Uids, OnClosed(i, u)
      PROVE  TypeOK'
  <2>1. cli' \in [Uids -> Client]
    BY <1>35, <1>cli, <1>nat, ClientOps DEF OnClosed, Event
  <2>2. cur' \in [Threads -> Uids \cup {NoUid}]
    BY <1>35, <1>cur DEF OnClosed, Event, Threads, Callers
  <2>3. st' \in [Threads -> States]
    BY <1>35, <1>st DEF OnClosed, Event, States, CONN_FAILED, CONN_SUCCESS, DIS_CONNECT, Threads, Callers
  <2>4. pc' \in [Threads -> CallerPcs \cup IoPcs]
    BY <1>35, <1>pc DEF OnClosed, Event, Goto, CallerPcs, IoPcs, Threads, Callers
  <2> QED
    BY <1>35, <2>1, <2>2, <2>3, <2>4 DEF OnClosed, Event, TypeOK, mgrVars, ioVars, thVars, boundVars
<1>36. ASSUME NEW i \in Ios, NEW u \in Uids, ConnectTimeout(i, u)
      PROVE  TypeOK'
  <2>1. cli' \in [Uids -> Client]
    BY <1>36, <1>cli, <1>nat, ClientOps DEF ConnectTimeout, Event
  <2>2. cur' \in [Threads -> Uids \cup {NoUid}]
    BY <1>36, <1>cur DEF ConnectTimeout, Event, Threads, Callers
  <2>3. st' \in [Threads -> States]
    BY <1>36, <1>st DEF ConnectTimeout, Event, States, CONN_FAILED, CONN_SUCCESS, DIS_CONNECT, Threads, Callers
  <2>4. pc' \in [Threads -> CallerPcs \cup IoPcs]
    BY <1>36, <1>pc DEF ConnectTimeout, Event, Goto, CallerPcs, IoPcs, Threads, Callers
  <2> QED
    BY <1>36, <2>1, <2>2, <2>3, <2>4 DEF ConnectTimeout, Event, TypeOK, mgrVars, ioVars, thVars, boundVars
<1>37. ASSUME NEW i \in Ios, NEW u \in Uids, OnMessageExpired(i, u)
      PROVE  TypeOK'
  <2>1. cli' \in [Uids -> Client]
    BY <1>37, <1>cli, <1>nat, ClientOps DEF OnMessageExpired, Event
  <2>2. cur' \in [Threads -> Uids \cup {NoUid}]
    BY <1>37, <1>cur DEF OnMessageExpired, Event, Threads, Callers
  <2>3. st' \in [Threads -> States]
    BY <1>37, <1>st DEF OnMessageExpired, Event, States, CONN_FAILED, CONN_SUCCESS, DIS_CONNECT, Threads, Callers
  <2>4. pc' \in [Threads -> CallerPcs \cup IoPcs]
    BY <1>37, <1>pc DEF OnMessageExpired, Event, Goto, CallerPcs, IoPcs, Threads, Callers
  <2> QED
    BY <1>37, <2>1, <2>2, <2>3, <2>4 DEF OnMessageExpired, Event, TypeOK, mgrVars, ioVars, thVars, boundVars
<1>38. ASSUME NEW i \in Ios, NEW u \in Uids, OnMessage(i, u)
      PROVE  TypeOK'
  <2>1. cli' \in [Uids -> Client]
    BY <1>38, <1>cli, <1>nat, ClientOps DEF OnMessage
  <2>2. cur' \in [Threads -> Uids \cup {NoUid}]
    BY <1>38, <1>cur DEF OnMessage, Threads, Callers
  <2>3. pc' \in [Threads -> CallerPcs \cup IoPcs]
    BY <1>38, <1>pc DEF OnMessage, Goto, CallerPcs, IoPcs, Threads, Callers
  <2> QED
    BY <1>38, <2>1, <2>2, <2>3 DEF OnMessage, TypeOK, mgrVars, ioVars, thVars, boundVars
<1>39. ASSUME NEW i \in Ios, OnMessageEnd(i)
      PROVE  TypeOK'
  <2>0. cur[i] \in Uids
    BY <1>39, <1>used DEF OnMessageEnd, Refs, NamesClient, Threads
  <2>1. pc' \in [Threads -> CallerPcs \cup IoPcs]
    BY <1>39, <1>pc, <2>0 DEF OnMessageEnd, Goto, CallerPcs, IoPcs, Threads, Callers
  <2>2. cur' \in [Threads -> Uids \cup {NoUid}]
    BY <1>39, <1>cur, <2>0 DEF OnMessageEnd, Threads, Callers
  <2>3. cli' \in [Uids -> Client]
    <3>1. cli' = cli \/ cli' = [cli EXCEPT ![cur[i]] = Disconnected(cli[cur[i]])]
      BY <1>39, <1>cli, <2>0 DEF OnMessageEnd
    <3>2. Disconnected(cli[cur[i]]) \in Client
      BY <1>cli, <1>nat, <2>0, ClientOps
    <3> QED
      BY <3>1, <3>2, <1>cli, <2>0
  <2>4. st' \in [Threads -> States]
    BY <1>39, <1>st, <2>0 DEF OnMessageEnd, States, CONN_FAILED, CONN_SUCCESS, DIS_CONNECT, Threads, Callers
  <2> QED
    BY <1>39, <2>1, <2>2, <2>3, <2>4 DEF OnMessageEnd, TypeOK, mgrVars, ioVars, thVars, boundVars
<1>40. ASSUME Tick
      PROVE  TypeOK'
  <2>1. now' \in Nat
    BY <1>40 DEF Tick, TypeOK
  <2> QED
    BY <1>40, <2>1 DEF Tick, TypeOK, mgrVars, ioVars, thVars, boundVars
<1>u. CASE UNCHANGED vars
  BY <1>u DEF vars, mgrVars, ioVars, thVars, boundVars, TypeOK
<1> QED
  BY <1>1, <1>2, <1>3, <1>4, <1>5, <1>6, <1>7, <1>8, <1>9, <1>10, <1>11, <1>12, <1>13, <1>14, <1>15, <1>16, <1>17, <1>18, <1>19, <1>20, <1>21, <1>22, <1>23, <1>24, <1>25, <1>26, <1>27, <1>28, <1>29, <1>30, <1>31, <1>32, <1>33, <1>34, <1>35, <1>36, <1>37, <1>38, <1>39, <1>40, <1>u DEF Next, CallerStep, ExitStep, ExpireStep, IoStep, NetEvent, Threads

\* A call that returns names no client any more, nor does an IO thread that
\* goes back to its loop.
LEMMA ReturnRefs ==
  ASSUME TypeOK, Refs, NEW t \in Callers, Return(t), used' = used
  PROVE  \A s \in Threads : pc'[s] \in NamesClient => cur'[s] \in used'
  BY DEF TypeOK, Refs, Return, ReturnPc, Goto, Threads, NamesClient

\* A thread that leaves tcpServerConnect names no client any more.
LEMMA ResumeRefs ==
  ASSUME TypeOK, Refs, NEW t \in Threads, Resume(t), used' = used
  PROVE  \A s \in Threads : pc'[s] \in NamesClient => cur'[s] \in used'
<1> USE IoNumAssumption, UidAssumption, ThreadAssumption, BoundAssumption
<1>1. CASE t \in Callers
  <2>1. Return(t)
    BY <1>1 DEF Resume
  <2> QED
    BY <1>1, <2>1, ReturnRefs
<1>2. CASE t \notin Callers
  <2>1. /\ \A s \in Threads \ {t} : pc'[s] = pc[s] /\ cur'[s] = cur[s]
        /\ pc'[t] \in {"drain", "loop"}
    BY <1>2 DEF TypeOK, Resume, Goto
  <2>2. pc'[t] \notin NamesClient
    BY <2>1 DEF NamesClient
  <2> QED
    BY <2>1, <2>2 DEF Refs
<1> QED
  BY <1>1, <1>2

\* A queued order names a client that exists when its sender does.
LEMMA EnqueueRefs ==
  ASSUME orderDeque \in [Ios -> Seq(Order)], Refs, used \subseteq used',
         NEW i \in Ios, NEW u \in used', NEW m \in BOOLEAN,
         Enqueue(i, [uid |-> u, msg |-> m])
  PROVE  \A j \in Ios : \A k \in 1 .. Len(orderDeque'[j]) : orderDeque'[j][k].uid \in used'
<1> USE IoNumAssumption, UidAssumption, ThreadAssumption, BoundAssumption
<1> DEFINE o == [uid |-> u, msg |-> m]
<1>1. o.uid = u
  OBVIOUS
<1> HIDE DEF o
<1> SUFFICES ASSUME NEW j \in Ios, NEW k \in 1 .. Len(orderDeque'[j])
             PROVE  orderDeque'[j][k].uid \in used'
  OBVIOUS
<1>2. CASE j # i
  BY <1>2 DEF Enqueue, Refs
<1>3. CASE j = i
  <2>1. orderDeque'[i] = Append(orderDeque[i], o)
    BY DEF Enqueue, o
  <2>2. CASE k = Len(orderDeque[i]) + 1
    BY <1>1, <1>3, <2>1, <2>2
  <2>3. CASE k \in 1 .. Len(orderDeque[i])
    BY <1>3, <2>1, <2>3 DEF Refs
  <2> QED
    BY <1>3, <2>1, <2>2, <2>3
<1> QED
  BY <1>2, <1>3

\* The client that the next order of thread i is about.
NextUid(i) == Head(orderDeque[i]).uid

\* What dealing with an order does to the clients: only the bufferevent of
\* others may change, by their destruction.
LEMMA DealConnectClients ==
  ASSUME TypeOK, Refs, NEW i \in Ios, DealConnect(i)
  PROVE  /\ NextUid(i) \in used /\ NextUid(i) \in Uids
         /\ \A u \in Uids : cli'[u].io = cli[u].io /\ cli'[u].state = cli[u].state
         /\ ~cli[NextUid(i)].sock /\ cli'[NextUid(i)].sock
         /\ \A u \in Uids \ {NextUid(i)} : /\ cli'[u].sock = cli[u].sock
                                            /\ cli'[u].bev \in {cli[u].bev, "none"}
<1> USE IoNumAssumption, UidAssumption, ThreadAssumption, BoundAssumption
<1> DEFINE v == NextUid(i)
           c == [cli EXCEPT ![v] = Connecting(cli[v])]
<1>0. cli \in [Uids -> Client] /\ orderDeque \in [Ios -> Seq(Order)] /\ now \in Nat
  BY DEF TypeOK
<1>1. v \in used /\ v \in Uids
  BY <1>0, HeadType DEF DealConnect, Refs, NextUid
<1>2. /\ c \in [Uids -> Client]
      /\ \A u \in Uids : u # v => c[u] = cli[u]
      /\ c[v] = Connecting(cli[v])
  BY <1>0, <1>1, ClientOps
<1>3. Clients(c)
  BY <1>0, <1>1 DEF DealConnect, NextUid
<1>4. \A u \in Uids : /\ cli'[u].io = c[u].io
                       /\ cli'[u].sock = c[u].sock
                       /\ cli'[u].state = c[u].state
                       /\ cli'[u].bev \in {c[u].bev, "none"}
  BY <1>2, <1>3, ClientsType
<1>5. /\ c[v].io = cli[v].io /\ c[v].state = cli[v].state
      /\ c[v].sock /\ ~cli[v].sock
  BY <1>0, <1>1, <1>2 DEF Connecting, Client, DealConnect, NextUid
<1> QED
  BY <1>1, <1>2, <1>4, <1>5

\* The same for an order to send or to close.
LEMMA DealSendClients ==
  ASSUME TypeOK, Refs, NEW i \in Ios, DealSend(i)
  PROVE  \A u \in Uids : /\ cli'[u].io = cli[u].io
                          /\ cli'[u].sock = cli[u].sock
                          /\ cli'[u].state = cli[u].state
                          /\ cli'[u].bev \in {cli[u].bev, "none"}
<1> USE IoNumAssumption, UidAssumption, ThreadAssumption, BoundAssumption
<1> DEFINE d == Head(orderDeque[i])
           c == IF d.msg THEN cli ELSE [cli EXCEPT ![d.uid] = Disconnected(cli[d.uid])]
<1>0. cli \in [Uids -> Client] /\ orderDeque \in [Ios -> Seq(Order)] /\ now \in Nat
  BY DEF TypeOK
<1>1. d.uid \in Uids
  BY <1>0, HeadType DEF DealSend
<1>2. c \in [Uids -> Client]
  BY <1>0, <1>1, ClientOps
<1>3. Clients(c)
  BY <1>0, <1>1 DEF DealSend
<1>4. \A u \in Uids : /\ c[u].io = cli[u].io
                       /\ c[u].sock = cli[u].sock
                       /\ c[u].state = cli[u].state
                       /\ c[u].bev \in {cli[u].bev, "none"}
  <2>1. \A b \in Client : /\ Disconnected(b).io = b.io /\ Disconnected(b).sock = b.sock
                           /\ Disconnected(b).state = b.state /\ Disconnected(b).bev = "none"
    BY DEF Disconnected, Client
  <2>2. \A u \in Uids : c[u] = cli[u] \/ c[u] = Disconnected(cli[u])
    BY <1>0, <1>1
  <2> QED BY <1>0, <2>1, <2>2
<1>5. \A u \in Uids : /\ cli'[u].io = c[u].io
                       /\ cli'[u].sock = c[u].sock
                       /\ cli'[u].state = c[u].state
                       /\ cli'[u].bev \in {c[u].bev, "none"}
  BY <1>2, <1>3, ClientsType
<1> QED
  BY <1>4, <1>5

\* Every step keeps every name of a client the name of one that exists.
LEMMA RefsStep ==
  ASSUME TypeOK, Refs, [Next]_vars
  PROVE  Refs'

<1> USE IoNumAssumption, UidAssumption, ThreadAssumption, BoundAssumption
<1>pc. pc \in [Threads -> CallerPcs \cup IoPcs]
  BY DEF TypeOK
<1>cur. cur \in [Threads -> Uids \cup {NoUid}]
  BY DEF TypeOK
<1>used. used \subseteq Uids
  BY DEF TypeOK
<1>orderDeque. orderDeque \in [Ios -> Seq(Order)]
  BY DEF TypeOK
<1>cli. cli \in [Uids -> Client]
  BY DEF TypeOK
<1>connMap. connMap \subseteq Uids
  BY DEF TypeOK
<1>nat. now \in Nat /\ lastIndex \in Ios
  BY DEF TypeOK
<1>1. ASSUME NEW t \in Users, InitStart(t)
      PROVE  Refs'
  <2>1. \A s \in Threads : pc'[s] \in NamesClient => cur'[s] \in used'
    BY <1>1, <1>pc, <1>cur DEF InitStart, Goto, Refs, NamesClient, Threads, Callers
  <2> QED
    BY <1>1, <2>1 DEF InitStart, Refs, mgrVars, ioVars, thVars, boundVars
<1>2. ASSUME NEW t \in Users, InitDone(t)
      PROVE  Refs'
  <2>1. \A s \in Threads : pc'[s] \in NamesClient => cur'[s] \in used'
    BY <1>2, <1>pc, <1>cur DEF InitDone, Goto, Refs, NamesClient, Threads, Callers
  <2> QED
    BY <1>2, <2>1 DEF InitDone, Refs, mgrVars, ioVars, thVars, boundVars
<1>3. ASSUME NEW t \in Users, NEW u \in Uids \cup {NoUid},
              NEW o \in {"add", "send", "reset", "disc"}, Call(t, o, u)
      PROVE  Refs'
  <2>1. \A s \in Threads : pc'[s] \in NamesClient => cur'[s] \in used'
    BY <1>3, <1>pc, <1>cur, <1>cli DEF Call, Goto, Refs, NamesClient, Threads, Callers
  <2> QED
    BY <1>3, <2>1 DEF Call, Refs, mgrVars, ioVars, thVars, boundVars
<1>4. ASSUME NEW t \in Users, ExitCall(t)
      PROVE  Refs'
  <2>1. \A s \in Threads : pc'[s] \in NamesClient => cur'[s] \in used'
    BY <1>4, <1>pc, <1>cur DEF ExitCall, Goto, Refs, NamesClient, Threads, Callers
  <2> QED
    BY <1>4, <2>1 DEF ExitCall, Refs, mgrVars, ioVars, thVars, boundVars
<1>5. ASSUME NEW t \in Users, ExitWrite(t)
      PROVE  Refs'
  <2>1. \A s \in Threads : pc'[s] \in NamesClient => cur'[s] \in used'
    BY <1>5, <1>pc, <1>cur DEF ExitWrite, Goto, Refs, NamesClient, Threads, Callers
  <2> QED
    BY <1>5, <2>1 DEF ExitWrite, Refs, mgrVars, ioVars, thVars, boundVars
<1>6. ASSUME NEW t \in Users, ExitSpin(t)
      PROVE  Refs'
  <2>1. \A s \in Threads : pc'[s] \in NamesClient => cur'[s] \in used'
    BY <1>6, <1>pc, <1>cur DEF ExitSpin, Goto, Refs, NamesClient, Threads, Callers
  <2> QED
    BY <1>6, <2>1 DEF ExitSpin, Refs, mgrVars, ioVars, thVars, boundVars
<1>7. ASSUME NEW t \in Users, ExitJoin(t)
      PROVE  Refs'
  <2>1. \A s \in Threads : pc'[s] \in NamesClient => cur'[s] \in used'
    BY <1>7, ReturnRefs DEF ExitJoin, Callers
  <2>2. \A j \in Ios : \A k \in 1 .. Len(orderDeque'[j]) : orderDeque'[j][k].uid \in used'
    BY <1>7, <1>orderDeque, <1>nat DEF ExitJoin, Refs, NamesClient, Enqueue, Threads
  <2>3. \A v \in Uids : cli'[v].bev # "none" => v \in used'
    BY <1>7, <1>cli, ClientsType DEF ExitJoin, Refs
  <2> QED
    BY <1>7, <2>1, <2>2, <2>3 DEF ExitJoin, Refs, mgrVars, ioVars, thVars, boundVars
<1>8. ASSUME NEW t \in Callers, WaitReady(t)
      PROVE  Refs'
  <2>1. \A s \in Threads : pc'[s] \in NamesClient => cur'[s] \in used'
    BY <1>8, <1>pc, <1>cur DEF WaitReady, Goto, Refs, NamesClient, Threads, Callers
  <2> QED
    BY <1>8, <2>1 DEF WaitReady, Refs, mgrVars, ioVars, thVars, boundVars
<1>9. ASSUME NEW t \in Callers, NEW u \in Uids, AddOrder(t, u)
      PROVE  Refs'
  <2>1. connMap' \subseteq used'
    BY <1>9 DEF AddOrder, Refs, NamesClient, Threads
  <2>2. \A s \in Threads : pc'[s] \in NamesClient => cur'[s] \in used'
    BY <1>9, <1>pc, <1>cur, <1>cli DEF AddOrder, Goto, Refs, NamesClient, Threads, Callers
  <2>3. \A j \in Ios : \A k \in 1 .. Len(orderDeque'[j]) : orderDeque'[j][k].uid \in used'
    <3>1. CASE lastIndex \in ioVect
      BY <1>9, <3>1, <1>orderDeque, <1>nat, EnqueueRefs DEF AddOrder
    <3>2. CASE lastIndex \notin ioVect
      BY <1>9, <3>2 DEF AddOrder, Refs
    <3> QED
      BY <3>1, <3>2
  <2>4. \A v \in Uids : cli'[v].bev # "none" => v \in used'
    BY <1>9, <1>cli DEF AddOrder, Refs, Disconnected, NewClient, Client, NamesClient, Threads
  <2> QED
    BY <1>9, <2>1, <2>2, <2>3, <2>4 DEF AddOrder, Refs, mgrVars, ioVars, thVars, boundVars
<1>10. ASSUME NEW t \in Callers, Lookup(t)
      PROVE  Refs'
  <2>1. \A s \in Threads : pc'[s] \in NamesClient => cur'[s] \in used'
    BY <1>10, <1>pc, <1>cur, ReturnRefs DEF Lookup, Goto, Refs, NamesClient, Threads
  <2>2. \A v \in Uids : cli'[v].bev # "none" => v \in used'
    BY <1>10, <1>cli, ClientsType DEF Lookup, Refs
  <2> QED
    BY <1>10, <2>1, <2>2 DEF Lookup, Refs, mgrVars, ioVars, thVars, boundVars
<1>11. ASSUME NEW t \in Callers, SendOrder(t)
      PROVE  Refs'
  <2>1. \A s \in Threads : pc'[s] \in NamesClient => cur'[s] \in used'
    BY <1>11, <1>pc, <1>cur DEF SendOrder, Goto, Refs, NamesClient, Threads, Callers
  <2>2. \A j \in Ios : \A k \in 1 .. Len(orderDeque'[j]) : orderDeque'[j][k].uid \in used'
    <3>1. cur[t] \in used /\ cur[t] \in Uids
      BY <1>11, <1>used DEF SendOrder, Refs, NamesClient, Threads
    <3>2. cli[cur[t]].io \in Ios
      BY <3>1, <1>cli, <1>nat, ClientOps
    <3>3. CASE orderDeque' = orderDeque
      BY <1>11, <3>3 DEF SendOrder, Refs
    <3>4. CASE orderDeque' # orderDeque
      BY <1>11, <3>1, <3>2, <3>4, <1>orderDeque, EnqueueRefs DEF SendOrder
    <3> QED
      BY <3>3, <3>4
  <2>3. \A v \in Uids : cli'[v].bev # "none" => v \in used'
    <3>1. cur[t] \in used
      BY <1>11 DEF SendOrder, Refs, NamesClient, Threads
    <3>2. \A v \in Uids : v # cur[t] => cli'[v] = cli[v]
      BY <1>11, <1>cli DEF SendOrder
    <3> QED
      BY <1>11, <3>1, <3>2 DEF SendOrder, Refs
  <2> QED
    BY <1>11, <2>1, <2>2, <2>3 DEF SendOrder, Refs, mgrVars, ioVars, thVars, boundVars
<1>12. ASSUME NEW t \in Callers, CallAgain(t)
      PROVE  Refs'
  <2>1. \A s \in Threads : pc'[s] \in NamesClient => cur'[s] \in used'
    BY <1>12, <1>pc, <1>cur, ReturnRefs DEF CallAgain, Goto, Refs, NamesClient, Threads
  <2>2. \A v \in Uids : cli'[v].bev # "none" => v \in used'
    BY <1>12, <1>cli, ClientsType DEF CallAgain, Refs
  <2> QED
    BY <1>12, <2>1, <2>2 DEF CallAgain, Refs, mgrVars, ioVars, thVars, boundVars
<1>13. ASSUME NEW t \in Callers, ResetPrivate(t)
      PROVE  Refs'
  <2>1. \A s \in Threads : pc'[s] \in NamesClient => cur'[s] \in used'
    BY <1>13, ReturnRefs DEF ResetPrivate, Callers
  <2>2. \A v \in Uids : cli'[v].bev # "none" => v \in used'
    BY <1>13, <1>cli, ClientsType DEF ResetPrivate, Refs
  <2> QED
    BY <1>13, <2>1, <2>2 DEF ResetPrivate, Refs, mgrVars, ioVars, thVars, boundVars
<1>14. ASSUME NEW t \in Callers, DiscOrder(t)
      PROVE  Refs'
  <2>1. \A s \in Threads : pc'[s] \in NamesClient => cur'[s] \in used'
    BY <1>14, <1>pc, <1>cur DEF DiscOrder, Goto, Refs, NamesClient, Threads, Callers
  <2>2. \A j \in Ios : \A k \in 1 .. Len(orderDeque'[j]) : orderDeque'[j][k].uid \in used'
    <3>1. cur[t] \in used /\ cur[t] \in Uids
      BY <1>14, <1>used DEF DiscOrder, Refs, NamesClient, Threads
    <3>2. cli[cur[t]].io \in Ios
      BY <3>1, <1>cli, <1>nat, ClientOps
    <3>3. CASE orderDeque' = orderDeque
      BY <1>14, <3>3 DEF DiscOrder, Refs
    <3>4. CASE orderDeque' # orderDeque
      BY <1>14, <3>1, <3>2, <3>4, <1>orderDeque, EnqueueRefs DEF DiscOrder
    <3> QED
      BY <3>3, <3>4
  <2> QED
    BY <1>14, <2>1, <2>2 DEF DiscOrder, Refs, mgrVars, ioVars, thVars, boundVars
<1>15. ASSUME NEW t \in Callers, Wakeup(t)
      PROVE  Refs'
  <2>1. \A s \in Threads : pc'[s] \in NamesClient => cur'[s] \in used'
    BY <1>15, <1>pc, <1>cur, ReturnRefs DEF Wakeup, Goto, Refs, NamesClient, Threads
  <2>2. \A v \in Uids : cli'[v].bev # "none" => v \in used'
    BY <1>15, <1>cli, ClientsType DEF Wakeup, Refs
  <2> QED
    BY <1>15, <2>1, <2>2 DEF Wakeup, Refs, mgrVars, ioVars, thVars, boundVars
<1>16. ASSUME NEW t \in Callers, Insert(t)
      PROVE  Refs'
  <2>1. connMap' \subseteq used'
    BY <1>16 DEF Insert, Refs, NamesClient, Threads
  <2>2. \A s \in Threads : pc'[s] \in NamesClient => cur'[s] \in used'
    BY <1>16, ReturnRefs DEF Insert, Callers
  <2>3. \A v \in Uids : cli'[v].bev # "none" => v \in used'
    BY <1>16, <1>cli, ClientsType DEF Insert, Refs
  <2> QED
    BY <1>16, <2>1, <2>2, <2>3 DEF Insert, Refs, mgrVars, ioVars, thVars, boundVars
<1>17. ASSUME NEW t \in Callers, ReadState(t)
      PROVE  Refs'
  <2>1. \A s \in Threads : pc'[s] \in NamesClient => cur'[s] \in used'
    BY <1>17, <1>pc, <1>cur DEF ReadState, Goto, Refs, NamesClient, Threads, Callers
  <2> QED
    BY <1>17, <2>1 DEF ReadState, Refs, mgrVars, ioVars, thVars, boundVars
<1>18. ASSUME NEW t \in Threads, Notify(t)
      PROVE  Refs'
  <2>1. connMap' \subseteq used'
    BY <1>18 DEF Notify, Refs, NamesClient, Threads
  <2>2. \A s \in Threads : pc'[s] \in NamesClient => cur'[s] \in used'
    BY <1>18, <1>pc, <1>cur, ResumeRefs DEF Notify, Goto, Refs, NamesClient
  <2>3. \A v \in Uids : cli'[v].bev # "none" => v \in used'
    BY <1>18, <1>cli, ClientsType DEF Notify, Refs
  <2> QED
    BY <1>18, <2>1, <2>2, <2>3 DEF Notify, Refs, mgrVars, ioVars, thVars, boundVars
<1>19. ASSUME NEW t \in Threads, Callback(t)
      PROVE  Refs'
  <2>1. \A s \in Threads : pc'[s] \in NamesClient => cur'[s] \in used'
    BY <1>19, <1>pc, <1>cur, ResumeRefs DEF Callback, Goto, Refs, NamesClient
  <2>2. \A v \in Uids : cli'[v].bev # "none" => v \in used'
    BY <1>19, <1>cli, ClientsType DEF Callback, Refs
  <2> QED
    BY <1>19, <2>1, <2>2 DEF Callback, Refs, mgrVars, ioVars, thVars, boundVars
<1>20. ASSUME ExpireTop
      PROVE  Refs'
  <2>1. \A s \in Threads : pc'[s] \in NamesClient => cur'[s] \in used'
    BY <1>20, <1>pc, <1>cur DEF ExpireTop, Goto, Refs, NamesClient, Threads, Callers
  <2> QED
    BY <1>20, <2>1 DEF ExpireTop, Refs, mgrVars, ioVars, thVars, boundVars
<1>21. ASSUME ExpireScan
      PROVE  Refs'
  <2>1. \A s \in Threads : pc'[s] \in NamesClient => cur'[s] \in used'
    BY <1>21, <1>pc, <1>cur DEF ExpireScan, Goto, Refs, NamesClient, Threads, Callers
  <2> QED
    BY <1>21, <2>1 DEF ExpireScan, Refs, mgrVars, ioVars, thVars, boundVars
<1>22. ASSUME ExpireNext
      PROVE  Refs'
  <2>1. \A s \in Threads : pc'[s] \in NamesClient => cur'[s] \in used'
    BY <1>22, <1>pc, <1>cur DEF ExpireNext, Goto, Refs, NamesClient, Threads, Callers
  <2> QED
    BY <1>22, <2>1 DEF ExpireNext, Refs, mgrVars, ioVars, thVars, boundVars
<1>23. ASSUME ExpireSleep
      PROVE  Refs'
  <2>1. \A s \in Threads : pc'[s] \in NamesClient => cur'[s] \in used'
    BY <1>23, <1>pc, <1>cur DEF ExpireSleep, Goto, Refs, NamesClient, Threads, Callers
  <2> QED
    BY <1>23, <2>1 DEF ExpireSleep, Refs, mgrVars, ioVars, thVars, boundVars
<1>24. ASSUME NEW i \in Ios, IoCreate(i)
      PROVE  Refs'
  <2>1. \A s \in Threads : pc'[s] \in NamesClient => cur'[s] \in used'
    BY <1>24, <1>pc, <1>cur DEF IoCreate, Goto, Refs, NamesClient, Threads, Callers
  <2>2. \A j \in Ios : \A k \in 1 .. Len(orderDeque'[j]) : orderDeque'[j][k].uid \in used'
    BY <1>24, <1>orderDeque, <1>nat DEF IoCreate, Refs, NamesClient, Enqueue, Threads
  <2>3. \A v \in Uids : cli'[v].bev # "none" => v \in used'
    BY <1>24, <1>cli, ClientsType DEF IoCreate, Refs
  <2> QED
    BY <1>24, <2>1, <2>2, <2>3 DEF IoCreate, Refs, mgrVars, ioVars, thVars, boundVars
<1>25. ASSUME NEW i \in Ios, IoReady(i)
      PROVE  Refs'
  <2>1. \A s \in Threads : pc'[s] \in NamesClient => cur'[s] \in used'
    BY <1>25, <1>pc, <1>cur DEF IoReady, Goto, Refs, NamesClient, Threads, Callers
  <2> QED
    BY <1>25, <2>1 DEF IoReady, Refs, mgrVars, ioVars, thVars, boundVars
<1>26. ASSUME NEW i \in Ios, IoReadyFail(i)
      PROVE  Refs'
  <2>1. \A s \in Threads : pc'[s] \in NamesClient => cur'[s] \in used'
    BY <1>26, <1>pc, <1>cur DEF IoReadyFail, Goto, Refs, NamesClient, Threads, Callers
  <2> QED
    BY <1>26, <2>1 DEF IoReadyFail, Refs, mgrVars, ioVars, thVars, boundVars
<1>27. ASSUME NEW i \in Ios, HandleRead(i)
      PROVE  Refs'
  <2>1. \A s \in Threads : pc'[s] \in NamesClient => cur'[s] \in used'
    BY <1>27, <1>pc, <1>cur DEF HandleRead, Goto, Refs, NamesClient, Threads, Callers
  <2> QED
    BY <1>27, <2>1 DEF HandleRead, Refs, mgrVars, ioVars, thVars, boundVars
<1>28. ASSUME NEW i \in Ios, DealConnect(i)
      PROVE  Refs'
  <2>1. \A j \in Ios : \A k \in 1 .. Len(orderDeque'[j]) : orderDeque'[j][k].uid \in used'
    BY <1>28, <1>orderDeque, <1>nat DEF DealConnect, Refs, NamesClient, Enqueue, Threads
  <2>2. \A v \in Uids : cli'[v].bev # "none" => v \in used'
    BY <1>28, DealConnectClients DEF DealConnect, Refs
  <2> QED
    BY <1>28, <2>1, <2>2 DEF DealConnect, Refs, mgrVars, ioVars, thVars, boundVars
<1>29. ASSUME NEW i \in Ios, DealConnectFail(i)
      PROVE  Refs'
  <2>1. \A s \in Threads : pc'[s] \in NamesClient => cur'[s] \in used'
    BY <1>29, <1>pc, <1>cur, HeadType, <1>orderDeque DEF DealConnectFail, Goto, Refs, NamesClient, Threads, Callers
  <2>2. \A j \in Ios : \A k \in 1 .. Len(orderDeque'[j]) : orderDeque'[j][k].uid \in used'
    BY <1>29, <1>orderDeque, <1>nat DEF DealConnectFail, Refs, NamesClient, Enqueue, Threads
  <2> QED
    BY <1>29, <2>1, <2>2 DEF DealConnectFail, Refs, mgrVars, ioVars, thVars, boundVars
<1>30. ASSUME NEW i \in Ios, DealSend(i)
      PROVE  Refs'
  <2>1. \A j \in Ios : \A k \in 1 .. Len(orderDeque'[j]) : orderDeque'[j][k].uid \in used'
    BY <1>30, <1>orderDeque, <1>nat DEF DealSend, Refs, NamesClient, Enqueue, Threads
  <2>2. \A v \in Uids : cli'[v].bev # "none" => v \in used'
    BY <1>30, DealSendClients DEF DealSend, Refs
  <2> QED
    BY <1>30, <2>1, <2>2 DEF DealSend, Refs, mgrVars, ioVars, thVars, boundVars
<1>31. ASSUME NEW i \in Ios, DrainEnd(i)
      PROVE  Refs'
  <2>1. \A s \in Threads : pc'[s] \in NamesClient => cur'[s] \in used'
    BY <1>31, <1>pc, <1>cur DEF DrainEnd, Goto, Refs, NamesClient, Threads, Callers
  <2> QED
    BY <1>31, <2>1 DEF DrainEnd, Refs, mgrVars, ioVars, thVars, boundVars
<1>32. ASSUME NEW i \in Ios, IoLeave(i)
      PROVE  Refs'
  <2>1. \A s \in Threads : pc'[s] \in NamesClient => cur'[s] \in used'
    BY <1>32, <1>pc, <1>cur DEF IoLeave, Goto, Refs, NamesClient, Threads, Callers
  <2> QED
    BY <1>32, <2>1 DEF IoLeave, Refs, mgrVars, ioVars, thVars, boundVars
<1>33. ASSUME NEW i \in Ios, IoCheckExit(i)
      PROVE  Refs'
  <2>1. \A s \in Threads : pc'[s] \in NamesClient => cur'[s] \in used'
    BY <1>33, <1>pc, <1>cur DEF IoCheckExit, Goto, Refs, NamesClient, Threads, Callers
  <2> QED
    BY <1>33, <2>1 DEF IoCheckExit, Refs, mgrVars, ioVars, thVars, boundVars
<1>34. ASSUME NEW i \in Ios, NEW u \in Uids, OnConnected(i, u)
      PROVE  Refs'
  <2>1. \A s \in Threads : pc'[s] \in NamesClient => cur'[s] \in used'
    BY <1>34, <1>pc, <1>cur, <1>cli DEF OnConnected, Event, Goto, Refs, NamesClient, Threads, Callers
  <2>2. \A v \in Uids : cli'[v].bev # "none" => v \in used'
    BY <1>34, <1>cli DEF OnConnected, Event, Refs, Disconnected, NewClient, Client, NamesClient, Threads
  <2> QED
    BY <1>34, <2>1, <2>2 DEF OnConnected, Event, Refs, mgrVars, ioVars, thVars, boundVars
<1>35. ASSUME NEW i \in Ios, NEW u \in Uids, OnClosed(i, u)
      PROVE  Refs'
  <2>1. \A s \in Threads : pc'[s] \in NamesClient => cur'[s] \in used'
    BY <1>35, <1>pc, <1>cur, <1>cli DEF OnClosed, Event, Goto, Refs, NamesClient, Threads, Callers
  <2>2. \A v \in Uids : cli'[v].bev # "none" => v \in used'
    BY <1>35, <1>cli DEF OnClosed, Event, Refs, Disconnected, NewClient, Client, NamesClient, Threads
  <2> QED
    BY <1>35, <2>1, <2>2 DEF OnClosed, Event, Refs, mgrVars, ioVars, thVars, boundVars
<1>36. ASSUME NEW i \in Ios, NEW u \in Uids, ConnectTimeout(i, u)
      PROVE  Refs'
  <2>1. \A s \in Threads : pc'[s] \in NamesClient => cur'[s] \in used'
    BY <1>36, <1>pc, <1>cur, <1>cli DEF ConnectTimeout, Event, Goto, Refs, NamesClient, Threads, Callers
  <2>2. \A v \in Uids : cli'[v].bev # "none" => v \in used'
    BY <1>36, <1>cli DEF ConnectTimeout, Event, Refs, Disconnected, NewClient, Client, NamesClient, Threads
  <2> QED
    BY <1>36, <2>1, <2>2 DEF ConnectTimeout, Event, Refs, mgrVars, ioVars, thVars, boundVars
<1>37. ASSUME NEW i \in Ios, NEW u \in Uids, OnMessageExpired(i, u)
      PROVE  Refs'
  <2>1. \A s \in Threads : pc'[s] \in NamesClient => cur'[s] \in used'
    BY <1>37, <1>pc, <1>cur, <1>cli DEF OnMessageExpired, Event, Goto, Refs, NamesClient, Threads, Callers
  <2>2. \A v \in Uids : cli'[v].bev # "none" => v \in used'
    BY <1>37, <1>cli DEF OnMessageExpired, Event, Refs, Disconnected, NewClient, Client, NamesClient, Threads
  <2> QED
    BY <1>37, <2>1, <2>2 DEF OnMessageExpired, Event, Refs, mgrVars, ioVars, thVars, boundVars
<1>38. ASSUME NEW i \in Ios, NEW u \in Uids, OnMessage(i, u)
      PROVE  Refs'
  <2>1. \A s \in Threads : pc'[s] \in NamesClient => cur'[s] \in used'
    BY <1>38, <1>pc, <1>cur, <1>cli DEF OnMessage, Goto, Refs, NamesClient, Threads, Callers
  <2>2. \A v \in Uids : cli'[v].bev # "none" => v \in used'
    BY <1>38, <1>cli DEF OnMessage, Refs, Disconnected, NewClient, Client, NamesClient, Threads
  <2> QED
    BY <1>38, <2>1, <2>2 DEF OnMessage, Refs, mgrVars, ioVars, thVars, boundVars
<1>39. ASSUME NEW i \in Ios, OnMessageEnd(i)
      PROVE  Refs'
  <2>1. \A s \in Threads : pc'[s] \in NamesClient => cur'[s] \in used'
    BY <1>39, <1>pc, <1>cur DEF OnMessageEnd, Goto, Refs, NamesClient, Threads, Callers
  <2>2. \A v \in Uids : cli'[v].bev # "none" => v \in used'
    <3>1. \A b \in Client : Disconnected(b).bev = "none"
      BY DEF Disconnected, Client
    <3>2. used' = used /\ \A v \in Uids : cli'[v] = cli[v] \/ cli'[v] = Disconnected(cli[v])
      BY <1>39, <1>cli DEF OnMessageEnd
    <3> QED BY <1>cli, <3>1, <3>2 DEF Refs
  <2> QED
    BY <1>39, <2>1, <2>2 DEF OnMessageEnd, Refs, mgrVars, ioVars, thVars, boundVars
<1>40. ASSUME Tick
      PROVE  Refs'
  <2> QED
    BY <1>40 DEF Tick, Refs, mgrVars, ioVars, thVars, boundVars
<1>u. CASE UNCHANGED vars
  BY <1>u DEF vars, mgrVars, ioVars, thVars, boundVars, Refs
<1> QED
  BY <1>1, <1>2, <1>3, <1>4, <1>5, <1>6, <1>7, <1>8, <1>9, <1>10, <1>11, <1>12, <1>13, <1>14, <1>15, <1>16, <1>17, <1>18, <1>19, <1>20, <1>21, <1>22, <1>23, <1>24, <1>25, <1>26, <1>27, <1>28, <1>29, <1>30, <1>31, <1>32, <1>33, <1>34, <1>35, <1>36, <1>37, <1>38, <1>39, <1>40, <1>u DEF Next, CallerStep, ExitStep, ExpireStep, IoStep, NetEvent, Threads

-----------------------------------------------------------------------------
\* Thread i waits for its eventfd, or is about to.
Asleep(i) == InLoop(i) \/ pc[i] = "new"

\* Somebody has queued an order for thread i and not yet written its eventfd.
Waking(i) == \E t \in Callers : pc[t] = "wake" /\ cli[cur[t]].io = i

\* NoLostWakeup is not inductive: a thread that is about to enter its loop
\* must be covered as well, and so must one that is draining, whose eventfd
\* value tells it apart from a thread in its loop.
WakeInv ==
  /\ \A i \in Ios : pc[i] = "drain" => num[i] > 0
  /\ \A i \in Ios : Asleep(i) /\ orderDeque[i] # <<>> => wakeupFd[i] > 0 \/ Waking(i)

\* A step that wakes nobody and queues nothing.
LEMMA WakeQuiet ==
  ASSUME TypeOK, Refs, WakeInv,
         NEW i \in Ios,
         \A v \in used : cli'[v].io = cli[v].io,
         \A t \in Callers : pc[t] = "wake" /\ cli[cur[t]].io = i
                             => pc'[t] = "wake" /\ cur'[t] = cur[t],
         wakeupFd'[i] \in Nat,
         Asleep(i)' /\ orderDeque'[i] # <<>>
           => Asleep(i) /\ orderDeque[i] # <<>> /\ wakeupFd'[i] >= wakeupFd[i]
  PROVE  Asleep(i)' /\ orderDeque'[i] # <<>> => wakeupFd'[i] > 0 \/ Waking(i)'
<1> USE IoNumAssumption, UidAssumption, ThreadAssumption, BoundAssumption
<1> SUFFICES ASSUME Asleep(i)', orderDeque'[i] # <<>>, ~(wakeupFd'[i] > 0)
             PROVE  Waking(i)'
  OBVIOUS
<1>1. \A t \in Callers : pc[t] = "wake" => cur[t] \in used
  BY DEF Refs, NamesClient, Threads
<1>2. wakeupFd \in [Ios -> Nat]
  BY DEF TypeOK
<1>3. ~(wakeupFd[i] > 0)
  <2>1. wakeupFd[i] \in Nat
    BY <1>2
  <2>2. wakeupFd'[i] >= wakeupFd[i]
    OBVIOUS
  <2>3. wakeupFd'[i] \in Int
    OBVIOUS
  <2> QED
    BY <2>1, <2>2, <2>3
<1>4. Waking(i)
  BY <1>3 DEF WakeInv
<1> QED
  BY <1>1, <1>4 DEF Waking

\* Every step keeps each queued order owed to a wake-up: one that is under way
\* or one that has reached the thread.
LEMMA WakeStep ==
  ASSUME TypeOK, Refs, WakeInv, [Next]_vars
  PROVE  WakeInv'
<1> USE IoNumAssumption, UidAssumption, ThreadAssumption, BoundAssumption
<1>fd. wakeupFd' \in [Ios -> Nat]
  BY TypeStep DEF TypeOK

<1>pc. pc \in [Threads -> CallerPcs \cup IoPcs]
  BY DEF TypeOK
<1>cur. cur \in [Threads -> Uids \cup {NoUid}]
  BY DEF TypeOK
<1>num. num \in [Threads -> Nat]
  BY DEF TypeOK
<1>used. used \subseteq Uids
  BY DEF TypeOK
<1>orderDeque. orderDeque \in [Ios -> Seq(Order)]
  BY DEF TypeOK
<1>wakeupFd. wakeupFd \in [Ios -> Nat]
  BY DEF TypeOK
<1>cli. cli \in [Uids -> Client]
  BY DEF TypeOK
<1>nat. now \in Nat /\ lastIndex \in Ios
  BY DEF TypeOK
<1>1. ASSUME NEW t \in Users, InitStart(t)
      PROVE  WakeInv'
  <2>1. \A v \in used : cli'[v].io = cli[v].io
    BY <1>1 DEF InitStart
  <2>2. \A s \in Callers : pc[s] = "wake" => pc'[s] = "wake" /\ cur'[s] = cur[s]
    BY <1>1, <1>pc, <1>cur, ThreadAssumption DEF InitStart, Goto, Threads, Callers, mgrVars, ioVars, thVars, boundVars
  <2>3. \A j \in Ios : Asleep(j)' /\ orderDeque'[j] # <<>>
         => Asleep(j) /\ orderDeque[j] # <<>> /\ wakeupFd'[j] >= wakeupFd[j]
    BY <1>1, <1>pc, <1>num, <1>orderDeque, <1>wakeupFd, ThreadAssumption DEF InitStart, Asleep, InLoop, Goto, Threads, Callers, mgrVars, ioVars, thVars, boundVars
  <2>4. \A j \in Ios : pc'[j] = "drain" => num'[j] > 0
    BY <1>1, <1>pc, <1>num, ThreadAssumption DEF InitStart, WakeInv, Goto, Threads, Callers, mgrVars, ioVars, thVars, boundVars
  <2> QED
    BY <1>1, <2>1, <2>2, <2>3, <2>4, <1>fd, WakeQuiet DEF InitStart, WakeInv, ioVars
<1>2. ASSUME NEW t \in Users, InitDone(t)
      PROVE  WakeInv'
  <2>1. \A v \in used : cli'[v].io = cli[v].io
    BY <1>2 DEF InitDone
  <2>2. \A s \in Callers : pc[s] = "wake" => pc'[s] = "wake" /\ cur'[s] = cur[s]
    BY <1>2, <1>pc, <1>cur, ThreadAssumption DEF InitDone, Goto, Threads, Callers, mgrVars, ioVars, thVars, boundVars
  <2>3. \A j \in Ios : Asleep(j)' /\ orderDeque'[j] # <<>>
         => Asleep(j) /\ orderDeque[j] # <<>> /\ wakeupFd'[j] >= wakeupFd[j]
    BY <1>2, <1>pc, <1>num, <1>orderDeque, <1>wakeupFd, ThreadAssumption DEF InitDone, Asleep, InLoop, Goto, Threads, Callers, mgrVars, ioVars, thVars, boundVars
  <2>4. \A j \in Ios : pc'[j] = "drain" => num'[j] > 0
    BY <1>2, <1>pc, <1>num, ThreadAssumption DEF InitDone, WakeInv, Goto, Threads, Callers, mgrVars, ioVars, thVars, boundVars
  <2> QED
    BY <1>2, <2>1, <2>2, <2>3, <2>4, <1>fd, WakeQuiet DEF InitDone, WakeInv, ioVars
<1>3. ASSUME NEW t \in Users, NEW u \in Uids \cup {NoUid},
              NEW o \in {"add", "send", "reset", "disc"}, Call(t, o, u)
      PROVE  WakeInv'
  <2>1. \A v \in used : cli'[v].io = cli[v].io
    BY <1>3 DEF Call
  <2>2. \A s \in Callers : pc[s] = "wake" => pc'[s] = "wake" /\ cur'[s] = cur[s]
    BY <1>3, <1>pc, <1>cur, ThreadAssumption DEF Call, Goto, Threads, Callers, mgrVars, ioVars, thVars, boundVars
  <2>3. \A j \in Ios : Asleep(j)' /\ orderDeque'[j] # <<>>
         => Asleep(j) /\ orderDeque[j] # <<>> /\ wakeupFd'[j] >= wakeupFd[j]
    BY <1>3, <1>pc, <1>num, <1>orderDeque, <1>wakeupFd, ThreadAssumption DEF Call, Asleep, InLoop, Goto, Threads, Callers, mgrVars, ioVars, thVars, boundVars
  <2>4. \A j \in Ios : pc'[j] = "drain" => num'[j] > 0
    BY <1>3, <1>pc, <1>num, ThreadAssumption DEF Call, WakeInv, Goto, Threads, Callers, mgrVars, ioVars, thVars, boundVars
  <2> QED
    BY <1>3, <2>1, <2>2, <2>3, <2>4, <1>fd, WakeQuiet DEF Call, WakeInv, ioVars
<1>4. ASSUME NEW t \in Users, ExitCall(t)
      PROVE  WakeInv'
  <2>1. \A v \in used : cli'[v].io = cli[v].io
    BY <1>4 DEF ExitCall
  <2>2. \A s \in Callers : pc[s] = "wake" => pc'[s] = "wake" /\ cur'[s] = cur[s]
    BY <1>4, <1>pc, <1>cur, ThreadAssumption DEF ExitCall, Goto, Threads, Callers, mgrVars, ioVars, thVars, boundVars
  <2>3. \A j \in Ios : Asleep(j)' /\ orderDeque'[j] # <<>>
         => Asleep(j) /\ orderDeque[j] # <<>> /\ wakeupFd'[j] >= wakeupFd[j]
    BY <1>4, <1>pc, <1>num, <1>orderDeque, <1>wakeupFd, ThreadAssumption DEF ExitCall, Asleep, InLoop, Goto, Threads, Callers, mgrVars, ioVars, thVars, boundVars
  <2>4. \A j \in Ios : pc'[j] = "drain" => num'[j] > 0
    BY <1>4, <1>pc, <1>num, ThreadAssumption DEF ExitCall, WakeInv, Goto, Threads, Callers, mgrVars, ioVars, thVars, boundVars
  <2> QED
    BY <1>4, <2>1, <2>2, <2>3, <2>4, <1>fd, WakeQuiet DEF ExitCall, WakeInv, ioVars
<1>5. ASSUME NEW t \in Users, ExitWrite(t)
      PROVE  WakeInv'
  <2>1. \A v \in used : cli'[v].io = cli[v].io
    BY <1>5 DEF ExitWrite
  <2>2. \A s \in Callers : pc[s] = "wake" => pc'[s] = "wake" /\ cur'[s] = cur[s]
    BY <1>5, <1>pc, <1>cur, ThreadAssumption DEF ExitWrite, Goto, Threads, Callers, mgrVars, ioVars, thVars, boundVars
  <2>3. \A j \in Ios : Asleep(j)' /\ orderDeque'[j] # <<>>
         => Asleep(j) /\ orderDeque[j] # <<>> /\ wakeupFd'[j] >= wakeupFd[j]
    <3>1. pc' = [pc EXCEPT ![t] = pc'[t]] /\ num' = [num EXCEPT ![t] = num'[t]]
      BY <1>5, <1>pc, <1>num DEF ExitWrite, Goto, Threads, Callers
    <3>2. \A j \in Ios : pc'[j] = pc[j] /\ num'[j] = num[j]
      BY <3>1, <1>pc, <1>num, ThreadAssumption DEF Threads, Callers
    <3>3. \A j \in Ios : wakeupFd'[j] >= wakeupFd[j]
      BY <1>5, <1>wakeupFd DEF ExitWrite
    <3> QED
      BY <1>5, <3>2, <3>3 DEF ExitWrite, Asleep, InLoop
  <2>4. \A j \in Ios : pc'[j] = "drain" => num'[j] > 0
    BY <1>5, <1>pc, <1>num, ThreadAssumption DEF ExitWrite, WakeInv, Goto, Threads, Callers, mgrVars, ioVars, thVars, boundVars
  <2> QED
    BY <1>5, <2>1, <2>2, <2>3, <2>4, <1>fd, WakeQuiet DEF ExitWrite, WakeInv, ioVars
<1>6. ASSUME NEW t \in Users, ExitSpin(t)
      PROVE  WakeInv'
  <2>1. \A v \in used : cli'[v].io = cli[v].io
    BY <1>6 DEF ExitSpin
  <2>2. \A s \in Callers : pc[s] = "wake" => pc'[s] = "wake" /\ cur'[s] = cur[s]
    BY <1>6, <1>pc, <1>cur, ThreadAssumption DEF ExitSpin, Goto, Threads, Callers, mgrVars, ioVars, thVars, boundVars
  <2>3. \A j \in Ios : Asleep(j)' /\ orderDeque'[j] # <<>>
         => Asleep(j) /\ orderDeque[j] # <<>> /\ wakeupFd'[j] >= wakeupFd[j]
    BY <1>6, <1>pc, <1>num, <1>orderDeque, <1>wakeupFd, ThreadAssumption DEF ExitSpin, Asleep, InLoop, Goto, Threads, Callers, mgrVars, ioVars, thVars, boundVars
  <2>4. \A j \in Ios : pc'[j] = "drain" => num'[j] > 0
    BY <1>6, <1>pc, <1>num, ThreadAssumption DEF ExitSpin, WakeInv, Goto, Threads, Callers, mgrVars, ioVars, thVars, boundVars
  <2> QED
    BY <1>6, <2>1, <2>2, <2>3, <2>4, <1>fd, WakeQuiet DEF ExitSpin, WakeInv, ioVars
<1>7. ASSUME NEW t \in Users, ExitJoin(t)
      PROVE  WakeInv'
  <2>1. \A v \in used : cli'[v].io = cli[v].io
    BY <1>7, <1>cli, <1>used, ClientsType DEF ExitJoin
  <2>2. \A s \in Callers : pc[s] = "wake" => pc'[s] = "wake" /\ cur'[s] = cur[s]
    BY <1>7, <1>pc, <1>cur, ThreadAssumption DEF ExitJoin, Return, ReturnPc, Goto, Threads, Callers, mgrVars, ioVars, thVars, boundVars
  <2>3. \A j \in Ios : Asleep(j)' /\ orderDeque'[j] # <<>>
         => Asleep(j) /\ orderDeque[j] # <<>> /\ wakeupFd'[j] >= wakeupFd[j]
    BY <1>7, <1>pc, <1>num, <1>orderDeque, <1>wakeupFd, ThreadAssumption DEF ExitJoin, Return, ReturnPc, Asleep, InLoop, Goto, Threads, Callers, mgrVars, ioVars, thVars, boundVars
  <2>4. \A j \in Ios : pc'[j] = "drain" => num'[j] > 0
    BY <1>7, <1>pc, <1>num, ThreadAssumption DEF ExitJoin, Return, ReturnPc, WakeInv, Goto, Threads, Callers, mgrVars, ioVars, thVars, boundVars
  <2> QED
    BY <1>7, <2>1, <2>2, <2>3, <2>4, <1>fd, WakeQuiet DEF ExitJoin, WakeInv, ioVars
<1>8. ASSUME NEW t \in Callers, WaitReady(t)
      PROVE  WakeInv'
  <2>1. \A v \in used : cli'[v].io = cli[v].io
    BY <1>8 DEF WaitReady
  <2>2. \A s \in Callers : pc[s] = "wake" => pc'[s] = "wake" /\ cur'[s] = cur[s]
    BY <1>8, <1>pc, <1>cur, ThreadAssumption DEF WaitReady, Goto, Threads, Callers, mgrVars, ioVars, thVars, boundVars
  <2>3. \A j \in Ios : Asleep(j)' /\ orderDeque'[j] # <<>>
         => Asleep(j) /\ orderDeque[j] # <<>> /\ wakeupFd'[j] >= wakeupFd[j]
    BY <1>8, <1>pc, <1>num, <1>orderDeque, <1>wakeupFd, ThreadAssumption DEF WaitReady, Asleep, InLoop, Goto, Threads, Callers, mgrVars, ioVars, thVars, boundVars
  <2>4. \A j \in Ios : pc'[j] = "drain" => num'[j] > 0
    BY <1>8, <1>pc, <1>num, ThreadAssumption DEF WaitReady, WakeInv, Goto, Threads, Callers, mgrVars, ioVars, thVars, boundVars
  <2> QED
    BY <1>8, <2>1, <2>2, <2>3, <2>4, <1>fd, WakeQuiet DEF WaitReady, WakeInv, ioVars
<1>9. ASSUME NEW t \in Callers, NEW u \in Uids, AddOrder(t, u)
      PROVE  WakeInv'
  <2>i. PICK io \in Ios : io = lastIndex
    BY <1>nat
  <2>0. /\ \A j \in Ios : pc'[j] = pc[j] /\ num'[j] = num[j]
        /\ wakeupFd' = wakeupFd
    BY <1>9, <1>pc, ThreadAssumption DEF AddOrder, Goto, Threads, Callers
  <2>1. \A v \in used : cli'[v].io = cli[v].io
    BY <1>9, <1>cli, <1>used DEF AddOrder
  <2>2. \A s \in Callers : pc[s] = "wake" => pc'[s] = "wake" /\ cur'[s] = cur[s]
    BY <1>9, <1>pc, <1>cur DEF AddOrder, Goto, Threads
  <2>3. \A j \in Ios : j # io /\ Asleep(j)' /\ orderDeque'[j] # <<>>
          => Asleep(j) /\ orderDeque[j] # <<>> /\ wakeupFd'[j] >= wakeupFd[j]
    BY <1>9, <2>i, <2>0, <1>wakeupFd, <1>orderDeque DEF AddOrder, Enqueue, Asleep, InLoop
  <2>4. \A j \in Ios : j # io \/ lastIndex \notin ioVect =>
          (Asleep(j)' /\ orderDeque'[j] # <<>> => wakeupFd'[j] > 0 \/ Waking(j)')
    <3>1. CASE lastIndex \in ioVect
      BY <3>1, <2>1, <2>2, <2>3, <1>fd, WakeQuiet
    <3>2. CASE lastIndex \notin ioVect
      <4>1. UNCHANGED <<orderDeque, wakeupFd, pc, num>>
        BY <1>9, <3>2 DEF AddOrder
      <4>2. \A j \in Ios : Asleep(j)' /\ orderDeque'[j] # <<>>
              => Asleep(j) /\ orderDeque[j] # <<>> /\ wakeupFd'[j] >= wakeupFd[j]
        BY <4>1, <1>wakeupFd DEF Asleep, InLoop
      <4> QED
        BY <4>2, <2>1, <2>2, <1>fd, WakeQuiet
    <3> QED
      BY <3>1, <3>2
  <2>5. CASE lastIndex \in ioVect
    <3>1. pc'[t] = "wake" /\ cur'[t] = u /\ cli'[u].io = io
      BY <1>9, <2>5, <2>i, <1>pc, <1>cur, <1>cli DEF AddOrder, Goto, NewClient, Threads
    <3>2. Waking(io)'
      BY <3>1 DEF Waking
    <3> QED
      BY <2>0, <2>4, <3>2 DEF WakeInv
  <2>6. CASE lastIndex \notin ioVect
    BY <2>0, <2>4, <2>6 DEF WakeInv
  <2> QED
    BY <2>5, <2>6
<1>10. ASSUME NEW t \in Callers, Lookup(t)
      PROVE  WakeInv'
  <2>1. \A v \in used : cli'[v].io = cli[v].io
    BY <1>10, <1>cli, <1>used, ClientsType DEF Lookup
  <2>2. \A s \in Callers : pc[s] = "wake" => pc'[s] = "wake" /\ cur'[s] = cur[s]
    BY <1>10, <1>pc, <1>cur, ThreadAssumption DEF Lookup, Return, ReturnPc, Goto, Threads, Callers, mgrVars, ioVars, thVars, boundVars
  <2>3. \A j \in Ios : Asleep(j)' /\ orderDeque'[j] # <<>>
         => Asleep(j) /\ orderDeque[j] # <<>> /\ wakeupFd'[j] >= wakeupFd[j]
    BY <1>10, <1>pc, <1>num, <1>orderDeque, <1>wakeupFd, ThreadAssumption DEF Lookup, Return, ReturnPc, Asleep, InLoop, Goto, Threads, Callers, mgrVars, ioVars, thVars, boundVars
  <2>4. \A j \in Ios : pc'[j] = "drain" => num'[j] > 0
    BY <1>10, <1>pc, <1>num, ThreadAssumption DEF Lookup, Return, ReturnPc, WakeInv, Goto, Threads, Callers, mgrVars, ioVars, thVars, boundVars
  <2> QED
    BY <1>10, <2>1, <2>2, <2>3, <2>4, <1>fd, WakeQuiet DEF Lookup, WakeInv, ioVars
<1>11. ASSUME NEW t \in Callers, SendOrder(t)
      PROVE  WakeInv'
  <2>c. cur[t] \in Uids /\ cur[t] \in used
    BY <1>11, <1>used DEF SendOrder, Refs, NamesClient, Threads
  <2>i. PICK io \in Ios : io = cli[cur[t]].io
    BY <2>c, <1>cli, <1>nat, ClientOps
  <2>0. /\ \A j \in Ios : pc'[j] = pc[j] /\ num'[j] = num[j]
        /\ wakeupFd' = wakeupFd
    BY <1>11, <1>pc, ThreadAssumption DEF SendOrder, Goto, Threads, Callers
  <2>1. \A v \in used : cli'[v].io = cli[v].io
    BY <1>11, <1>cli, <2>c, <1>used DEF SendOrder, Client
  <2>2. \A s \in Callers : pc[s] = "wake" => pc'[s] = "wake" /\ cur'[s] = cur[s]
    BY <1>11, <1>pc DEF SendOrder, Goto, Threads
  <2>3. \A j \in Ios : (j # io \/ orderDeque' = orderDeque) /\ Asleep(j)' /\ orderDeque'[j] # <<>>
          => Asleep(j) /\ orderDeque[j] # <<>> /\ wakeupFd'[j] >= wakeupFd[j]
    <3>1. \A j \in Ios : j # io => orderDeque'[j] = orderDeque[j]
      BY <1>11, <2>i, <1>orderDeque DEF SendOrder, Enqueue
    <3> QED
      BY <2>0, <3>1, <1>wakeupFd DEF Asleep, InLoop
  <2>4. \A j \in Ios : j # io \/ orderDeque' = orderDeque =>
          (Asleep(j)' /\ orderDeque'[j] # <<>> => wakeupFd'[j] > 0 \/ Waking(j)')
    BY <2>1, <2>2, <2>3, <1>fd, WakeQuiet
  <2>5. orderDeque' = orderDeque \/ Waking(io)'
    <3>1. orderDeque' = orderDeque \/ pc'[t] = "wake"
      BY <1>11, <1>pc DEF SendOrder, Goto, Threads
    <3>2. cur'[t] = cur[t]
      BY <1>11 DEF SendOrder
    <3> QED
      BY <3>1, <3>2, <2>1, <2>c, <2>i DEF Waking
  <2> QED
    BY <2>0, <2>4, <2>5 DEF WakeInv
<1>12. ASSUME NEW t \in Callers, CallAgain(t)
      PROVE  WakeInv'
  <2>1. \A v \in used : cli'[v].io = cli[v].io
    BY <1>12, <1>cli, <1>used, ClientsType DEF CallAgain
  <2>2. \A s \in Callers : pc[s] = "wake" => pc'[s] = "wake" /\ cur'[s] = cur[s]
    BY <1>12, <1>pc, <1>cur, ThreadAssumption DEF CallAgain, Return, ReturnPc, Goto, Threads, Callers, mgrVars, ioVars, thVars, boundVars
  <2>3. \A j \in Ios : Asleep(j)' /\ orderDeque'[j] # <<>>
         => Asleep(j) /\ orderDeque[j] # <<>> /\ wakeupFd'[j] >= wakeupFd[j]
    BY <1>12, <1>pc, <1>num, <1>orderDeque, <1>wakeupFd, ThreadAssumption DEF CallAgain, Return, ReturnPc, Asleep, InLoop, Goto, Threads, Callers, mgrVars, ioVars, thVars, boundVars
  <2>4. \A j \in Ios : pc'[j] = "drain" => num'[j] > 0
    BY <1>12, <1>pc, <1>num, ThreadAssumption DEF CallAgain, Return, ReturnPc, WakeInv, Goto, Threads, Callers, mgrVars, ioVars, thVars, boundVars
  <2> QED
    BY <1>12, <2>1, <2>2, <2>3, <2>4, <1>fd, WakeQuiet DEF CallAgain, WakeInv, ioVars
<1>13. ASSUME NEW t \in Callers, ResetPrivate(t)
      PROVE  WakeInv'
  <2>1. \A v \in used : cli'[v].io = cli[v].io
    BY <1>13, <1>cli, <1>used, ClientsType DEF ResetPrivate
  <2>2. \A s \in Callers : pc[s] = "wake" => pc'[s] = "wake" /\ cur'[s] = cur[s]
    BY <1>13, <1>pc, <1>cur, ThreadAssumption DEF ResetPrivate, Return, ReturnPc, Goto, Threads, Callers, mgrVars, ioVars, thVars, boundVars
  <2>3. \A j \in Ios : Asleep(j)' /\ orderDeque'[j] # <<>>
         => Asleep(j) /\ orderDeque[j] # <<>> /\ wakeupFd'[j] >= wakeupFd[j]
    BY <1>13, <1>pc, <1>num, <1>orderDeque, <1>wakeupFd, ThreadAssumption DEF ResetPrivate, Return, ReturnPc, Asleep, InLoop, Goto, Threads, Callers, mgrVars, ioVars, thVars, boundVars
  <2>4. \A j \in Ios : pc'[j] = "drain" => num'[j] > 0
    BY <1>13, <1>pc, <1>num, ThreadAssumption DEF ResetPrivate, Return, ReturnPc, WakeInv, Goto, Threads, Callers, mgrVars, ioVars, thVars, boundVars
  <2> QED
    BY <1>13, <2>1, <2>2, <2>3, <2>4, <1>fd, WakeQuiet DEF ResetPrivate, WakeInv, ioVars
<1>14. ASSUME NEW t \in Callers, DiscOrder(t)
      PROVE  WakeInv'
  <2>c. cur[t] \in Uids /\ cur[t] \in used
    BY <1>14, <1>used DEF DiscOrder, Refs, NamesClient, Threads
  <2>i. PICK io \in Ios : io = cli[cur[t]].io
    BY <2>c, <1>cli, <1>nat, ClientOps
  <2>0. /\ \A j \in Ios : pc'[j] = pc[j] /\ num'[j] = num[j]
        /\ wakeupFd' = wakeupFd
    BY <1>14, <1>pc, ThreadAssumption DEF DiscOrder, Goto, Threads, Callers
  <2>1. \A v \in used : cli'[v].io = cli[v].io
    BY <1>14 DEF DiscOrder
  <2>2. \A s \in Callers : pc[s] = "wake" => pc'[s] = "wake" /\ cur'[s] = cur[s]
    BY <1>14, <1>pc DEF DiscOrder, Goto, Threads
  <2>3. \A j \in Ios : (j # io \/ orderDeque' = orderDeque) /\ Asleep(j)' /\ orderDeque'[j] # <<>>
          => Asleep(j) /\ orderDeque[j] # <<>> /\ wakeupFd'[j] >= wakeupFd[j]
    <3>1. \A j \in Ios : j # io => orderDeque'[j] = orderDeque[j]
      BY <1>14, <2>i, <1>orderDeque DEF DiscOrder, Enqueue
    <3> QED
      BY <2>0, <3>1, <1>wakeupFd DEF Asleep, InLoop
  <2>4. \A j \in Ios : j # io \/ orderDeque' = orderDeque =>
          (Asleep(j)' /\ orderDeque'[j] # <<>> => wakeupFd'[j] > 0 \/ Waking(j)')
    BY <2>1, <2>2, <2>3, <1>fd, WakeQuiet
  <2>5. orderDeque' = orderDeque \/ Waking(io)'
    <3>1. orderDeque' = orderDeque \/ pc'[t] = "wake"
      BY <1>14, <1>pc DEF DiscOrder, Goto, Threads
    <3>2. cur'[t] = cur[t]
      BY <1>14 DEF DiscOrder
    <3> QED
      BY <3>1, <3>2, <2>1, <2>c, <2>i DEF Waking
  <2> QED
    BY <2>0, <2>4, <2>5 DEF WakeInv
<1>15. ASSUME NEW t \in Callers, Wakeup(t)
      PROVE  WakeInv'
  <2> DEFINE io == cli[cur[t]].io
  <2>c. cur[t] \in Uids
    BY <1>15, <1>used DEF Wakeup, Refs, NamesClient, Threads
  <2>i. io \in Ios
    BY <2>c, <1>cli, <1>nat, ClientOps
  <2>0. /\ \A j \in Ios : pc'[j] = pc[j] /\ num'[j] = num[j]
        /\ orderDeque' = orderDeque
    BY <1>15, <1>pc, ThreadAssumption DEF Wakeup, Return, ReturnPc, Goto, Threads, Callers
  <2>1. \A v \in used : cli'[v].io = cli[v].io
    BY <1>15, <1>cli, <1>used, ClientsType DEF Wakeup
  <2>2. \A s \in Callers : s # t => pc'[s] = pc[s] /\ cur'[s] = cur[s]
    BY <1>15, <1>pc, <1>cur DEF Wakeup, Return, ReturnPc, Goto, Threads
  <2>3. /\ \A j \in Ios : wakeupFd'[j] >= wakeupFd[j]
        /\ wakeupFd'[io] > 0
    BY <1>15, <1>wakeupFd, <2>i DEF Wakeup
  <2>4. \A j \in Ios : Asleep(j)' /\ orderDeque'[j] # <<>>
          => Asleep(j) /\ orderDeque[j] # <<>> /\ wakeupFd'[j] >= wakeupFd[j]
    BY <2>0, <2>3 DEF Asleep, InLoop
  <2>5. \A j \in Ios : j # io =>
          (Asleep(j)' /\ orderDeque'[j] # <<>> => wakeupFd'[j] > 0 \/ Waking(j)')
    BY <2>1, <2>2, <2>4, <1>fd, WakeQuiet
  <2> QED
    BY <2>0, <2>3, <2>5 DEF WakeInv
<1>16. ASSUME NEW t \in Callers, Insert(t)
      PROVE  WakeInv'
  <2>1. \A v \in used : cli'[v].io = cli[v].io
    BY <1>16, <1>cli, <1>used, ClientsType DEF Insert
  <2>2. \A s \in Callers : pc[s] = "wake" => pc'[s] = "wake" /\ cur'[s] = cur[s]
    BY <1>16, <1>pc, <1>cur, ThreadAssumption DEF Insert, Return, ReturnPc, Goto, Threads, Callers, mgrVars, ioVars, thVars, boundVars
  <2>3. \A j \in Ios : Asleep(j)' /\ orderDeque'[j] # <<>>
         => Asleep(j) /\ orderDeque[j] # <<>> /\ wakeupFd'[j] >= wakeupFd[j]
    BY <1>16, <1>pc, <1>num, <1>orderDeque, <1>wakeupFd, ThreadAssumption DEF Insert, Return, ReturnPc, Asleep, InLoop, Goto, Threads, Callers, mgrVars, ioVars, thVars, boundVars
  <2>4. \A j \in Ios : pc'[j] = "drain" => num'[j] > 0
    BY <1>16, <1>pc, <1>num, ThreadAssumption DEF Insert, Return, ReturnPc, WakeInv, Goto, Threads, Callers, mgrVars, ioVars, thVars, boundVars
  <2> QED
    BY <1>16, <2>1, <2>2, <2>3, <2>4, <1>fd, WakeQuiet DEF Insert, WakeInv, ioVars
<1>17. ASSUME NEW t \in Callers, ReadState(t)
      PROVE  WakeInv'
  <2>1. \A v \in used : cli'[v].io = cli[v].io
    BY <1>17 DEF ReadState
  <2>2. \A s \in Callers : pc[s] = "wake" => pc'[s] = "wake" /\ cur'[s] = cur[s]
    BY <1>17, <1>pc, <1>cur, ThreadAssumption DEF ReadState, Goto, Threads, Callers, mgrVars, ioVars, thVars, boundVars
  <2>3. \A j \in Ios : Asleep(j)' /\ orderDeque'[j] # <<>>
         => Asleep(j) /\ orderDeque[j] # <<>> /\ wakeupFd'[j] >= wakeupFd[j]
    BY <1>17, <1>pc, <1>num, <1>orderDeque, <1>wakeupFd, ThreadAssumption DEF ReadState, Asleep, InLoop, Goto, Threads, Callers, mgrVars, ioVars, thVars, boundVars
  <2>4. \A j \in Ios : pc'[j] = "drain" => num'[j] > 0
    BY <1>17, <1>pc, <1>num, ThreadAssumption DEF ReadState, WakeInv, Goto, Threads, Callers, mgrVars, ioVars, thVars, boundVars
  <2> QED
    BY <1>17, <2>1, <2>2, <2>3, <2>4, <1>fd, WakeQuiet DEF ReadState, WakeInv, ioVars
<1>18. ASSUME NEW t \in Threads, Notify(t)
      PROVE  WakeInv'
  <2>1. \A v \in used : cli'[v].io = cli[v].io
    BY <1>18, <1>cli, <1>used, ClientsType DEF Notify
  <2>2. \A s \in Callers : pc[s] = "wake" => pc'[s] = "wake" /\ cur'[s] = cur[s]
    BY <1>18, <1>pc, <1>cur, ThreadAssumption DEF Notify, Resume, Return, ReturnPc, Goto, Threads, Callers, mgrVars, ioVars, thVars, boundVars
  <2>3. \A j \in Ios : Asleep(j)' /\ orderDeque'[j] # <<>>
         => Asleep(j) /\ orderDeque[j] # <<>> /\ wakeupFd'[j] >= wakeupFd[j]
    BY <1>18, <1>pc, <1>num, <1>orderDeque, <1>wakeupFd, ThreadAssumption DEF Notify, Resume, Return, ReturnPc, Asleep, InLoop, Goto, Threads, Callers, mgrVars, ioVars, thVars, boundVars
  <2>4. \A j \in Ios : pc'[j] = "drain" => num'[j] > 0
    BY <1>18, <1>pc, <1>num, ThreadAssumption DEF Notify, Resume, Return, ReturnPc, WakeInv, Goto, Threads, Callers, mgrVars, ioVars, thVars, boundVars
  <2> QED
    BY <1>18, <2>1, <2>2, <2>3, <2>4, <1>fd, WakeQuiet DEF Notify, WakeInv, ioVars
<1>19. ASSUME NEW t \in Threads, Callback(t)
      PROVE  WakeInv'
  <2>1. \A v \in used : cli'[v].io = cli[v].io
    BY <1>19, <1>cli, <1>used, ClientsType DEF Callback
  <2>2. \A s \in Callers : pc[s] = "wake" => pc'[s] = "wake" /\ cur'[s] = cur[s]
    BY <1>19, <1>pc, <1>cur, ThreadAssumption DEF Callback, Resume, Return, ReturnPc, Goto, Threads, Callers, mgrVars, ioVars, thVars, boundVars
  <2>3. \A j \in Ios : Asleep(j)' /\ orderDeque'[j] # <<>>
         => Asleep(j) /\ orderDeque[j] # <<>> /\ wakeupFd'[j] >= wakeupFd[j]
    BY <1>19, <1>pc, <1>num, <1>orderDeque, <1>wakeupFd, ThreadAssumption DEF Callback, Resume, Return, ReturnPc, Asleep, InLoop, Goto, Threads, Callers, mgrVars, ioVars, thVars, boundVars
  <2>4. \A j \in Ios : pc'[j] = "drain" => num'[j] > 0
    BY <1>19, <1>pc, <1>num, ThreadAssumption DEF Callback, Resume, Return, ReturnPc, WakeInv, Goto, Threads, Callers, mgrVars, ioVars, thVars, boundVars
  <2> QED
    BY <1>19, <2>1, <2>2, <2>3, <2>4, <1>fd, WakeQuiet DEF Callback, WakeInv, ioVars
<1>20. ASSUME ExpireTop
      PROVE  WakeInv'
  <2>1. \A v \in used : cli'[v].io = cli[v].io
    BY <1>20 DEF ExpireTop
  <2>2. \A s \in Callers : pc[s] = "wake" => pc'[s] = "wake" /\ cur'[s] = cur[s]
    BY <1>20, <1>pc, <1>cur, ThreadAssumption DEF ExpireTop, Goto, Threads, Callers, mgrVars, ioVars, thVars, boundVars
  <2>3. \A j \in Ios : Asleep(j)' /\ orderDeque'[j] # <<>>
         => Asleep(j) /\ orderDeque[j] # <<>> /\ wakeupFd'[j] >= wakeupFd[j]
    BY <1>20, <1>pc, <1>num, <1>orderDeque, <1>wakeupFd, ThreadAssumption DEF ExpireTop, Asleep, InLoop, Goto, Threads, Callers, mgrVars, ioVars, thVars, boundVars
  <2>4. \A j \in Ios : pc'[j] = "drain" => num'[j] > 0
    BY <1>20, <1>pc, <1>num, ThreadAssumption DEF ExpireTop, WakeInv, Goto, Threads, Callers, mgrVars, ioVars, thVars, boundVars
  <2> QED
    BY <1>20, <2>1, <2>2, <2>3, <2>4, <1>fd, WakeQuiet DEF ExpireTop, WakeInv, ioVars
<1>21. ASSUME ExpireScan
      PROVE  WakeInv'
  <2>1. \A v \in used : cli'[v].io = cli[v].io
    BY <1>21 DEF ExpireScan
  <2>2. \A s \in Callers : pc[s] = "wake" => pc'[s] = "wake" /\ cur'[s] = cur[s]
    BY <1>21, <1>pc, <1>cur, ThreadAssumption DEF ExpireScan, Goto, Threads, Callers, mgrVars, ioVars, thVars, boundVars
  <2>3. \A j \in Ios : Asleep(j)' /\ orderDeque'[j] # <<>>
         => Asleep(j) /\ orderDeque[j] # <<>> /\ wakeupFd'[j] >= wakeupFd[j]
    BY <1>21, <1>pc, <1>num, <1>orderDeque, <1>wakeupFd, ThreadAssumption DEF ExpireScan, Asleep, InLoop, Goto, Threads, Callers, mgrVars, ioVars, thVars, boundVars
  <2>4. \A j \in Ios : pc'[j] = "drain" => num'[j] > 0
    BY <1>21, <1>pc, <1>num, ThreadAssumption DEF ExpireScan, WakeInv, Goto, Threads, Callers, mgrVars, ioVars, thVars, boundVars
  <2> QED
    BY <1>21, <2>1, <2>2, <2>3, <2>4, <1>fd, WakeQuiet DEF ExpireScan, WakeInv, ioVars
<1>22. ASSUME ExpireNext
      PROVE  WakeInv'
  <2>1. \A v \in used : cli'[v].io = cli[v].io
    BY <1>22 DEF ExpireNext
  <2>2. \A s \in Callers : pc[s] = "wake" => pc'[s] = "wake" /\ cur'[s] = cur[s]
    BY <1>22, <1>pc, <1>cur, ThreadAssumption DEF ExpireNext, Goto, Threads, Callers, mgrVars, ioVars, thVars, boundVars
  <2>3. \A j \in Ios : Asleep(j)' /\ orderDeque'[j] # <<>>
         => Asleep(j) /\ orderDeque[j] # <<>> /\ wakeupFd'[j] >= wakeupFd[j]
    BY <1>22, <1>pc, <1>num, <1>orderDeque, <1>wakeupFd, ThreadAssumption DEF ExpireNext, Asleep, InLoop, Goto, Threads, Callers, mgrVars, ioVars, thVars, boundVars
  <2>4. \A j \in Ios : pc'[j] = "drain" => num'[j] > 0
    BY <1>22, <1>pc, <1>num, ThreadAssumption DEF ExpireNext, WakeInv, Goto, Threads, Callers, mgrVars, ioVars, thVars, boundVars
  <2> QED
    BY <1>22, <2>1, <2>2, <2>3, <2>4, <1>fd, WakeQuiet DEF ExpireNext, WakeInv, ioVars
<1>23. ASSUME ExpireSleep
      PROVE  WakeInv'
  <2>1. \A v \in used : cli'[v].io = cli[v].io
    BY <1>23 DEF ExpireSleep
  <2>2. \A s \in Callers : pc[s] = "wake" => pc'[s] = "wake" /\ cur'[s] = cur[s]
    BY <1>23, <1>pc, <1>cur, ThreadAssumption DEF ExpireSleep, Goto, Threads, Callers, mgrVars, ioVars, thVars, boundVars
  <2>3. \A j \in Ios : Asleep(j)' /\ orderDeque'[j] # <<>>
         => Asleep(j) /\ orderDeque[j] # <<>> /\ wakeupFd'[j] >= wakeupFd[j]
    BY <1>23, <1>pc, <1>num, <1>orderDeque, <1>wakeupFd, ThreadAssumption DEF ExpireSleep, Asleep, InLoop, Goto, Threads, Callers, mgrVars, ioVars, thVars, boundVars
  <2>4. \A j \in Ios : pc'[j] = "drain" => num'[j] > 0
    BY <1>23, <1>pc, <1>num, ThreadAssumption DEF ExpireSleep, WakeInv, Goto, Threads, Callers, mgrVars, ioVars, thVars, boundVars
  <2> QED
    BY <1>23, <2>1, <2>2, <2>3, <2>4, <1>fd, WakeQuiet DEF ExpireSleep, WakeInv, ioVars
<1>24. ASSUME NEW i \in Ios, IoCreate(i)
      PROVE  WakeInv'
  <2>1. \A v \in used : cli'[v].io = cli[v].io
    BY <1>24, <1>cli, <1>used, ClientsType DEF IoCreate
  <2>2. \A s \in Callers : pc[s] = "wake" => pc'[s] = "wake" /\ cur'[s] = cur[s]
    BY <1>24, <1>pc, <1>cur, ThreadAssumption DEF IoCreate, Goto, Threads, Callers, mgrVars, ioVars, thVars, boundVars
  <2>3. \A j \in Ios : Asleep(j)' /\ orderDeque'[j] # <<>>
         => Asleep(j) /\ orderDeque[j] # <<>> /\ wakeupFd'[j] >= wakeupFd[j]
    BY <1>24, <1>pc, <1>num, <1>orderDeque, <1>wakeupFd, ThreadAssumption DEF IoCreate, Asleep, InLoop, Goto, Threads, Callers, mgrVars, ioVars, thVars, boundVars
  <2>4. \A j \in Ios : pc'[j] = "drain" => num'[j] > 0
    BY <1>24, <1>pc, <1>num, ThreadAssumption DEF IoCreate, WakeInv, Goto, Threads, Callers, mgrVars, ioVars, thVars, boundVars
  <2> QED
    BY <1>24, <2>1, <2>2, <2>3, <2>4, <1>fd, WakeQuiet DEF IoCreate, WakeInv, ioVars
<1>25. ASSUME NEW i \in Ios, IoReady(i)
      PROVE  WakeInv'
  <2>1. \A v \in used : cli'[v].io = cli[v].io
    BY <1>25 DEF IoReady
  <2>2. \A s \in Callers : pc[s] = "wake" => pc'[s] = "wake" /\ cur'[s] = cur[s]
    BY <1>25, <1>pc, <1>cur, ThreadAssumption DEF IoReady, Goto, Threads, Callers, mgrVars, ioVars, thVars, boundVars
  <2>3. \A j \in Ios : Asleep(j)' /\ orderDeque'[j] # <<>>
         => Asleep(j) /\ orderDeque[j] # <<>> /\ wakeupFd'[j] >= wakeupFd[j]
    BY <1>25, <1>pc, <1>num, <1>orderDeque, <1>wakeupFd, ThreadAssumption DEF IoReady, Asleep, InLoop, Goto, Threads, Callers, mgrVars, ioVars, thVars, boundVars
  <2>4. \A j \in Ios : pc'[j] = "drain" => num'[j] > 0
    BY <1>25, <1>pc, <1>num, ThreadAssumption DEF IoReady, WakeInv, Goto, Threads, Callers, mgrVars, ioVars, thVars, boundVars
  <2> QED
    BY <1>25, <2>1, <2>2, <2>3, <2>4, <1>fd, WakeQuiet DEF IoReady, WakeInv, ioVars
<1>26. ASSUME NEW i \in Ios, IoReadyFail(i)
      PROVE  WakeInv'
  <2>1. \A v \in used : cli'[v].io = cli[v].io
    BY <1>26 DEF IoReadyFail
  <2>2. \A s \in Callers : pc[s] = "wake" => pc'[s] = "wake" /\ cur'[s] = cur[s]
    BY <1>26, <1>pc, <1>cur, ThreadAssumption DEF IoReadyFail, Goto, Threads, Callers, mgrVars, ioVars, thVars, boundVars
  <2>3. \A j \in Ios : Asleep(j)' /\ orderDeque'[j] # <<>>
         => Asleep(j) /\ orderDeque[j] # <<>> /\ wakeupFd'[j] >= wakeupFd[j]
    BY <1>26, <1>pc, <1>num, <1>orderDeque, <1>wakeupFd, ThreadAssumption DEF IoReadyFail, Asleep, InLoop, Goto, Threads, Callers, mgrVars, ioVars, thVars, boundVars
  <2>4. \A j \in Ios : pc'[j] = "drain" => num'[j] > 0
    BY <1>26, <1>pc, <1>num, ThreadAssumption DEF IoReadyFail, WakeInv, Goto, Threads, Callers, mgrVars, ioVars, thVars, boundVars
  <2> QED
    BY <1>26, <2>1, <2>2, <2>3, <2>4, <1>fd, WakeQuiet DEF IoReadyFail, WakeInv, ioVars
<1>27. ASSUME NEW i \in Ios, HandleRead(i)
      PROVE  WakeInv'
  <2>1. \A v \in used : cli'[v].io = cli[v].io
    BY <1>27 DEF HandleRead
  <2>2. \A s \in Callers : pc[s] = "wake" => pc'[s] = "wake" /\ cur'[s] = cur[s]
    BY <1>27, <1>pc, <1>cur, ThreadAssumption DEF HandleRead, Goto, Threads, Callers, mgrVars, ioVars, thVars, boundVars
  <2>3. \A j \in Ios : Asleep(j)' /\ orderDeque'[j] # <<>>
         => Asleep(j) /\ orderDeque[j] # <<>> /\ wakeupFd'[j] >= wakeupFd[j]
    BY <1>27, <1>pc, <1>num, <1>orderDeque, <1>wakeupFd, ThreadAssumption DEF HandleRead, Asleep, InLoop, Goto, Threads, Callers, mgrVars, ioVars, thVars, boundVars
  <2>4. \A j \in Ios : pc'[j] = "drain" => num'[j] > 0
    BY <1>27, <1>pc, <1>num, ThreadAssumption DEF HandleRead, WakeInv, Goto, Threads, Callers, mgrVars, ioVars, thVars, boundVars
  <2> QED
    BY <1>27, <2>1, <2>2, <2>3, <2>4, <1>fd, WakeQuiet DEF HandleRead, WakeInv, ioVars
<1>28. ASSUME NEW i \in Ios, DealConnect(i)
      PROVE  WakeInv'
  <2>1. \A v \in used : cli'[v].io = cli[v].io
    BY <1>28, <1>used, DealConnectClients
  <2>2. \A s \in Callers : pc[s] = "wake" => pc'[s] = "wake" /\ cur'[s] = cur[s]
    BY <1>28, <1>pc, <1>cur, ThreadAssumption DEF DealConnect, Goto, Threads, Callers, mgrVars, ioVars, thVars, boundVars
  <2>3. \A j \in Ios : Asleep(j)' /\ orderDeque'[j] # <<>>
         => Asleep(j) /\ orderDeque[j] # <<>> /\ wakeupFd'[j] >= wakeupFd[j]
    BY <1>28, <1>pc, <1>num, <1>orderDeque, <1>wakeupFd, ThreadAssumption DEF DealConnect, Asleep, InLoop, Goto, Threads, Callers, mgrVars, ioVars, thVars, boundVars
  <2>4. \A j \in Ios : pc'[j] = "drain" => num'[j] > 0
    BY <1>28, <1>pc, <1>num, ThreadAssumption DEF DealConnect, WakeInv, Goto, Threads, Callers, mgrVars, ioVars, thVars, boundVars
  <2> QED
    BY <1>28, <2>1, <2>2, <2>3, <2>4, <1>fd, WakeQuiet DEF DealConnect, WakeInv, ioVars
<1>29. ASSUME NEW i \in Ios, DealConnectFail(i)
      PROVE  WakeInv'
  <2>1. \A v \in used : cli'[v].io = cli[v].io
    BY <1>29 DEF DealConnectFail
  <2>2. \A s \in Callers : pc[s] = "wake" => pc'[s] = "wake" /\ cur'[s] = cur[s]
    BY <1>29, <1>pc, <1>cur, ThreadAssumption DEF DealConnectFail, Goto, Threads, Callers, mgrVars, ioVars, thVars, boundVars
  <2>3. \A j \in Ios : Asleep(j)' /\ orderDeque'[j] # <<>>
         => Asleep(j) /\ orderDeque[j] # <<>> /\ wakeupFd'[j] >= wakeupFd[j]
    <3>1. i \in Threads /\ pc'[i] = "notify" /\ num' = num /\ num[i] > 0 /\ wakeupFd' = wakeupFd
      BY <1>29, <1>pc, <1>num DEF DealConnectFail, WakeInv, Goto, Threads
    <3>2. ~Asleep(i)'
      BY <3>1 DEF Asleep, InLoop
    <3>3. \A j \in Ios \ {i} : pc'[j] = pc[j] /\ orderDeque'[j] = orderDeque[j]
      BY <1>29, <1>pc, <1>orderDeque DEF DealConnectFail, Goto, Threads
    <3>4. \A j \in Ios \ {i} : Asleep(j)' => Asleep(j)
      BY <3>1, <3>3 DEF Asleep, InLoop
    <3>5. \A j \in Ios : wakeupFd[j] >= wakeupFd[j]
      BY <1>wakeupFd
    <3> QED
      BY <3>1, <3>2, <3>3, <3>4, <3>5
  <2>4. \A j \in Ios : pc'[j] = "drain" => num'[j] > 0
    BY <1>29, <1>pc, <1>num, ThreadAssumption DEF DealConnectFail, WakeInv, Goto, Threads, Callers, mgrVars, ioVars, thVars, boundVars
  <2> QED
    BY <1>29, <2>1, <2>2, <2>3, <2>4, <1>fd, WakeQuiet DEF DealConnectFail, WakeInv, ioVars
<1>30. ASSUME NEW i \in Ios, DealSend(i)
      PROVE  WakeInv'
  <2>1. \A v \in used : cli'[v].io = cli[v].io
    BY <1>30, <1>used, DealSendClients
  <2>2. \A s \in Callers : pc[s] = "wake" => pc'[s] = "wake" /\ cur'[s] = cur[s]
    BY <1>30, <1>pc, <1>cur, ThreadAssumption DEF DealSend, Goto, Threads, Callers, mgrVars, ioVars, thVars, boundVars
  <2>3. \A j \in Ios : Asleep(j)' /\ orderDeque'[j] # <<>>
         => Asleep(j) /\ orderDeque[j] # <<>> /\ wakeupFd'[j] >= wakeupFd[j]
    BY <1>30, <1>pc, <1>num, <1>orderDeque, <1>wakeupFd, ThreadAssumption DEF DealSend, Asleep, InLoop, Goto, Threads, Callers, mgrVars, ioVars, thVars, boundVars
  <2>4. \A j \in Ios : pc'[j] = "drain" => num'[j] > 0
    BY <1>30, <1>pc, <1>num, ThreadAssumption DEF DealSend, WakeInv, Goto, Threads, Callers, mgrVars, ioVars, thVars, boundVars
  <2> QED
    BY <1>30, <2>1, <2>2, <2>3, <2>4, <1>fd, WakeQuiet DEF DealSend, WakeInv, ioVars
<1>31. ASSUME NEW i \in Ios, DrainEnd(i)
      PROVE  WakeInv'
  <2>1. \A v \in used : cli'[v].io = cli[v].io
    BY <1>31 DEF DrainEnd
  <2>2. \A s \in Callers : pc[s] = "wake" => pc'[s] = "wake" /\ cur'[s] = cur[s]
    BY <1>31, <1>pc, <1>cur, ThreadAssumption DEF DrainEnd, Goto, Threads, Callers, mgrVars, ioVars, thVars, boundVars
  <2>3. \A j \in Ios : Asleep(j)' /\ orderDeque'[j] # <<>>
         => Asleep(j) /\ orderDeque[j] # <<>> /\ wakeupFd'[j] >= wakeupFd[j]
    BY <1>31, <1>pc, <1>num, <1>orderDeque, <1>wakeupFd, ThreadAssumption DEF DrainEnd, Asleep, InLoop, Goto, Threads, Callers, mgrVars, ioVars, thVars, boundVars
  <2>4. \A j \in Ios : pc'[j] = "drain" => num'[j] > 0
    BY <1>31, <1>pc, <1>num, ThreadAssumption DEF DrainEnd, WakeInv, Goto, Threads, Callers, mgrVars, ioVars, thVars, boundVars
  <2> QED
    BY <1>31, <2>1, <2>2, <2>3, <2>4, <1>fd, WakeQuiet DEF DrainEnd, WakeInv, ioVars
<1>32. ASSUME NEW i \in Ios, IoLeave(i)
      PROVE  WakeInv'
  <2>1. \A v \in used : cli'[v].io = cli[v].io
    BY <1>32 DEF IoLeave
  <2>2. \A s \in Callers : pc[s] = "wake" => pc'[s] = "wake" /\ cur'[s] = cur[s]
    BY <1>32, <1>pc, <1>cur, ThreadAssumption DEF IoLeave, Goto, Threads, Callers, mgrVars, ioVars, thVars, boundVars
  <2>3. \A j \in Ios : Asleep(j)' /\ orderDeque'[j] # <<>>
         => Asleep(j) /\ orderDeque[j] # <<>> /\ wakeupFd'[j] >= wakeupFd[j]
    BY <1>32, <1>pc, <1>num, <1>orderDeque, <1>wakeupFd, ThreadAssumption DEF IoLeave, Asleep, InLoop, Goto, Threads, Callers, mgrVars, ioVars, thVars, boundVars
  <2>4. \A j \in Ios : pc'[j] = "drain" => num'[j] > 0
    BY <1>32, <1>pc, <1>num, ThreadAssumption DEF IoLeave, WakeInv, Goto, Threads, Callers, mgrVars, ioVars, thVars, boundVars
  <2> QED
    BY <1>32, <2>1, <2>2, <2>3, <2>4, <1>fd, WakeQuiet DEF IoLeave, WakeInv, ioVars
<1>33. ASSUME NEW i \in Ios, IoCheckExit(i)
      PROVE  WakeInv'
  <2>1. \A v \in used : cli'[v].io = cli[v].io
    BY <1>33 DEF IoCheckExit
  <2>2. \A s \in Callers : pc[s] = "wake" => pc'[s] = "wake" /\ cur'[s] = cur[s]
    BY <1>33, <1>pc, <1>cur, ThreadAssumption DEF IoCheckExit, Goto, Threads, Callers, mgrVars, ioVars, thVars, boundVars
  <2>3. \A j \in Ios : Asleep(j)' /\ orderDeque'[j] # <<>>
         => Asleep(j) /\ orderDeque[j] # <<>> /\ wakeupFd'[j] >= wakeupFd[j]
    BY <1>33, <1>pc, <1>num, <1>orderDeque, <1>wakeupFd, ThreadAssumption DEF IoCheckExit, Asleep, InLoop, Goto, Threads, Callers, mgrVars, ioVars, thVars, boundVars
  <2>4. \A j \in Ios : pc'[j] = "drain" => num'[j] > 0
    BY <1>33, <1>pc, <1>num, ThreadAssumption DEF IoCheckExit, WakeInv, Goto, Threads, Callers, mgrVars, ioVars, thVars, boundVars
  <2> QED
    BY <1>33, <2>1, <2>2, <2>3, <2>4, <1>fd, WakeQuiet DEF IoCheckExit, WakeInv, ioVars
<1>34. ASSUME NEW i \in Ios, NEW u \in Uids, OnConnected(i, u)
      PROVE  WakeInv'
  <2>1. \A v \in used : cli'[v].io = cli[v].io
    BY <1>34, <1>cli, <1>used DEF OnConnected, Event, Disconnected, Client
  <2>2. \A s \in Callers : pc[s] = "wake" => pc'[s] = "wake" /\ cur'[s] = cur[s]
    BY <1>34, <1>pc, <1>cur, ThreadAssumption DEF OnConnected, Event, Goto, Threads, Callers, mgrVars, ioVars, thVars, boundVars
  <2>3. \A j \in Ios : Asleep(j)' /\ orderDeque'[j] # <<>>
         => Asleep(j) /\ orderDeque[j] # <<>> /\ wakeupFd'[j] >= wakeupFd[j]
    BY <1>34, <1>pc, <1>num, <1>orderDeque, <1>wakeupFd, ThreadAssumption DEF OnConnected, Event, Asleep, InLoop, Goto, Threads, Callers, mgrVars, ioVars, thVars, boundVars
  <2>4. \A j \in Ios : pc'[j] = "drain" => num'[j] > 0
    BY <1>34, <1>pc, <1>num, ThreadAssumption DEF OnConnected, Event, WakeInv, Goto, Threads, Callers, mgrVars, ioVars, thVars, boundVars
  <2> QED
    BY <1>34, <2>1, <2>2, <2>3, <2>4, <1>fd, WakeQuiet DEF OnConnected, Event, WakeInv, ioVars
<1>35. ASSUME NEW i \in Ios, NEW u \in Uids, OnClosed(i, u)
      PROVE  WakeInv'
  <2>1. \A v \in used : cli'[v].io = cli[v].io
    BY <1>35, <1>cli, <1>used DEF OnClosed, Event, Disconnected, Client
  <2>2. \A s \in Callers : pc[s] = "wake" => pc'[s] = "wake" /\ cur'[s] = cur[s]
    BY <1>35, <1>pc, <1>cur, ThreadAssumption DEF OnClosed, Event, Goto, Threads, Callers, mgrVars, ioVars, thVars, boundVars
  <2>3. \A j \in Ios : Asleep(j)' /\ orderDeque'[j] # <<>>
         => Asleep(j) /\ orderDeque[j] # <<>> /\ wakeupFd'[j] >= wakeupFd[j]
    BY <1>35, <1>pc, <1>num, <1>orderDeque, <1>wakeupFd, ThreadAssumption DEF OnClosed, Event, Asleep, InLoop, Goto, Threads, Callers, mgrVars, ioVars, thVars, boundVars
  <2>4. \A j \in Ios : pc'[j] = "drain" => num'[j] > 0
    BY <1>35, <1>pc, <1>num, ThreadAssumption DEF OnClosed, Event, WakeInv, Goto, Threads, Callers, mgrVars, ioVars, thVars, boundVars
  <2> QED
    BY <1>35, <2>1, <2>2, <2>3, <2>4, <1>fd, WakeQuiet DEF OnClosed, Event, WakeInv, ioVars
<1>36. ASSUME NEW i \in Ios, NEW u \in Uids, ConnectTimeout(i, u)
      PROVE  WakeInv'
  <2>1. \A v \in used : cli'[v].io = cli[v].io
    BY <1>36, <1>cli, <1>used DEF ConnectTimeout, Event, Disconnected, Client
  <2>2. \A s \in Callers : pc[s] = "wake" => pc'[s] = "wake" /\ cur'[s] = cur[s]
    BY <1>36, <1>pc, <1>cur, ThreadAssumption DEF ConnectTimeout, Event, Goto, Threads, Callers, mgrVars, ioVars, thVars, boundVars
  <2>3. \A j \in Ios : Asleep(j)' /\ orderDeque'[j] # <<>>
         => Asleep(j) /\ orderDeque[j] # <<>> /\ wakeupFd'[j] >= wakeupFd[j]
    BY <1>36, <1>pc, <1>num, <1>orderDeque, <1>wakeupFd, ThreadAssumption DEF ConnectTimeout, Event, Asleep, InLoop, Goto, Threads, Callers, mgrVars, ioVars, thVars, boundVars
  <2>4. \A j \in Ios : pc'[j] = "drain" => num'[j] > 0
    BY <1>36, <1>pc, <1>num, ThreadAssumption DEF ConnectTimeout, Event, WakeInv, Goto, Threads, Callers, mgrVars, ioVars, thVars, boundVars
  <2> QED
    BY <1>36, <2>1, <2>2, <2>3, <2>4, <1>fd, WakeQuiet DEF ConnectTimeout, Event, WakeInv, ioVars
<1>37. ASSUME NEW i \in Ios, NEW u \in Uids, OnMessageExpired(i, u)
      PROVE  WakeInv'
  <2>1. \A v \in used : cli'[v].io = cli[v].io
    BY <1>37, <1>cli, <1>used DEF OnMessageExpired, Event, Disconnected, Client
  <2>2. \A s \in Callers : pc[s] = "wake" => pc'[s] = "wake" /\ cur'[s] = cur[s]
    BY <1>37, <1>pc, <1>cur, ThreadAssumption DEF OnMessageExpired, Event, Goto, Threads, Callers, mgrVars, ioVars, thVars, boundVars
  <2>3. \A j \in Ios : Asleep(j)' /\ orderDeque'[j] # <<>>
         => Asleep(j) /\ orderDeque[j] # <<>> /\ wakeupFd'[j] >= wakeupFd[j]
    BY <1>37, <1>pc, <1>num, <1>orderDeque, <1>wakeupFd, ThreadAssumption DEF OnMessageExpired, Event, Asleep, InLoop, Goto, Threads, Callers, mgrVars, ioVars, thVars, boundVars
  <2>4. \A j \in Ios : pc'[j] = "drain" => num'[j] > 0
    BY <1>37, <1>pc, <1>num, ThreadAssumption DEF OnMessageExpired, Event, WakeInv, Goto, Threads, Callers, mgrVars, ioVars, thVars, boundVars
  <2> QED
    BY <1>37, <2>1, <2>2, <2>3, <2>4, <1>fd, WakeQuiet DEF OnMessageExpired, Event, WakeInv, ioVars
<1>38. ASSUME NEW i \in Ios, NEW u \in Uids, OnMessage(i, u)
      PROVE  WakeInv'
  <2>1. \A v \in used : cli'[v].io = cli[v].io
    BY <1>38, <1>cli, <1>used DEF OnMessage, Disconnected, Client
  <2>2. \A s \in Callers : pc[s] = "wake" => pc'[s] = "wake" /\ cur'[s] = cur[s]
    BY <1>38, <1>pc, <1>cur, ThreadAssumption DEF OnMessage, Goto, Threads, Callers, mgrVars, ioVars, thVars, boundVars
  <2>3. \A j \in Ios : Asleep(j)' /\ orderDeque'[j] # <<>>
         => Asleep(j) /\ orderDeque[j] # <<>> /\ wakeupFd'[j] >= wakeupFd[j]
    BY <1>38, <1>pc, <1>num, <1>orderDeque, <1>wakeupFd, ThreadAssumption DEF OnMessage, Asleep, InLoop, Goto, Threads, Callers, mgrVars, ioVars, thVars, boundVars
  <2>4. \A j \in Ios : pc'[j] = "drain" => num'[j] > 0
    BY <1>38, <1>pc, <1>num, ThreadAssumption DEF OnMessage, WakeInv, Goto, Threads, Callers, mgrVars, ioVars, thVars, boundVars
  <2> QED
    BY <1>38, <2>1, <2>2, <2>3, <2>4, <1>fd, WakeQuiet DEF OnMessage, WakeInv, ioVars
<1>39. ASSUME NEW i \in Ios, OnMessageEnd(i)
      PROVE  WakeInv'
  <2>1. \A v \in used : cli'[v].io = cli[v].io
    BY <1>39, <1>cli, <1>used DEF OnMessageEnd, Disconnected, Client
  <2>2. \A s \in Callers : pc[s] = "wake" => pc'[s] = "wake" /\ cur'[s] = cur[s]
    BY <1>39, <1>pc, <1>cur, ThreadAssumption DEF OnMessageEnd, Goto, Threads, Callers, mgrVars, ioVars, thVars, boundVars
  <2>3. \A j \in Ios : Asleep(j)' /\ orderDeque'[j] # <<>>
         => Asleep(j) /\ orderDeque[j] # <<>> /\ wakeupFd'[j] >= wakeupFd[j]
    BY <1>39, <1>pc, <1>num, <1>orderDeque, <1>wakeupFd, ThreadAssumption DEF OnMessageEnd, Asleep, InLoop, Goto, Threads, Callers, mgrVars, ioVars, thVars, boundVars
  <2>4. \A j \in Ios : pc'[j] = "drain" => num'[j] > 0
    BY <1>39, <1>pc, <1>num, ThreadAssumption DEF OnMessageEnd, WakeInv, Goto, Threads, Callers, mgrVars, ioVars, thVars, boundVars
  <2> QED
    BY <1>39, <2>1, <2>2, <2>3, <2>4, <1>fd, WakeQuiet DEF OnMessageEnd, WakeInv, ioVars
<1>40. ASSUME Tick
      PROVE  WakeInv'
  <2>1. \A v \in used : cli'[v].io = cli[v].io
    BY <1>40 DEF Tick, thVars
  <2>2. \A s \in Callers : pc[s] = "wake" => pc'[s] = "wake" /\ cur'[s] = cur[s]
    BY <1>40, <1>pc, <1>cur, ThreadAssumption DEF Tick, Goto, Threads, Callers, mgrVars, ioVars, thVars, boundVars
  <2>3. \A j \in Ios : Asleep(j)' /\ orderDeque'[j] # <<>>
         => Asleep(j) /\ orderDeque[j] # <<>> /\ wakeupFd'[j] >= wakeupFd[j]
    BY <1>40, <1>pc, <1>num, <1>orderDeque, <1>wakeupFd, ThreadAssumption DEF Tick, Asleep, InLoop, Goto, Threads, Callers, mgrVars, ioVars, thVars, boundVars
  <2>4. \A j \in Ios : pc'[j] = "drain" => num'[j] > 0
    BY <1>40, <1>pc, <1>num, ThreadAssumption DEF Tick, WakeInv, Goto, Threads, Callers, mgrVars, ioVars, thVars, boundVars
  <2> QED
    BY <1>40, <2>1, <2>2, <2>3, <2>4, <1>fd, WakeQuiet DEF Tick, WakeInv, ioVars
<1>u. CASE UNCHANGED vars
  BY <1>u DEF vars, ioVars, thVars, WakeInv, Asleep, InLoop, Waking
<1> QED
  BY <1>1, <1>2, <1>3, <1>4, <1>5, <1>6, <1>7, <1>8, <1>9, <1>10, <1>11, <1>12, <1>13, <1>14, <1>15, <1>16, <1>17, <1>18, <1>19, <1>20, <1>21, <1>22, <1>23, <1>24, <1>25, <1>26, <1>27, <1>28, <1>29, <1>30, <1>31, <1>32, <1>33, <1>34, <1>35, <1>36, <1>37, <1>38, <1>39, <1>40, <1>u DEF Next, CallerStep, ExitStep, ExpireStep, IoStep, NetEvent, Threads


-----------------------------------------------------------------------------
(* The initial states, and the theorems.                                    *)

\* The initial states are well typed.
LEMMA TypeInit ==
  ASSUME Init
  PROVE  TypeOK
<1> USE IoNumAssumption, UidAssumption, ThreadAssumption, BoundAssumption
<1>1. [io |-> 0, sock |-> FALSE, bev |-> "none", state |-> CONN_FAILED, last |-> 0] \in Client
  BY DEF Client, Ios, CONN_FAILED
<1>2. \A S : <<>> \in Seq(S)
  OBVIOUS
<1>3. cli \in [Uids -> Client]
  BY <1>1 DEF Init
<1>4. pc \in [Threads -> CallerPcs \cup IoPcs]
  BY DEF Init, CallerPcs, IoPcs
<1>5. orderDeque \in [Ios -> Seq(Order)] /\ delivered \in [Uids -> Seq(Notice)]
  BY <1>2 DEF Init
<1>6. op \in [Threads -> Ops] /\ st \in [Threads -> States]
  BY DEF Init, Ops, States
<1>7. lastIndex \in Ios /\ readyIothread \in 0 .. UMod - 1
  BY DEF Init, Ios
<1>8. wakeupFd \in [Ios -> Nat] /\ num \in [Threads -> Nat]
  BY DEF Init
<1>9. cur \in [Threads -> Uids \cup {NoUid}] /\ held \in [Threads -> Uids \cup {NoUid}]
  BY DEF Init
<1> QED
  BY <1>3, <1>4, <1>5, <1>6, <1>7, <1>8, <1>9 DEF Init, TypeOK

\* At first nothing names a client.
LEMMA RefsInit ==
  ASSUME Init
  PROVE  Refs
<1> USE IoNumAssumption, UidAssumption, ThreadAssumption, BoundAssumption
<1>1. \A t \in Threads : pc[t] \in {"off", "exTop", "idle"}
  BY DEF Init
<1>2. \A i \in Ios : Len(orderDeque[i]) = 0
  BY DEF Init
<1>3. \A u \in Uids : cli[u].bev = "none"
  BY DEF Init
<1>4. \A i \in Ios : 1 .. Len(orderDeque[i]) = {}
  BY <1>2
<1> QED
  BY <1>1, <1>3, <1>4 DEF Init, Refs, NamesClient

\* At first nothing is queued.
LEMMA WakeInit ==
  ASSUME Init
  PROVE  WakeInv
  BY DEF Init, WakeInv, Threads

\* Every variable of the library keeps its type; in particular the unsigned
\* counter of ready threads never leaves its range and the uid a thread is
\* working on is always one that uniqueNumId has handed out.
THEOREM TypeCorrect == Spec => []TypeOK
<1> USE IoNumAssumption, UidAssumption, ThreadAssumption, BoundAssumption
<1>1. Init => TypeOK /\ Refs
  BY TypeInit, RefsInit
<1>2. TypeOK /\ Refs /\ [Next]_vars => (TypeOK /\ Refs)'
  BY TypeStep, RefsStep
<1> QED
  BY <1>1, <1>2, PTL DEF Spec

\* The deque and the eventfd of an IO thread are two objects, written by any
\* number of callers without a common lock; an order is still never left in a
\* deque whose thread sleeps.
THEOREM NoLostWakeupHolds == Spec => []NoLostWakeup
<1> USE IoNumAssumption, UidAssumption, ThreadAssumption, BoundAssumption
<1>1. Init => TypeOK /\ Refs /\ WakeInv
  BY TypeInit, RefsInit, WakeInit
<1>2. TypeOK /\ Refs /\ WakeInv /\ [Next]_vars => (TypeOK /\ Refs /\ WakeInv)'
  BY TypeStep, RefsStep, WakeStep
<1>3. WakeInv => NoLostWakeup
  BY DEF WakeInv, NoLostWakeup, Asleep, Waking
<1> QED
  BY <1>1, <1>2, <1>3, PTL DEF Spec

-----------------------------------------------------------------------------
(* Reports.                                                                  *)

\* Thread t has removed u from the map and is about to report its end.
Ending(t, u) == pc[t] = "cb" /\ cur[t] = u /\ st[t] # CONN_SUCCESS

\* Thread t is about to report that u is connected.
Beginning(t, u) == pc[t] \in {"notify", "cb"} /\ cur[t] = u /\ st[t] = CONN_SUCCESS

\* Thread t has made a client and not yet entered it in the map.
Adding(t) == pc[t] = "insert" \/ (pc[t] = "wake" /\ op[t] = "add")

\* No end and no beginning of u has been reported.
NoEnd(u) == \A k \in DOMAIN delivered[u] : Terminal(delivered[u][k]) = FALSE
NoBegin(u) == \A k \in DOMAIN delivered[u] : Terminal(delivered[u][k])

\* Nor is anybody about to report the end of u.
Unended(u) == NoEnd(u) /\ \A t \in Threads : ~Ending(t, u)

\* The right to report the end of a connection is handed on: it lies in the
\* map entry (or with the thread that is about to make it), then with the one
\* thread that removed the entry, and is gone when that one has reported.
EndInv ==
  /\ \A u \in Uids \ used : delivered[u] = <<>>
  /\ \A u \in connMap : Unended(u)
  /\ \A t \in Callers : Adding(t) => cur[t] \notin connMap /\ Unended(cur[t])
  /\ \A s, t \in Callers : Adding(s) /\ Adding(t) /\ cur[s] = cur[t] => s = t
  /\ \A u \in Uids : \A t \in Threads : Ending(t, u) =>
       NoEnd(u) /\ \A s \in Threads : Ending(s, u) => s = t
  /\ \A u \in Uids : \A j, k \in DOMAIN delivered[u] :
       Terminal(delivered[u][j]) /\ Terminal(delivered[u][k]) => j = k

\* A connection is made at most once, because its socket number, once set, is
\* never cleared and state_ never goes back.
BeginInv ==
  /\ \A u \in Uids : cli[u].bev = "connecting" => cli[u].sock /\ cli[u].state = CONN_FAILED
  /\ \A u \in Uids : cli[u].state = CONN_SUCCESS => cli[u].sock
  /\ \A u \in Uids : \A t \in Threads : Beginning(t, u) =>
       /\ cli[u].state = CONN_SUCCESS /\ NoBegin(u)
       /\ \A s \in Threads : Beginning(s, u) => s = t
  /\ \A u \in Uids : cli[u].state = CONN_SUCCESS \/ NoBegin(u)
  /\ \A u \in Uids : \A j, k \in DOMAIN delivered[u] :
       ~Terminal(delivered[u][j]) /\ ~Terminal(delivered[u][k]) => j = k

ReportInv == EndInv /\ BeginInv

\* A step after which no thread is about to end or to enter more than before,
\* or to report more beginnings.
CalmEnd ==
  /\ connMap' = connMap /\ delivered' = delivered /\ used' = used
  /\ \A s \in Threads : \A v \in Uids : Ending(s, v)' => Ending(s, v)
  /\ \A s \in Callers : Adding(s)' => Adding(s) /\ cur'[s] = cur[s]
CalmBegin ==
  /\ delivered' = delivered
  /\ \A s \in Threads : \A v \in Uids : Beginning(s, v)' => Beginning(s, v)
Calm == CalmEnd /\ CalmBegin

\* A step that makes no connection: at most a client without a socket gets one.
Steady ==
  \A v \in Uids :
    /\ cli'[v].state = cli[v].state
    /\ cli[v].sock => cli'[v].sock
    /\ cli'[v].bev = "connecting" => cli[v].bev = "connecting" \/ (cli'[v].sock /\ ~cli[v].sock)

\* Calm steps preserve what is known about ends ...
LEMMA EndCalm ==
  ASSUME TypeOK, Refs, EndInv, CalmEnd
  PROVE  EndInv'
<1>1. \A t \in Callers : Adding(t) => cur[t] \in Uids
  BY DEF Adding, Refs, NamesClient, TypeOK, Threads
<1>2. connMap \subseteq Uids
  BY DEF TypeOK
<1>3. \A u \in Uids : NoEnd(u)' <=> NoEnd(u)
  BY DEF NoEnd, CalmEnd
<1>4. \A u \in Uids : Unended(u) => Unended(u)'
  BY <1>3 DEF Unended, CalmEnd
<1> QED
  BY <1>1, <1>2, <1>3, <1>4 DEF EndInv, CalmEnd

\* ... and, when they are steady too, about beginnings.
LEMMA BeginCalm ==
  ASSUME TypeOK, BeginInv, CalmBegin, Steady
  PROVE  BeginInv'
<1>1. \A u \in Uids : NoBegin(u)' <=> NoBegin(u)
  BY DEF NoBegin, CalmBegin
<1>2. \A u \in Uids : cli[u].state \in {CONN_FAILED, CONN_SUCCESS}
  BY DEF TypeOK, Client
<1> QED
  BY <1>1, <1>2 DEF BeginInv, CalmBegin, Steady

\* Every step is calm and steady, but for the five that the argument is about.
LEMMA CalmStep ==
  ASSUME TypeOK, Refs, [Next]_vars
  PROVE  \/ Calm /\ Steady
         \/ \E t \in Callers : \E u \in Uids : AddOrder(t, u)
         \/ \E t \in Callers : Insert(t)
         \/ \E t \in Threads : Notify(t) \/ Callback(t)
         \/ \E i \in Ios : \E u \in Uids : OnConnected(i, u)
<1>pc. pc \in [Threads -> CallerPcs \cup IoPcs]
  BY DEF TypeOK
<1>op. op \in [Threads -> Ops]
  BY DEF TypeOK
<1>cur. cur \in [Threads -> Uids \cup {NoUid}]
  BY DEF TypeOK
<1>st. st \in [Threads -> States]
  BY DEF TypeOK
<1>cli. cli \in [Uids -> Client]
  BY DEF TypeOK
<1>1. ASSUME NEW t \in Users, InitStart(t)
      PROVE  Calm /\ Steady
  <2>1. Calm
    BY <1>1, <1>pc, <1>op, <1>cur, <1>st DEF Calm, CalmEnd, CalmBegin, Ending, Beginning, Adding, Goto, Threads, Callers, InitStart
  <2>2. Steady
    BY <1>1, <1>cli DEF Steady, InitStart
  <2> QED
    BY <2>1, <2>2
<1>2. ASSUME NEW t \in Users, InitDone(t)
      PROVE  Calm /\ Steady
  <2>1. Calm
    BY <1>2, <1>pc, <1>op, <1>cur, <1>st DEF Calm, CalmEnd, CalmBegin, Ending, Beginning, Adding, Goto, Threads, Callers, InitDone
  <2>2. Steady
    BY <1>2, <1>cli DEF Steady, InitDone
  <2> QED
    BY <2>1, <2>2
<1>3. ASSUME NEW t \in Users, NEW u \in Uids \cup {NoUid},
              NEW o \in {"add", "send", "reset", "disc"}, Call(t, o, u)
      PROVE  Calm /\ Steady
  <2>1. Calm
    BY <1>3, <1>pc, <1>op, <1>cur, <1>st DEF Calm, CalmEnd, CalmBegin, Ending, Beginning, Adding, Goto, Threads, Callers, Call
  <2>2. Steady
    BY <1>3, <1>cli DEF Steady, Call
  <2> QED
    BY <2>1, <2>2
<1>4. ASSUME NEW t \in Users, ExitCall(t)
      PROVE  Calm /\ Steady
  <2>1. Calm
    BY <1>4, <1>pc, <1>op, <1>cur, <1>st DEF Calm, CalmEnd, CalmBegin, Ending, Beginning, Adding, Goto, Threads, Callers, ExitCall
  <2>2. Steady
    BY <1>4, <1>cli DEF Steady, ExitCall
  <2> QED
    BY <2>1, <2>2
<1>5. ASSUME NEW t \in Users, ExitWrite(t)
      PROVE  Calm /\ Steady
  <2>1. Calm
    BY <1>5, <1>pc, <1>op, <1>cur, <1>st DEF Calm, CalmEnd, CalmBegin, Ending, Beginning, Adding, Goto, Threads, Callers, ExitWrite
  <2>2. Steady
    BY <1>5, <1>cli DEF Steady, ExitWrite
  <2> QED
    BY <2>1, <2>2
<1>6. ASSUME NEW t \in Users, ExitSpin(t)
      PROVE  Calm /\ Steady
  <2>1. Calm
    BY <1>6, <1>pc, <1>op, <1>cur, <1>st DEF Calm, CalmEnd, CalmBegin, Ending, Beginning, Adding, Goto, Threads, Callers, ExitSpin
  <2>2. Steady
    BY <1>6, <1>cli DEF Steady, ExitSpin
  <2> QED
    BY <2>1, <2>2
<1>7. ASSUME NEW t \in Users, ExitJoin(t)
      PROVE  Calm /\ Steady
  <2>1. Calm
    BY <1>7, <1>pc, <1>op, <1>cur, <1>st DEF Calm, CalmEnd, CalmBegin, Ending, Beginning, Adding, Goto, Threads, Callers, ExitJoin, Return, ReturnPc
  <2>2. Steady
    BY <1>7, <1>cli, ClientsType DEF Steady, ExitJoin
  <2> QED
    BY <2>1, <2>2
<1>8. ASSUME NEW t \in Callers, WaitReady(t)
      PROVE  Calm /\ Steady
  <2>1. Calm
    BY <1>8, <1>pc, <1>op, <1>cur, <1>st DEF Calm, CalmEnd, CalmBegin, Ending, Beginning, Adding, Goto, Threads, Callers, WaitReady
  <2>2. Steady
    BY <1>8, <1>cli DEF Steady, WaitReady
  <2> QED
    BY <2>1, <2>2
<1>9. ASSUME NEW t \in Callers, Lookup(t)
      PROVE  Calm /\ Steady
  <2>1. Calm
    BY <1>9, <1>pc, <1>op, <1>cur, <1>st DEF Calm, CalmEnd, CalmBegin, Ending, Beginning, Adding, Goto, Threads, Callers, Lookup, Return, ReturnPc
  <2>2. Steady
    BY <1>9, <1>cli, ClientsType DEF Steady, Lookup
  <2> QED
    BY <2>1, <2>2
<1>10. ASSUME NEW t \in Callers, SendOrder(t)
      PROVE  Calm /\ Steady
  <2>1. Calm
    BY <1>10, <1>pc, <1>op, <1>cur, <1>st DEF Calm, CalmEnd, CalmBegin, Ending, Beginning, Adding, Goto, Threads, Callers, SendOrder
  <2>2. Steady
    BY <1>10, <1>cli DEF Steady, SendOrder, Client
  <2> QED
    BY <2>1, <2>2
<1>11. ASSUME NEW t \in Callers, CallAgain(t)
      PROVE  Calm /\ Steady
  <2>1. Calm
    BY <1>11, <1>pc, <1>op, <1>cur, <1>st DEF Calm, CalmEnd, CalmBegin, Ending, Beginning, Adding, Goto, Threads, Callers, CallAgain, Return, ReturnPc
  <2>2. Steady
    BY <1>11, <1>cli, ClientsType DEF Steady, CallAgain
  <2> QED
    BY <2>1, <2>2
<1>12. ASSUME NEW t \in Callers, ResetPrivate(t)
      PROVE  Calm /\ Steady
  <2>1. Calm
    BY <1>12, <1>pc, <1>op, <1>cur, <1>st DEF Calm, CalmEnd, CalmBegin, Ending, Beginning, Adding, Goto, Threads, Callers, ResetPrivate, Return, ReturnPc
  <2>2. Steady
    BY <1>12, <1>cli, ClientsType DEF Steady, ResetPrivate
  <2> QED
    BY <2>1, <2>2
<1>13. ASSUME NEW t \in Callers, DiscOrder(t)
      PROVE  Calm /\ Steady
  <2>1. Calm
    BY <1>13, <1>pc, <1>op, <1>cur, <1>st DEF Calm, CalmEnd, CalmBegin, Ending, Beginning, Adding, Goto, Threads, Callers, DiscOrder
  <2>2. Steady
    BY <1>13, <1>cli DEF Steady, DiscOrder
  <2> QED
    BY <2>1, <2>2
<1>14. ASSUME NEW t \in Callers, Wakeup(t)
      PROVE  Calm /\ Steady
  <2>1. Calm
    BY <1>14, <1>pc, <1>op, <1>cur, <1>st DEF Calm, CalmEnd, CalmBegin, Ending, Beginning, Adding, Goto, Threads, Callers, Wakeup, Return, ReturnPc
  <2>2. Steady
    BY <1>14, <1>cli, ClientsType DEF Steady, Wakeup
  <2> QED
    BY <2>1, <2>2
<1>15. ASSUME NEW t \in Callers, ReadState(t)
      PROVE  Calm /\ Steady
  <2>1. Calm
    BY <1>15, <1>pc, <1>op, <1>cur, <1>st DEF Calm, CalmEnd, CalmBegin, Ending, Beginning, Adding, Goto, Threads, Callers, ReadState, CONN_FAILED, CONN_SUCCESS, DIS_CONNECT
  <2>2. Steady
    BY <1>15, <1>cli DEF Steady, ReadState
  <2> QED
    BY <2>1, <2>2
<1>16. ASSUME ExpireTop
      PROVE  Calm /\ Steady
  <2>1. Calm
    BY <1>16, <1>pc, <1>op, <1>cur, <1>st DEF Calm, CalmEnd, CalmBegin, Ending, Beginning, Adding, Goto, Threads, Callers, ExpireTop
  <2>2. Steady
    BY <1>16, <1>cli DEF Steady, ExpireTop
  <2> QED
    BY <2>1, <2>2
<1>17. ASSUME ExpireScan
      PROVE  Calm /\ Steady
  <2>1. Calm
    BY <1>17, <1>pc, <1>op, <1>cur, <1>st DEF Calm, CalmEnd, CalmBegin, Ending, Beginning, Adding, Goto, Threads, Callers, ExpireScan
  <2>2. Steady
    BY <1>17, <1>cli DEF Steady, ExpireScan
  <2> QED
    BY <2>1, <2>2
<1>18. ASSUME ExpireNext
      PROVE  Calm /\ Steady
  <2>1. Calm
    BY <1>18, <1>pc, <1>op, <1>cur, <1>st DEF Calm, CalmEnd, CalmBegin, Ending, Beginning, Adding, Goto, Threads, Callers, ExpireNext
  <2>2. Steady
    BY <1>18, <1>cli DEF Steady, ExpireNext
  <2> QED
    BY <2>1, <2>2
<1>19. ASSUME ExpireSleep
      PROVE  Calm /\ Steady
  <2>1. Calm
    BY <1>19, <1>pc, <1>op, <1>cur, <1>st DEF Calm, CalmEnd, CalmBegin, Ending, Beginning, Adding, Goto, Threads, Callers, ExpireSleep
  <2>2. Steady
    BY <1>19, <1>cli DEF Steady, ExpireSleep
  <2> QED
    BY <2>1, <2>2
<1>20. ASSUME NEW i \in Ios, IoCreate(i)
      PROVE  Calm /\ Steady
  <2>1. Calm
    BY <1>20, <1>pc, <1>op, <1>cur, <1>st DEF Calm, CalmEnd, CalmBegin, Ending, Beginning, Adding, Goto, Threads, Callers, IoCreate
  <2>2. Steady
    BY <1>20, <1>cli, ClientsType DEF Steady, IoCreate
  <2> QED
    BY <2>1, <2>2
<1>21. ASSUME NEW i \in Ios, IoReady(i)
      PROVE  Calm /\ Steady
  <2>1. Calm
    BY <1>21, <1>pc, <1>op, <1>cur, <1>st DEF Calm, CalmEnd, CalmBegin, Ending, Beginning, Adding, Goto, Threads, Callers, IoReady
  <2>2. Steady
    BY <1>21, <1>cli DEF Steady, IoReady
  <2> QED
    BY <2>1, <2>2
<1>22. ASSUME NEW i \in Ios, IoReadyFail(i)
      PROVE  Calm /\ Steady
  <2>1. Calm
    BY <1>22, <1>pc, <1>op, <1>cur, <1>st DEF Calm, CalmEnd, CalmBegin, Ending, Beginning, Adding, Goto, Threads, Callers, IoReadyFail
  <2>2. Steady
    BY <1>22, <1>cli DEF Steady, IoReadyFail
  <2> QED
    BY <2>1, <2>2
<1>23. ASSUME NEW i \in Ios, HandleRead(i)
      PROVE  Calm /\ Steady
  <2>1. Calm
    BY <1>23, <1>pc, <1>op, <1>cur, <1>st DEF Calm, CalmEnd, CalmBegin, Ending, Beginning, Adding, Goto, Threads, Callers, HandleRead
  <2>2. Steady
    BY <1>23, <1>cli DEF Steady, HandleRead
  <2> QED
    BY <2>1, <2>2
<1>24. ASSUME NEW i \in Ios, DealConnect(i)
      PROVE  Calm /\ Steady
  <2>1. Calm
    BY <1>24, <1>pc, <1>op, <1>cur, <1>st DEF Calm, CalmEnd, CalmBegin, Ending, Beginning, Adding, Goto, Threads, Callers, DealConnect, thVars
  <2>2. Steady
    BY <1>24, DealConnectClients DEF Steady
  <2> QED
    BY <2>1, <2>2
<1>25. ASSUME NEW i \in Ios, DealConnectFail(i)
      PROVE  Calm /\ Steady
  <2>1. Calm
    BY <1>25, <1>pc, <1>op, <1>cur, <1>st DEF Calm, CalmEnd, CalmBegin, Ending, Beginning, Adding, Goto, Threads, Callers, DealConnectFail, CONN_FAILED, CONN_SUCCESS, DIS_CONNECT
  <2>2. Steady
    BY <1>25, <1>cli DEF Steady, DealConnectFail
  <2> QED
    BY <2>1, <2>2
<1>26. ASSUME NEW i \in Ios, DealSend(i)
      PROVE  Calm /\ Steady
  <2>1. Calm
    BY <1>26, <1>pc, <1>op, <1>cur, <1>st DEF Calm, CalmEnd, CalmBegin, Ending, Beginning, Adding, Goto, Threads, Callers, DealSend, thVars
  <2>2. Steady
    BY <1>26, DealSendClients DEF Steady
  <2> QED
    BY <2>1, <2>2
<1>27. ASSUME NEW i \in Ios, DrainEnd(i)
      PROVE  Calm /\ Steady
  <2>1. Calm
    BY <1>27, <1>pc, <1>op, <1>cur, <1>st DEF Calm, CalmEnd, CalmBegin, Ending, Beginning, Adding, Goto, Threads, Callers, DrainEnd
  <2>2. Steady
    BY <1>27, <1>cli DEF Steady, DrainEnd
  <2> QED
    BY <2>1, <2>2
<1>28. ASSUME NEW i \in Ios, IoLeave(i)
      PROVE  Calm /\ Steady
  <2>1. Calm
    BY <1>28, <1>pc, <1>op, <1>cur, <1>st DEF Calm, CalmEnd, CalmBegin, Ending, Beginning, Adding, Goto, Threads, Callers, IoLeave
  <2>2. Steady
    BY <1>28, <1>cli DEF Steady, IoLeave
  <2> QED
    BY <2>1, <2>2
<1>29. ASSUME NEW i \in Ios, IoCheckExit(i)
      PROVE  Calm /\ Steady
  <2>1. Calm
    BY <1>29, <1>pc, <1>op, <1>cur, <1>st DEF Calm, CalmEnd, CalmBegin, Ending, Beginning, Adding, Goto, Threads, Callers, IoCheckExit
  <2>2. Steady
    BY <1>29, <1>cli DEF Steady, IoCheckExit
  <2> QED
    BY <2>1, <2>2
<1>30. ASSUME NEW i \in Ios, NEW u \in Uids, OnClosed(i, u)
      PROVE  Calm /\ Steady
  <2>1. Calm
    BY <1>30, <1>pc, <1>op, <1>cur, <1>st DEF Calm, CalmEnd, CalmBegin, Ending, Beginning, Adding, Goto, Threads, Callers, OnClosed, Event, CONN_FAILED, CONN_SUCCESS, DIS_CONNECT
  <2>2. Steady
    BY <1>30, <1>cli DEF Steady, OnClosed, Event, Client, Disconnected
  <2> QED
    BY <2>1, <2>2
<1>31. ASSUME NEW i \in Ios, NEW u \in Uids, ConnectTimeout(i, u)
      PROVE  Calm /\ Steady
  <2>1. Calm
    BY <1>31, <1>pc, <1>op, <1>cur, <1>st DEF Calm, CalmEnd, CalmBegin, Ending, Beginning, Adding, Goto, Threads, Callers, ConnectTimeout, Event, CONN_FAILED, CONN_SUCCESS, DIS_CONNECT
  <2>2. Steady
    BY <1>31, <1>cli DEF Steady, ConnectTimeout, Event, Client, Disconnected
  <2> QED
    BY <2>1, <2>2
<1>32. ASSUME NEW i \in Ios, NEW u \in Uids, OnMessageExpired(i, u)
      PROVE  Calm /\ Steady
  <2>1. Calm
    BY <1>32, <1>pc, <1>op, <1>cur, <1>st DEF Calm, CalmEnd, CalmBegin, Ending, Beginning, Adding, Goto, Threads, Callers, OnMessageExpired, Event, CONN_FAILED, CONN_SUCCESS, DIS_CONNECT
  <2>2. Steady
    BY <1>32, <1>cli DEF Steady, OnMessageExpired, Event, Client, Disconnected
  <2> QED
    BY <2>1, <2>2
<1>33. ASSUME NEW i \in Ios, NEW u \in Uids, OnMessage(i, u)
      PROVE  Calm /\ Steady
  <2>1. Calm
    BY <1>33, <1>pc, <1>op, <1>cur, <1>st DEF Calm, CalmEnd, CalmBegin, Ending, Beginning, Adding, Goto, Threads, Callers, OnMessage
  <2>2. Steady
    BY <1>33, <1>cli DEF Steady, OnMessage, Client
  <2> QED
    BY <2>1, <2>2
<1>34. ASSUME NEW i \in Ios, OnMessageEnd(i)
      PROVE  Calm /\ Steady
  <2>1. Calm
    BY <1>34, <1>pc, <1>op, <1>cur, <1>st DEF Calm, CalmEnd, CalmBegin, Ending, Beginning, Adding, Goto, Threads, Callers, OnMessageEnd, CONN_FAILED, CONN_SUCCESS, DIS_CONNECT
  <2>2. Steady
    BY <1>34, <1>cli DEF Steady, OnMessageEnd, Client, Disconnected
  <2> QED
    BY <2>1, <2>2
<1>35. ASSUME Tick
      PROVE  Calm /\ Steady
  <2>1. Calm
    BY <1>35, <1>pc, <1>op, <1>cur, <1>st DEF Calm, CalmEnd, CalmBegin, Ending, Beginning, Adding, Goto, Threads, Callers, Tick, thVars
  <2>2. Steady
    BY <1>35, <1>cli DEF Steady, Tick
  <2> QED
    BY <2>1, <2>2
<1>u. CASE UNCHANGED vars
  BY <1>u DEF vars, thVars, Calm, CalmEnd, CalmBegin, Steady, Ending, Beginning, Adding
<1> QED
  BY <1>1, <1>2, <1>3, <1>4, <1>5, <1>6, <1>7, <1>8, <1>9, <1>10, <1>11, <1>12, <1>13, <1>14, <1>15, <1>16, <1>17, <1>18, <1>19, <1>20, <1>21, <1>22, <1>23, <1>24, <1>25, <1>26, <1>27, <1>28, <1>29, <1>30, <1>31, <1>32, <1>33, <1>34, <1>35,
     <1>u DEF Next, CallerStep, ExitStep, ExpireStep, IoStep, NetEvent, Threads

-----------------------------------------------------------------------------
(* The five other steps.                                                    *)

\* A new number has no history: nobody has reported it, is about to, or has
\* made a client for it before.
LEMMA AddOrderReport ==
  ASSUME TypeOK, Refs, ReportInv, NEW t \in Callers, NEW u \in Uids, AddOrder(t, u)
  PROVE  ReportInv'
<1>ty. /\ pc \in [Threads -> CallerPcs \cup IoPcs] /\ cur \in [Threads -> Uids \cup {NoUid}]
       /\ cli \in [Uids -> Client] /\ connMap \subseteq used
  BY DEF TypeOK, Refs
<1>fr. connMap' = connMap /\ delivered' = delivered /\ op' = op /\ st' = st
  BY DEF AddOrder
<1>1. CASE lastIndex \notin ioVect
  <2>1. Calm /\ Steady
    BY <1>1, <1>fr DEF AddOrder, Calm, CalmEnd, CalmBegin, Steady, Ending, Beginning, Adding
  <2> QED
    BY <2>1, EndCalm, BeginCalm DEF ReportInv, Calm
<1>2. CASE lastIndex \in ioVect
  <2>1. /\ u \notin used /\ used' = used \cup {u} /\ pc[t] = "run" /\ t \in Threads
        /\ pc' = [pc EXCEPT ![t] = "wake"] /\ cur' = [cur EXCEPT ![t] = u]
        /\ cli' = [cli EXCEPT ![u] = NewClient(lastIndex)]
    BY <1>2 DEF AddOrder, Goto, Threads
  <2>2. \A s \in Threads : \A v \in Uids : Ending(s, v)' => Ending(s, v)
    BY <2>1, <1>ty, <1>fr DEF Ending
  <2>b. \A s \in Threads : \A v \in Uids : Beginning(s, v)' => Beginning(s, v)
    BY <2>1, <1>ty, <1>fr DEF Beginning
  <2>3. \A s \in Callers : s # t => (Adding(s)' <=> Adding(s)) /\ cur'[s] = cur[s]
    BY <2>1, <1>ty, <1>fr DEF Adding, Threads
  <2>4. cur'[t] = u
    BY <2>1, <1>ty
  <2>5. \A s \in Threads : ~Ending(s, u) /\ ~Beginning(s, u)
    BY <2>1 DEF Refs, NamesClient, Ending, Beginning
  <2>6. delivered[u] = <<>>
    BY <2>1 DEF ReportInv, EndInv
  <2>7. NoEnd(u) /\ NoBegin(u)
    BY <2>6 DEF NoEnd, NoBegin
  <2>8. \A s \in Callers : Adding(s) => cur[s] \in used
    BY DEF Adding, Refs, NamesClient, Threads
  <2>9. \A v \in Uids : (NoEnd(v)' <=> NoEnd(v)) /\ (NoBegin(v)' <=> NoBegin(v))
    BY <1>fr DEF NoEnd, NoBegin
  <2>10. \A v \in Uids : Unended(v) => Unended(v)'
    BY <2>2, <2>9 DEF Unended
  <2>11. used \subseteq Uids
    BY DEF TypeOK
  <2>12. Unended(u)
    BY <2>5, <2>7 DEF Unended
  <2>13. EndInv'
    <3>1. \A v \in Uids \ used' : delivered'[v] = <<>>
      BY <2>1, <1>fr DEF ReportInv, EndInv
    <3>2. \A v \in connMap' : Unended(v)'
      BY <1>fr, <1>ty, <2>10, <2>11 DEF ReportInv, EndInv
    <3>3. \A s \in Callers : Adding(s)' => cur'[s] \notin connMap' /\ Unended(cur[s])'
      <4> SUFFICES ASSUME NEW s \in Callers, Adding(s)'
                   PROVE  cur'[s] \notin connMap' /\ Unended(cur[s])'
        OBVIOUS
      <4>1. CASE s = t
        BY <4>1, <2>1, <2>4, <2>10, <2>12, <1>fr, <1>ty DEF Unended, NoEnd, Ending
      <4>2. CASE s # t
        <5>1. Adding(s) /\ cur'[s] = cur[s] /\ cur[s] \in Uids
          BY <4>2, <2>3, <2>8, <2>11
        <5> QED
          BY <5>1, <2>10, <1>fr DEF ReportInv, EndInv, Unended, NoEnd, Ending
      <4> QED
        BY <4>1, <4>2
    <3>4. \A s, r \in Callers : Adding(s)' /\ Adding(r)' /\ cur'[s] = cur'[r] => s = r
      <4> SUFFICES ASSUME NEW s \in Callers, NEW r \in Callers,
                          Adding(s)', Adding(r)', cur'[s] = cur'[r], s # r
                   PROVE  FALSE
        OBVIOUS
      <4>1. CASE s = t
        BY <4>1, <2>1, <2>3, <2>4, <2>8
      <4>2. CASE r = t
        BY <4>2, <2>1, <2>3, <2>4, <2>8
      <4>3. CASE s # t /\ r # t
        BY <4>3, <2>3 DEF ReportInv, EndInv
      <4> QED
        BY <4>1, <4>2, <4>3
    <3>5. \A v \in Uids : \A s \in Threads : Ending(s, v)' =>
            NoEnd(v)' /\ \A r \in Threads : Ending(r, v)' => r = s
      BY <2>2, <2>9 DEF ReportInv, EndInv
    <3>6. \A v \in Uids : \A j, k \in DOMAIN delivered'[v] :
            Terminal(delivered'[v][j]) /\ Terminal(delivered'[v][k]) => j = k
      BY <1>fr DEF ReportInv, EndInv
    <3> QED
      BY <3>1, <3>2, <3>3, <3>4, <3>5, <3>6 DEF EndInv, Terminal
  <2>14. BeginInv'
    <3>1. \A v \in Uids : v # u => cli'[v] = cli[v]
      BY <2>1, <1>ty
    <3>2. cli'[u].bev = "none" /\ cli'[u].state = CONN_FAILED
      BY <2>1, <1>ty DEF NewClient
    <3>3. CONN_FAILED # CONN_SUCCESS
      BY DEF CONN_FAILED, CONN_SUCCESS
    <3>4. \A v \in Uids : \A j, k \in DOMAIN delivered'[v] :
            ~Terminal(delivered'[v][j]) /\ ~Terminal(delivered'[v][k]) => j = k
      BY <1>fr DEF ReportInv, BeginInv
    <3>5. \A v \in Uids : \A s \in Threads : Beginning(s, v)' => v # u
      BY <2>b, <2>5
    <3> QED
      BY <2>b, <2>7, <2>9, <3>1, <3>2, <3>3, <3>4, <3>5 DEF ReportInv, BeginInv, Terminal
  <2> QED
    BY <2>13, <2>14 DEF ReportInv
<1> QED
  BY <1>1, <1>2

\* Only the thread that made a client enters it, and nobody ended it before.
LEMMA InsertReport ==
  ASSUME TypeOK, Refs, ReportInv, NEW t \in Callers, Insert(t)
  PROVE  ReportInv'
<1>ty. /\ pc \in [Threads -> CallerPcs \cup IoPcs] /\ cur \in [Threads -> Uids \cup {NoUid}]
       /\ op \in [Threads -> Ops] /\ cli \in [Uids -> Client] /\ connMap \subseteq Uids
       /\ used \subseteq Uids /\ t \in Threads
  BY DEF TypeOK, Threads
<1>1. /\ pc[t] = "insert" /\ connMap' = connMap \cup {cur[t]} /\ delivered' = delivered
      /\ used' = used /\ st' = st
      /\ pc' = [pc EXCEPT ![t] = ReturnPc(t)] /\ op' = [op EXCEPT ![t] = "none"]
      /\ cur' = [cur EXCEPT ![t] = NoUid]
  BY DEF Insert, Return, Goto
<1>2. cur[t] \in Uids /\ Adding(t)
  BY <1>1, <1>ty DEF Refs, NamesClient, Adding
<1>3. \A s \in Threads : \A v \in Uids : Ending(s, v)' => Ending(s, v)
  BY <1>1, <1>ty DEF Ending, ReturnPc
<1>b. \A s \in Threads : \A v \in Uids : Beginning(s, v)' => Beginning(s, v)
  BY <1>1, <1>ty DEF Beginning, ReturnPc
<1>4. \A s \in Callers : Adding(s)' => s # t /\ Adding(s) /\ cur'[s] = cur[s] /\ cur[s] \in Uids
  BY <1>1, <1>ty DEF Adding, ReturnPc, Refs, NamesClient, Threads
<1>5. \A v \in Uids : (NoEnd(v)' <=> NoEnd(v)) /\ (NoBegin(v)' <=> NoBegin(v))
  BY <1>1 DEF NoEnd, NoBegin
<1>6. \A v \in Uids : Unended(v) => Unended(v)'
  BY <1>3, <1>5 DEF Unended
<1>7. Steady
  BY <1>ty, ClientsType DEF Steady, Insert
<1>8. EndInv'
  <2>1. \A v \in connMap' : Unended(v)'
    BY <1>1, <1>2, <1>6, <1>ty DEF ReportInv, EndInv
  <2>2. \A s \in Callers : Adding(s)' => cur'[s] \notin connMap' /\ Unended(cur[s])'
    <3> SUFFICES ASSUME NEW s \in Callers, Adding(s)'
                 PROVE  cur'[s] \notin connMap' /\ Unended(cur[s])'
      OBVIOUS
    <3>1. s # t /\ Adding(s) /\ cur'[s] = cur[s] /\ cur[s] \in Uids
      BY <1>4
    <3>2. cur[s] # cur[t]
      BY <3>1, <1>2 DEF ReportInv, EndInv
    <3> QED
      BY <3>1, <3>2, <1>1, <1>6 DEF ReportInv, EndInv, Unended, NoEnd, Ending
  <2>3. \A s, r \in Callers : Adding(s)' /\ Adding(r)' /\ cur'[s] = cur'[r] => s = r
    BY <1>4 DEF ReportInv, EndInv
  <2>4. \A v \in Uids : \A s \in Threads : Ending(s, v)' =>
          NoEnd(v)' /\ \A r \in Threads : Ending(r, v)' => r = s
    BY <1>3, <1>5 DEF ReportInv, EndInv
  <2> QED
    BY <1>1, <2>1, <2>2, <2>3, <2>4 DEF ReportInv, EndInv
<1>9. BeginInv'
  <2>1. \A v \in Uids : cli[v].state \in {CONN_FAILED, CONN_SUCCESS}
    BY <1>ty DEF Client
  <2> QED
    BY <1>1, <1>b, <1>5, <1>7, <2>1 DEF ReportInv, BeginInv, Steady
<1> QED
  BY <1>8, <1>9 DEF ReportInv

\* What a thread that is done with tcpServerConnect, or has not begun it, is
\* about to do: nothing.
LEMMA ResumeReport ==
  ASSUME TypeOK, NEW t \in Threads, Resume(t), st' = st,
         \/ pc[t] = "notify" \/ pc[t] = "cb"
  PROVE  /\ \A s \in Threads : \A v \in Uids : Ending(s, v)' => Ending(s, v) /\ s # t
         /\ \A s \in Threads : \A v \in Uids : Beginning(s, v)' => Beginning(s, v) /\ s # t
         /\ \A s \in Callers : Adding(s)' => Adding(s) /\ cur'[s] = cur[s]
<1>ty. /\ pc \in [Threads -> CallerPcs \cup IoPcs] /\ cur \in [Threads -> Uids \cup {NoUid}]
       /\ op \in [Threads -> Ops] /\ Callers \subseteq Threads
  BY DEF TypeOK, Threads
<1>1. /\ pc'[t] \in {"exNext", "idle", "drain", "loop"}
      /\ \A s \in Threads : s # t => pc'[s] = pc[s] /\ cur'[s] = cur[s] /\ op'[s] = op[s]
  BY <1>ty DEF Resume, Return, ReturnPc, Goto
<1> QED
  BY <1>1, <1>ty DEF Ending, Beginning, Adding

\* Removing the map entry of a connection takes over the right to report its
\* end; no two threads find the entry.
LEMMA NotifyReport ==
  ASSUME TypeOK, Refs, ReportInv, NEW t \in Threads, Notify(t)
  PROVE  ReportInv'
<1>ty. /\ pc \in [Threads -> CallerPcs \cup IoPcs] /\ cur \in [Threads -> Uids \cup {NoUid}]
       /\ op \in [Threads -> Ops] /\ cli \in [Uids -> Client] /\ connMap \subseteq Uids
       /\ Callers \subseteq Threads
  BY DEF TypeOK, Threads
<1>fr. delivered' = delivered /\ used' = used /\ st' = st /\ pc[t] = "notify"
  BY DEF Notify
<1>st. Steady
  BY <1>ty, ClientsType DEF Steady, Notify
<1>1. CASE cur[t] \notin connMap
  <2>1. Resume(t) /\ connMap' = connMap
    BY <1>1 DEF Notify
  <2>2. Calm
    BY <2>1, <1>fr, ResumeReport DEF Calm, CalmEnd, CalmBegin
  <2> QED
    BY <2>2, <1>st, EndCalm, BeginCalm DEF ReportInv, Calm
<1>2. CASE cur[t] \in connMap
  <2>1. pc' = [pc EXCEPT ![t] = "cb"] /\ op' = op /\ cur' = cur
    BY <1>2 DEF Notify, Goto
  <2>2. \A s \in Callers : (Adding(s)' <=> Adding(s)) /\ cur'[s] = cur[s]
    BY <2>1, <1>fr, <1>ty DEF Adding
  <2>3. CalmBegin
    BY <2>1, <1>fr, <1>ty DEF CalmBegin, Beginning
  <2>4. BeginInv'
    BY <2>3, <1>st, BeginCalm DEF ReportInv
  <2>5. CASE st[t] = CONN_SUCCESS
    <3>1. connMap' = connMap
      BY <1>2, <2>5 DEF Notify
    <3>2. \A s \in Threads : \A v \in Uids : Ending(s, v)' => Ending(s, v)
      BY <2>1, <2>5, <1>fr, <1>ty DEF Ending
    <3> QED
      BY <3>1, <3>2, <2>2, <2>4, <1>fr, EndCalm DEF ReportInv, CalmEnd
  <2>6. CASE st[t] # CONN_SUCCESS
    <3>1. connMap' = connMap \ {cur[t]}
      BY <1>2, <2>6 DEF Notify
    <3>2. \A s \in Threads : \A v \in Uids : Ending(s, v)' =>
            Ending(s, v) \/ (s = t /\ v = cur[t])
      BY <2>1, <1>fr, <1>ty DEF Ending
    <3>3. \A v \in Uids : NoEnd(v)' <=> NoEnd(v)
      BY <1>fr DEF NoEnd
    <3>4. \A v \in Uids : v # cur[t] /\ Unended(v) => Unended(v)'
      BY <3>2, <3>3 DEF Unended
    <3>5. cur[t] \in Uids /\ Unended(cur[t])
      BY <1>2, <1>ty DEF ReportInv, EndInv
    <3>6. \A s \in Callers : Adding(s) => cur[s] # cur[t] /\ cur[s] \in Uids
      BY <1>2, <1>ty DEF ReportInv, EndInv, Adding, Refs, NamesClient, TypeOK
    <3>7. \A v \in connMap' : Unended(v)'
      BY <3>1, <3>4, <1>ty DEF ReportInv, EndInv
    <3>8. \A s \in Callers : Adding(s)' => cur'[s] \notin connMap' /\ Unended(cur[s])'
      <4> SUFFICES ASSUME NEW s \in Callers, Adding(s)'
                   PROVE  cur'[s] \notin connMap' /\ Unended(cur[s])'
        OBVIOUS
      <4>1. Adding(s) /\ cur'[s] = cur[s] /\ cur[s] \in Uids /\ cur[s] # cur[t]
        BY <2>2, <3>6
      <4> QED
        BY <4>1, <3>1, <3>4 DEF ReportInv, EndInv, Unended, NoEnd, Ending
    <3>9. \A s, r \in Callers : Adding(s)' /\ Adding(r)' /\ cur'[s] = cur'[r] => s = r
      BY <2>2 DEF ReportInv, EndInv
    <3>10. \A v \in Uids : \A s \in Threads : Ending(s, v)' =>
             NoEnd(v)' /\ \A r \in Threads : Ending(r, v)' => r = s
      <4> SUFFICES ASSUME NEW v \in Uids, NEW s \in Threads, Ending(s, v)'
                   PROVE  NoEnd(v)' /\ \A r \in Threads : Ending(r, v)' => r = s
        OBVIOUS
      <4>1. CASE v = cur[t]
        BY <4>1, <3>2, <3>3, <3>5 DEF Unended
      <4>2. CASE v # cur[t]
        BY <4>2, <3>2, <3>3 DEF ReportInv, EndInv
      <4> QED
        BY <4>1, <4>2
    <3>11. EndInv'
      BY <1>fr, <3>7, <3>8, <3>9, <3>10 DEF ReportInv, EndInv
    <3> QED
      BY <2>4, <3>11 DEF ReportInv
  <2> QED
    BY <2>5, <2>6
<1> QED
  BY <1>1, <1>2

\* What Append does to a sequence.
LEMMA AppendDomain ==
  ASSUME NEW S, NEW s \in Seq(S), NEW e \in S
  PROVE  /\ DOMAIN Append(s, e) = DOMAIN s \cup {Len(s) + 1}
         /\ \A k \in DOMAIN s : Append(s, e)[k] = s[k]
         /\ Append(s, e)[Len(s) + 1] = e
  OBVIOUS

\* A report uses up the right to make it.
LEMMA CallbackReport ==
  ASSUME TypeOK, Refs, ReportInv, NEW t \in Threads, Callback(t)
  PROVE  ReportInv'
<1>ty. /\ pc \in [Threads -> CallerPcs \cup IoPcs] /\ cur \in [Threads -> Uids \cup {NoUid}]
       /\ delivered \in [Uids -> Seq(Notice)]
       /\ cli \in [Uids -> Client] /\ connMap \subseteq Uids /\ Callers \subseteq Threads
  BY DEF TypeOK, Threads
<1>fr. connMap' = connMap /\ used' = used /\ st' = st /\ pc[t] = "cb" /\ Resume(t)
  BY DEF Callback
<1>st. Steady
  BY <1>ty, ClientsType DEF Steady, Callback
<1>cur. cur[t] \in Uids /\ cur[t] \in used
  BY <1>fr DEF Refs, NamesClient, TypeOK
<1>en. \A s \in Threads : \A v \in Uids : Ending(s, v)' => Ending(s, v) /\ s # t
  BY <1>fr, ResumeReport
<1>be. \A s \in Threads : \A v \in Uids : Beginning(s, v)' => Beginning(s, v) /\ s # t
  BY <1>fr, ResumeReport
<1>ad. \A s \in Callers : Adding(s)' => Adding(s) /\ cur'[s] = cur[s] /\ cur[s] \in Uids
  BY <1>fr, ResumeReport DEF Adding, Refs, NamesClient, TypeOK, Threads
<1>n. PICK n \in Notice : n = [st |-> st[t], by |-> t]
  BY DEF Notice, TypeOK
<1>u. PICK u \in Uids : u = cur[t]
  BY <1>cur
<1>1. delivered' = [delivered EXCEPT ![u] = Append(delivered[u], n)]
  BY <1>n, <1>u DEF Callback
<1>2. \A v \in Uids : v # u => delivered'[v] = delivered[v]
  BY <1>1, <1>ty
<1>3. /\ DOMAIN delivered'[u] = DOMAIN delivered[u] \cup {Len(delivered[u]) + 1}
      /\ \A k \in DOMAIN delivered[u] : delivered'[u][k] = delivered[u][k]
      /\ delivered'[u][Len(delivered[u]) + 1] = n
  BY <1>1, <1>ty, AppendDomain
<1>4. \A v \in Uids : v # u => (NoEnd(v)' <=> NoEnd(v)) /\ (NoBegin(v)' <=> NoBegin(v))
  BY <1>2 DEF NoEnd, NoBegin
<1>5. Terminal(n) <=> st[t] # CONN_SUCCESS
  BY <1>n DEF Terminal
<1>6. \A v \in Uids \ used' : delivered'[v] = <<>>
  BY <1>2, <1>fr, <1>cur, <1>u DEF ReportInv, EndInv
<1>7. \A s, r \in Callers : Adding(s)' /\ Adding(r)' /\ cur'[s] = cur'[r] => s = r
  BY <1>ad DEF ReportInv, EndInv
<1>8. \A v \in Uids : v # u =>
        /\ \A j, k \in DOMAIN delivered'[v] :
             Terminal(delivered'[v][j]) /\ Terminal(delivered'[v][k]) => j = k
        /\ \A j, k \in DOMAIN delivered'[v] :
             ~Terminal(delivered'[v][j]) /\ ~Terminal(delivered'[v][k]) => j = k
  BY <1>2 DEF ReportInv, EndInv, BeginInv
<1>9. \A v \in Uids : cli[v].state \in {CONN_FAILED, CONN_SUCCESS}
  BY <1>ty DEF Client
<1>10. CASE st[t] # CONN_SUCCESS
  <2>1. Ending(t, u)
    BY <1>10, <1>fr, <1>u DEF Ending
  <2>2. NoEnd(u) /\ \A s \in Threads : ~Ending(s, u)'
    BY <2>1, <1>en DEF ReportInv, EndInv
  <2>3. NoBegin(u)' <=> NoBegin(u)
    BY <1>3, <1>5, <1>10 DEF NoBegin
  <2>4. \A v \in Uids : Unended(v) => v # u
    BY <2>1 DEF Unended
  <2>5. \A v \in Uids : Unended(v) => Unended(v)'
    BY <2>4, <1>4, <1>en DEF Unended
  <2>6. /\ \A j, k \in DOMAIN delivered'[u] :
             Terminal(delivered'[u][j]) /\ Terminal(delivered'[u][k]) => j = k
        /\ \A j, k \in DOMAIN delivered'[u] :
             ~Terminal(delivered'[u][j]) /\ ~Terminal(delivered'[u][k]) => j = k
    BY <1>3, <1>5, <1>10, <2>2 DEF NoEnd, ReportInv, BeginInv
  <2>7. \A v \in Uids : \A s \in Threads : Ending(s, v)' =>
          NoEnd(v)' /\ \A r \in Threads : Ending(r, v)' => r = s
    BY <1>4, <1>en, <2>2 DEF ReportInv, EndInv
  <2>8. \A s \in Callers : Adding(s)' => cur'[s] \notin connMap' /\ Unended(cur[s])'
    BY <1>ad, <1>fr, <2>5 DEF ReportInv, EndInv, Unended, NoEnd, Ending
  <2>9. \A v \in connMap' : Unended(v)'
    BY <1>fr, <1>ty, <2>5 DEF ReportInv, EndInv
  <2>10. EndInv'
    BY <1>6, <1>7, <1>8, <2>6, <2>7, <2>8, <2>9 DEF EndInv, Terminal
  <2>11. \A v \in Uids : NoBegin(v)' <=> NoBegin(v)
    BY <1>4, <2>3
  <2>12. BeginInv'
    BY <1>8, <1>9, <1>be, <1>st, <2>6, <2>11 DEF ReportInv, BeginInv, Steady, Terminal
  <2> QED
    BY <2>10, <2>12 DEF ReportInv
<1>11. CASE st[t] = CONN_SUCCESS
  <2>1. Beginning(t, u)
    BY <1>11, <1>fr, <1>u DEF Beginning
  <2>2. NoBegin(u) /\ cli[u].state = CONN_SUCCESS /\ \A s \in Threads : ~Beginning(s, u)'
    BY <2>1, <1>be DEF ReportInv, BeginInv
  <2>3. NoEnd(u)' <=> NoEnd(u)
    BY <1>3, <1>5, <1>11 DEF NoEnd
  <2>4. \A v \in Uids : NoEnd(v)' <=> NoEnd(v)
    BY <1>4, <2>3
  <2>5. \A v \in Uids : Unended(v) => Unended(v)'
    BY <2>4, <1>en DEF Unended
  <2>6. /\ \A j, k \in DOMAIN delivered'[u] :
             Terminal(delivered'[u][j]) /\ Terminal(delivered'[u][k]) => j = k
        /\ \A j, k \in DOMAIN delivered'[u] :
             ~Terminal(delivered'[u][j]) /\ ~Terminal(delivered'[u][k]) => j = k
    BY <1>3, <1>5, <1>11, <2>2 DEF NoBegin, ReportInv, EndInv
  <2>7. \A v \in Uids : \A s \in Threads : Ending(s, v)' =>
          NoEnd(v)' /\ \A r \in Threads : Ending(r, v)' => r = s
    BY <2>4, <1>en DEF ReportInv, EndInv
  <2>8. \A s \in Callers : Adding(s)' => cur'[s] \notin connMap' /\ Unended(cur[s])'
    BY <1>ad, <1>fr, <2>5 DEF ReportInv, EndInv, Unended, NoEnd, Ending
  <2>9. \A v \in connMap' : Unended(v)'
    BY <1>fr, <1>ty, <2>5 DEF ReportInv, EndInv
  <2>10. EndInv'
    BY <1>6, <1>7, <1>8, <2>6, <2>7, <2>8, <2>9 DEF EndInv, Terminal
  <2>11. \A v \in Uids : \A s \in Threads : Beginning(s, v)' =>
           /\ cli'[v].state = CONN_SUCCESS /\ NoBegin(v)'
           /\ \A r \in Threads : Beginning(r, v)' => r = s
    BY <1>4, <1>be, <1>st, <2>2 DEF ReportInv, BeginInv, Steady
  <2>12. \A v \in Uids : cli'[v].state = CONN_SUCCESS \/ NoBegin(v)'
    BY <1>4, <1>st, <2>2 DEF ReportInv, BeginInv, Steady
  <2>13. BeginInv'
    BY <1>8, <1>9, <1>st, <2>6, <2>11, <2>12 DEF ReportInv, BeginInv, Steady, Terminal
  <2> QED
    BY <2>10, <2>13 DEF ReportInv
<1> QED
  BY <1>10, <1>11

\* A connection that is being made has not been made before.
LEMMA OnConnectedReport ==
  ASSUME TypeOK, Refs, ReportInv, NEW i \in Ios, NEW u \in Uids, OnConnected(i, u)
  PROVE  ReportInv'
<1>ty. /\ pc \in [Threads -> CallerPcs \cup IoPcs] /\ cur \in [Threads -> Uids \cup {NoUid}]
       /\ st \in [Threads -> States] /\ cli \in [Uids -> Client]
       /\ i \in Threads /\ i \notin Callers /\ Callers \subseteq Threads
  BY ThreadAssumption DEF TypeOK, Threads
<1>1. /\ pc[i] = "loop" /\ cli[u].bev = "connecting"
      /\ pc' = [pc EXCEPT ![i] = "notify"] /\ cur' = [cur EXCEPT ![i] = u]
      /\ st' = [st EXCEPT ![i] = CONN_SUCCESS] /\ op' = op
      /\ cli' = [cli EXCEPT ![u] = [cli[u] EXCEPT !.bev = "up", !.state = CONN_SUCCESS]]
      /\ connMap' = connMap /\ used' = used /\ delivered' = delivered
  BY DEF OnConnected, Event, Goto
<1>2. CalmEnd
  BY <1>1, <1>ty DEF CalmEnd, Ending, Adding
<1>3. \A s \in Threads : \A v \in Uids : Beginning(s, v)' =>
        Beginning(s, v) \/ (s = i /\ v = u)
  BY <1>1, <1>ty DEF Beginning
<1>4. cli[u].sock /\ cli[u].state = CONN_FAILED
  BY <1>1 DEF ReportInv, BeginInv
<1>5. CONN_FAILED # CONN_SUCCESS
  BY DEF CONN_FAILED, CONN_SUCCESS
<1>6. NoBegin(u) /\ \A s \in Threads : ~Beginning(s, u)
  BY <1>4, <1>5 DEF ReportInv, BeginInv
<1>7. \A v \in Uids : NoBegin(v)' <=> NoBegin(v)
  BY <1>1 DEF NoBegin
<1>8. /\ cli'[u].state = CONN_SUCCESS /\ cli'[u].sock /\ cli'[u].bev = "up"
      /\ \A v \in Uids : v # u => cli'[v] = cli[v]
  BY <1>1, <1>4, <1>ty DEF Client
<1>9. \A v \in Uids : \A s \in Threads : Beginning(s, v)' =>
        /\ cli'[v].state = CONN_SUCCESS /\ NoBegin(v)'
        /\ \A r \in Threads : Beginning(r, v)' => r = s
  BY <1>3, <1>6, <1>7, <1>8 DEF ReportInv, BeginInv
<1>10. BeginInv'
  BY <1>1, <1>7, <1>8, <1>9 DEF ReportInv, BeginInv
<1> QED
  BY <1>2, <1>10, EndCalm DEF ReportInv

\* Every step keeps what is known about ends and beginnings.
LEMMA ReportStep ==
  ASSUME TypeOK, Refs, ReportInv, [Next]_vars
  PROVE  ReportInv'
<1>1. CASE Calm /\ Steady
  BY <1>1, EndCalm, BeginCalm DEF Calm, ReportInv
<1> QED
  BY <1>1, CalmStep, AddOrderReport, InsertReport, NotifyReport, CallbackReport, OnConnectedReport

-----------------------------------------------------------------------------
\* When nothing has been reported and no thread is in a call, all is well.
LEMMA ReportInit ==
  ASSUME Init
  PROVE  ReportInv
<1>1. \A t \in Threads : pc[t] \in {"off", "exTop", "idle"}
  BY DEF Init
<1>2. \A u \in Uids : delivered[u] = <<>> /\ DOMAIN delivered[u] = {}
  BY DEF Init
<1>3. \A u \in Uids : cli[u].bev = "none" /\ cli[u].state = CONN_FAILED
  BY DEF Init
<1>4. connMap = {}
  BY DEF Init
<1>5. EndInv
  BY <1>1, <1>2, <1>4 DEF EndInv, Ending, Adding, Threads
<1>6. BeginInv
  BY <1>1, <1>2, <1>3 DEF BeginInv, Beginning, NoBegin, CONN_FAILED, CONN_SUCCESS
<1> QED
  BY <1>5, <1>6 DEF ReportInv

\* tcpServerConnect is called about one connection by the application, the
\* expiry thread and the IO thread, in any order and at the same time; still
\* connCb is called at most once with the beginning of a connection and at
\* most once with its end.
THEOREM ReportedOnceHolds == Spec => []ReportedOnce
<1>1. Init => TypeOK /\ Refs /\ ReportInv
  BY TypeInit, RefsInit, ReportInit
<1>2. TypeOK /\ Refs /\ ReportInv /\ [Next]_vars => (TypeOK /\ Refs /\ ReportInv)'
  BY TypeStep, RefsStep, ReportStep
<1>3. ReportInv => ReportedOnce
  <2> SUFFICES ASSUME ReportInv, NEW u \in Uids, NEW j \in DOMAIN delivered[u],
                      NEW k \in DOMAIN delivered[u], j # k,
                      Terminal(delivered[u][j]) = Terminal(delivered[u][k])
               PROVE  FALSE
    BY DEF ReportedOnce
  <2>1. CASE Terminal(delivered[u][j])
    BY <2>1 DEF ReportInv, EndInv
  <2>2. CASE ~Terminal(delivered[u][j])
    BY <2>2 DEF ReportInv, BeginInv
  <2> QED
    BY <2>1, <2>2
<1> QED
  BY <1>1, <1>2, <1>3, PTL DEF Spec

-----------------------------------------------------------------------------
(* Lifetimes.                                                                *)

\* All IO threads have ended.
Ended == {i \in Ios : pc[i] = "done"}
Stopped == \A i \in Ios : pc[i] = "done"

\* The IO threads that IoLeave has yet to count out
Up == {i \in Ios : pc[i] \notin {"off", "new", "check", "done"}}

\* All of them are past libeventIoReady, at the first attempt.
Settled == readyFails = 0 /\ \A i \in Ios : pc[i] \notin {"off", "new"}

\* readyIothread is the number of those threads less one for each failure, on
\* unsigned int: once libeventIoReady has failed it never comes to ioThreadNum
\* again. So no call gets past WaitReady, and no client is made, before the IO
\* threads have settled.
ReadyInv ==
  /\ readyFails <= MaxReadyFail
  /\ readyIothread = IF readyFails <= Cardinality(Up) THEN Cardinality(Up) - readyFails
                                                      ELSE (Cardinality(Up) - readyFails) + UMod
  /\ (\E t \in Callers : pc[t] = "run") \/ used # {} => Settled

\* An IO thread leaves its LibeventIo for an exit or after a failure, and has
\* no orders when it starts over; exitIothread counts the ended ones.
Serves(i) ==
  /\ wakeupFd[i] % 2 = 1 \/ num[i] % 2 = 1 \/ pc[i] = "done" => isExit
  /\ pc[i] \in {"left", "check"} => isExit \/ readyFails # 0
  /\ pc[i] \notin {"off", "done"} => i \in ioVect
  /\ pc[i] = "off" \/ i \notin ioVect => orderDeque[i] = <<>>
ServeInv ==
  /\ \A i \in Ios : Serves(i)
  /\ exitIothread = Cardinality(Ended)
  /\ \A t \in Users : pc[t] \in {"exitWrite", "exitSpin"} => ioThreadNum = IoNum /\ isExit
  /\ \A t \in Users : pc[t] = "exitJoin" => Stopped

\* The orders about u, which lie in the deque of its thread
OrderAt(u, k) == k \in 1 .. Len(orderDeque[cli[u].io]) /\ orderDeque[cli[u].io][k].uid = u
CloseAt(u, k) == OrderAt(u, k) /\ ~orderDeque[cli[u].io][k].msg

\* An order to close u is queued: behind the order that connects it, as long as
\* it has no socket.
Closing(u) == \E k \in Nat : CloseAt(u, k) /\ (cli[u].sock \/ \E j \in 1 .. k - 1 : OrderAt(u, j))
Gone(u) == cli[u].sock /\ cli[u].bev = "none"

\* What keeps u alive
Entering(u) == \E t \in Callers : Adding(t) /\ cur[t] = u
Kept(u) == u \in connMap \/ Entering(u) \/ Closing(u)

\* Caller t has queued its order to close u and may erase the entry of u.
Past(t) == pc[t] \in {"state", "notify"} \/ (pc[t] = "wake" /\ op[t] \notin {"add", "send"})

\* A client that is kept by nothing is closed; it is connected once.
Cared(u) ==
  /\ cli[u].io \in ioVect
  /\ Kept(u) \/ Gone(u)
  /\ cli[u].sock \/ \E k \in Nat : OrderAt(u, k)
CareInv ==
  /\ \A i \in Ios : \A k \in 1 .. Len(orderDeque[i]) : cli[orderDeque[i][k].uid].io = i
  /\ \A u \in Uids : cli[u].bev # "none" => cli[u].sock
  /\ Stopped \/ \A u \in used : Cared(u)
  /\ \A t \in Callers : Adding(t) => held[t] = cur[t]
  /\ Stopped \/ \A t \in Callers : Past(t) => Closing(cur[t]) \/ Gone(cur[t])
  /\ \A i \in Ios : pc[i] = "notify" /\ st[i] # CONN_SUCCESS => Gone(cur[i])
  /\ \A i \in Ios : pc[i] = "msgcb" => cli[cur[i]].bev = "up" /\ cli[cur[i]].io = i

-----------------------------------------------------------------------------
\* A step that moves no IO thread to another phase of its life
ServeQuiet ==
  /\ wakeupFd' = wakeupFd /\ ioVect' = ioVect /\ exitIothread' = exitIothread /\ isExit' = isExit
  /\ ioThreadNum' \in {ioThreadNum, IoNum} /\ readyFails' = readyFails
  /\ \A i \in Ios : num'[i] = num[i]
  /\ \A i \in Ios : pc[i] = "off" \/ i \notin ioVect => orderDeque'[i] = orderDeque[i]
  /\ \A i \in Ios : pc'[i] \in {"left", "check"} => pc[i] \in {"left", "check"}
  /\ \A i \in Ios : (pc'[i] = "off" <=> pc[i] = "off") /\ (pc'[i] = "done" <=> pc[i] = "done")
  /\ \A t \in Users : pc'[t] \in {"exitWrite", "exitSpin", "exitJoin"} => pc'[t] = pc[t]

\* Such a step leaves what the IO threads serve as it was.
LEMMA ServeKeeps ==
  ASSUME TypeOK, ServeInv, ServeQuiet
  PROVE  ServeInv'
<1>1. Ended' = Ended /\ (Stopped => Stopped')
  BY DEF Ended, Stopped, ServeQuiet
<1>2. \A i \in Ios : Serves(i)'
  BY DEF ServeInv, Serves, ServeQuiet
<1> QED
  BY <1>1, <1>2 DEF ServeInv, ServeQuiet

\* Most steps are of this kind.
LEMMA ServeMost ==
  ASSUME TypeOK, [Next]_vars
  PROVE  \/ ServeQuiet
         \/ \E t \in Users : ExitCall(t) \/ ExitStep(t)
         \/ \E t \in Callers : Wakeup(t) \/ \E u \in Uids : AddOrder(t, u)
         \/ \E t \in Callers : SendOrder(t) \/ DiscOrder(t)
         \/ \E i \in Ios : IoCreate(i) \/ IoReadyFail(i) \/ HandleRead(i) \/ DrainEnd(i) \/ IoCheckExit(i)
         \/ \E i \in Ios : DealConnect(i) \/ DealConnectFail(i) \/ DealSend(i)
<1> USE ThreadAssumption DEF mgrVars, ioVars, thVars, boundVars
<1>0. pc \in [Threads -> CallerPcs \cup IoPcs] /\ Users \subseteq Threads /\ Ios \subseteq Threads
      /\ Callers \subseteq Threads /\ Users \subseteq Callers /\ num \in [Threads -> Nat]
      /\ Expirer \in Threads /\ Expirer \in Callers
  BY DEF TypeOK, Threads, Callers
\* a caller other than a user that exits goes on
<1>a. ASSUME NEW t \in Callers, NEW p \in {"init", "idle", "wait", "run", "got", "wake", "insert", "state",
              "notify", "cb", "again", "exTop", "exScan", "exNext", "exDone"}, Goto(t, p),
              wakeupFd' = wakeupFd, ioVect' = ioVect, exitIothread' = exitIothread, isExit' = isExit,
              ioThreadNum' \in {ioThreadNum, IoNum}, orderDeque' = orderDeque, \A i \in Ios : num'[i] = num[i],
              readyFails' = readyFails
      PROVE  ServeQuiet
  <2>1. t \notin Ios /\ t \in Threads
    BY <1>0
  <2>2. pc'[t] = p /\ \A s \in Threads \ {t} : pc'[s] = pc[s]
    BY <1>0, <1>a, <2>1 DEF Goto
  <2> QED BY <1>0, <1>a, <2>1, <2>2 DEF ServeQuiet
<1>b. ASSUME NEW t \in Ios, NEW p \in {"loop", "drain", "msgcb", "notify", "cb", "check"}, Goto(t, p),
              p = "check" => pc[t] = "left", pc[t] \notin {"off", "done"},
              wakeupFd' = wakeupFd, ioVect' = ioVect, exitIothread' = exitIothread, isExit' = isExit,
              ioThreadNum' = ioThreadNum, orderDeque' = orderDeque, num' = num, readyFails' = readyFails
      PROVE  ServeQuiet
  <2>1. t \notin Users /\ t \in Threads
    BY <1>0
  <2>2. pc'[t] = p /\ \A s \in Threads \ {t} : pc'[s] = pc[s]
    BY <1>0, <1>b, <2>1 DEF Goto
  <2> QED BY <1>0, <1>b, <2>1, <2>2 DEF ServeQuiet
<1>c. ASSUME UNCHANGED <<pc, wakeupFd, ioVect, exitIothread, isExit, ioThreadNum, orderDeque, readyFails>>,
             \A i \in Ios : num'[i] = num[i]
      PROVE  ServeQuiet
  BY <1>c DEF ServeQuiet
<1>1. ASSUME NEW t \in Users, InitStart(t) \/ InitDone(t)
      PROVE  ServeQuiet
  BY <1>0, <1>1, <1>a DEF InitStart, InitDone
<1>2. ASSUME NEW t \in Users, NEW u \in Uids \cup {NoUid},
              NEW o \in {"add", "send", "reset", "disc"}, Call(t, o, u)
      PROVE  ServeQuiet
  BY <1>0, <1>2, <1>a, <1>c DEF Call
<1>r. ASSUME NEW t \in Callers, Return(t) PROVE Goto(t, "idle") \/ Goto(t, "exNext")
  BY <1>r DEF Return, ReturnPc
<1>3. ASSUME NEW t \in Callers, WaitReady(t) \/ Insert(t) \/ ReadState(t) \/ ResetPrivate(t)
      PROVE  ServeQuiet
  BY <1>3, <1>a, <1>r DEF WaitReady, Insert, ReadState, ResetPrivate
<1>4. ASSUME NEW t \in Callers, Lookup(t) \/ CallAgain(t)
      PROVE  ServeQuiet
  BY <1>4, <1>a, <1>r DEF Lookup, CallAgain
<1>5. ASSUME NEW t \in Threads, Notify(t) \/ Callback(t)
      PROVE  ServeQuiet
  <2>1. \/ Goto(t, "cb") \/ Resume(t)
    BY <1>5 DEF Notify, Callback
  <2>2. UNCHANGED <<wakeupFd, ioVect, exitIothread, isExit, ioThreadNum, orderDeque, num, readyFails>>
        /\ pc[t] \in {"notify", "cb"}
    BY <1>5 DEF Notify, Callback
  <2>3. CASE t \in Callers
    BY <2>1, <2>2, <2>3, <1>a, <1>r DEF Resume
  <2>4. CASE t \notin Callers
    <3>1. t \in Ios
      BY <2>4 DEF Threads
    <3>2. Goto(t, "cb") \/ Goto(t, "drain") \/ Goto(t, "loop")
      BY <2>1, <2>4 DEF Resume
    <3> QED BY <2>2, <3>1, <3>2, <1>b
  <2> QED BY <2>3, <2>4
<1>6. ASSUME ExpireTop \/ ExpireScan \/ ExpireSleep
      PROVE  ServeQuiet
  <2>1. \A i \in Ios : num'[i] = num[i]
    BY <1>0, <1>6 DEF ExpireTop, ExpireScan, ExpireSleep
  <2> QED BY <1>0, <1>6, <1>a, <2>1 DEF ExpireTop, ExpireScan, ExpireSleep
<1>7. ASSUME ExpireNext
      PROVE  ServeQuiet
  <2>1. UNCHANGED pc \/ Goto(Expirer, "wait")
    BY <1>7 DEF ExpireNext
  <2>2. UNCHANGED <<wakeupFd, ioVect, exitIothread, isExit, ioThreadNum, orderDeque, num, readyFails>>
    BY <1>7 DEF ExpireNext
  <2> QED BY <1>0, <1>a, <1>c, <2>1, <2>2
<1>8. ASSUME NEW i \in Ios, IoReady(i) \/ IoLeave(i) \/ OnMessageEnd(i)
      PROVE  ServeQuiet
  BY <1>8, <1>b DEF IoReady, IoLeave, OnMessageEnd
<1>9. ASSUME NEW i \in Ios, NEW u \in Uids, NetEvent(i, u) \/ OnMessage(i, u) \/ OnMessageExpired(i, u)
      PROVE  ServeQuiet
  BY <1>9, <1>b DEF NetEvent, OnConnected, OnClosed, ConnectTimeout, OnMessage, OnMessageExpired, Event
<1>10. CASE Tick \/ UNCHANGED vars
  BY <1>10, <1>c DEF Tick, vars
<1> QED
  BY <1>0, <1>1, <1>2, <1>3, <1>4, <1>5, <1>6, <1>7, <1>8, <1>9, <1>10
     DEF Next, CallerStep, ExpireStep, IoStep, Threads

\* Counts of wake-ups
LEMMA Parity ==
  \A n \in Nat : (n + 2) % 2 = n % 2 /\ n % 2 \in {0, 1} /\ 0 % 2 = 0 /\ n + 2 \in Nat /\ n + 1 \in Nat
  OBVIOUS

\* An exit that finds exitIothread at the number of threads finds all ended.
LEMMA AllEnded ==
  ASSUME Cardinality(Ended) = IoNum
  PROVE  Stopped
<1>1. IsFiniteSet(Ios) /\ Cardinality(Ios) = IoNum
  <2>1. 0 \in Int /\ IoNum - 1 \in Int /\ (IoNum - 1) - 0 + 1 = IoNum /\ ~(0 > IoNum - 1)
    BY IoNumAssumption
  <2> QED BY <2>1, FS_Interval DEF Ios
<1>2. Ended \subseteq Ios
  BY DEF Ended
<1>3. Ended = Ios
  BY <1>1, <1>2, FS_Subset
<1> QED BY <1>3 DEF Ended, Stopped

\* What an IO thread serves, through every step
LEMMA ServeStep ==
  ASSUME TypeOK, Refs, ReadyInv, ServeInv, [Next]_vars
  PROVE  ServeInv'
<1> USE ThreadAssumption DEF mgrVars, ioVars, thVars, boundVars
<1>0. /\ pc \in [Threads -> CallerPcs \cup IoPcs] /\ Users \subseteq Threads /\ Ios \subseteq Threads
      /\ Callers \subseteq Threads /\ Users \subseteq Callers /\ num \in [Threads -> Nat]
      /\ wakeupFd \in [Ios -> Nat] /\ orderDeque \in [Ios -> Seq(Order)] /\ exitIothread \in Nat
      /\ cli \in [Uids -> Client] /\ used \subseteq Uids /\ ioVect \subseteq Ios
  BY DEF TypeOK, Threads, Callers
<1>1. /\ \A i \in Ios : Serves(i)
      /\ exitIothread = Cardinality(Ended)
      /\ \A t \in Users : pc[t] \in {"exitWrite", "exitSpin"} => ioThreadNum = IoNum /\ isExit
      /\ \A t \in Users : pc[t] = "exitJoin" => Stopped
  BY DEF ServeInv
<1>g. ASSUME NEW t \in Threads, NEW p, Goto(t, p)
      PROVE  pc'[t] = p /\ \A s \in Threads \ {t} : pc'[s] = pc[s]
  BY <1>0, <1>g DEF Goto
<1>2. CASE ServeQuiet
  BY <1>2, ServeKeeps
<1>3. ASSUME NEW t \in Users, ExitCall(t) PROVE ServeInv'
  <2>1. /\ isExit' = TRUE /\ UNCHANGED <<wakeupFd, ioVect, orderDeque, exitIothread, ioThreadNum>>
        /\ (\A i \in Ios : num'[i] = num[i]) /\ t \in Threads /\ t \notin Ios
    BY <1>0, <1>3 DEF ExitCall
  <2>2. pc' = pc \/ (Goto(t, "exitWrite") /\ ioThreadNum # 0)
    BY <1>3 DEF ExitCall
  <2>3. ioThreadNum # 0 => ioThreadNum = IoNum
    BY DEF TypeOK
  <2>4. /\ \A s \in Threads \ {t} : pc'[s] = pc[s]
        /\ pc'[t] = pc[t] \/ (pc'[t] = "exitWrite" /\ ioThreadNum = IoNum)
    BY <1>g, <2>1, <2>2, <2>3
  <2>5. \A i \in Ios : pc'[i] = pc[i]
    BY <1>0, <2>1, <2>4
  <2>6. Ended' = Ended /\ Stopped' = Stopped
    BY <2>5 DEF Ended, Stopped
  <2>7. \A i \in Ios : Serves(i)'
    BY <1>1, <2>1, <2>5 DEF Serves
  <2>8. \A s \in Users : pc'[s] = "exitJoin" => pc[s] = "exitJoin"
    BY <1>0, <2>4
  <2>9. \A s \in Users : pc'[s] \in {"exitWrite", "exitSpin"} => ioThreadNum' = IoNum /\ isExit'
    BY <1>0, <1>1, <2>1, <2>4
  <2> QED BY <1>1, <2>1, <2>6, <2>7, <2>8, <2>9 DEF ServeInv
<1>4. ASSUME NEW t \in Users, ExitWrite(t) PROVE ServeInv'
  <2>1. /\ UNCHANGED <<isExit, ioVect, orderDeque, exitIothread, ioThreadNum>> /\ pc[t] = "exitWrite"
        /\ (\A i \in Ios : num'[i] = num[i]) /\ t \in Threads /\ t \notin Ios
    BY <1>0, <1>4 DEF ExitWrite
  <2>2. isExit /\ ioThreadNum = IoNum
    BY <1>1, <2>1
  <2>3. pc' = pc \/ Goto(t, "exitSpin")
    BY <1>4 DEF ExitWrite
  <2>4. (\A s \in Threads \ {t} : pc'[s] = pc[s]) /\ pc'[t] \in {"exitWrite", "exitSpin"}
    BY <1>g, <2>1, <2>3
  <2>5. \A i \in Ios : pc'[i] = pc[i]
    BY <1>0, <2>1, <2>4
  <2>6. Ended' = Ended /\ Stopped' = Stopped
    BY <2>5 DEF Ended, Stopped
  <2>7. \A i \in Ios : Serves(i)'
    BY <1>1, <2>1, <2>2, <2>5 DEF Serves
  <2>8. \A s \in Users : pc'[s] = "exitJoin" => pc[s] = "exitJoin"
    BY <1>0, <2>4
  <2> QED BY <1>1, <2>1, <2>2, <2>6, <2>7, <2>8 DEF ServeInv
<1>5. ASSUME NEW t \in Users, ExitSpin(t) PROVE ServeInv'
  <2>1. /\ UNCHANGED <<isExit, wakeupFd, ioVect, orderDeque, exitIothread, ioThreadNum, num, readyFails>>
        /\ pc[t] = "exitSpin" /\ t \in Threads /\ t \notin Ios /\ exitIothread = ioThreadNum
        /\ Goto(t, "exitJoin")
    BY <1>0, <1>5 DEF ExitSpin
  <2>2. Cardinality(Ended) = IoNum
    BY <1>1, <2>1
  <2>3. Stopped
    BY <2>2, AllEnded
  <2>4. (\A s \in Threads \ {t} : pc'[s] = pc[s]) /\ pc'[t] = "exitJoin"
    BY <1>g, <2>1
  <2>5. \A i \in Ios : pc'[i] = pc[i]
    BY <1>0, <2>1, <2>4
  <2>6. Ended' = Ended /\ Stopped' = Stopped
    BY <2>5 DEF Ended, Stopped
  <2>7. \A i \in Ios : Serves(i)'
    BY <1>1, <2>1, <2>5 DEF Serves
  <2>8. \A s \in Users : pc'[s] \in {"exitWrite", "exitSpin"} => pc[s] = pc'[s]
    BY <1>0, <2>4
  <2> QED BY <1>1, <2>1, <2>3, <2>6, <2>7, <2>8 DEF ServeInv
<1>6. ASSUME NEW t \in Users, ExitJoin(t) PROVE ServeInv'
  <2>1. /\ UNCHANGED <<isExit, wakeupFd, exitIothread, ioThreadNum, num, readyFails>>
        /\ pc[t] = "exitJoin" /\ t \in Threads /\ t \notin Ios
        /\ Goto(t, ReturnPc(t)) /\ ioVect' = {} /\ orderDeque' = [i \in Ios |-> <<>>]
    BY <1>0, <1>6 DEF ExitJoin, Return
  <2>2. Stopped
    BY <1>1, <2>1
  <2>3. (\A s \in Threads \ {t} : pc'[s] = pc[s]) /\ pc'[t] \in {"idle", "exNext"}
    BY <1>g, <2>1 DEF ReturnPc
  <2>4. \A i \in Ios : pc'[i] = pc[i]
    BY <1>0, <2>1, <2>3
  <2>5. Ended' = Ended /\ Stopped'
    BY <2>2, <2>4 DEF Ended, Stopped
  <2>6. \A i \in Ios : Serves(i)'
    BY <1>1, <2>1, <2>2, <2>4 DEF Serves, Stopped
  <2>7. \A s \in Users : pc'[s] \in {"exitWrite", "exitSpin", "exitJoin"} => pc[s] = pc'[s]
    BY <1>0, <2>3
  <2> QED BY <1>1, <2>1, <2>5, <2>6, <2>7 DEF ServeInv
<1>7. ASSUME NEW t \in Callers, Wakeup(t) PROVE ServeInv'
  <2>1. /\ UNCHANGED <<isExit, ioVect, orderDeque, exitIothread, ioThreadNum, num, readyFails>>
        /\ t \in Threads /\ t \notin Ios
        /\ \A i \in Ios : wakeupFd'[i] \in {wakeupFd[i], wakeupFd[i] + 2}
    BY <1>0, <1>7 DEF Wakeup
  <2>2. \E p \in {"idle", "exNext", "insert", "state"} : Goto(t, p)
    BY <1>7 DEF Wakeup, Return, ReturnPc
  <2>3. (\A s \in Threads \ {t} : pc'[s] = pc[s]) /\ pc'[t] \in {"idle", "exNext", "insert", "state"}
    BY <1>g, <2>1, <2>2
  <2>4. \A i \in Ios : pc'[i] = pc[i]
    BY <1>0, <2>1, <2>3
  <2>5. Ended' = Ended /\ Stopped' = Stopped
    BY <2>4 DEF Ended, Stopped
  <2>6. \A i \in Ios : wakeupFd'[i] % 2 = wakeupFd[i] % 2
    BY <1>0, <2>1, Parity
  <2>7. \A i \in Ios : Serves(i)'
    BY <1>1, <2>1, <2>4, <2>6 DEF Serves
  <2>8. \A s \in Users : pc'[s] \in {"exitWrite", "exitSpin", "exitJoin"} => pc[s] = pc'[s]
    BY <1>0, <2>3
  <2> QED BY <1>1, <2>1, <2>5, <2>7, <2>8 DEF ServeInv
<1>8. ASSUME NEW t \in Callers, SendOrder(t) \/ DiscOrder(t) \/ \E u \in Uids : AddOrder(t, u) PROVE ServeInv'
  <2>1. /\ UNCHANGED <<isExit, ioVect, wakeupFd, exitIothread, ioThreadNum, num, readyFails>>
        /\ t \in Threads /\ t \notin Ios
    BY <1>0, <1>8 DEF SendOrder, DiscOrder, AddOrder
  <2>0. \A i \in Ios : pc[i] # "off"
    <3>1. pc[t] = "run" \/ (pc[t] = "got" /\ cur[t] \in used)
      BY <1>8, <2>1 DEF SendOrder, DiscOrder, AddOrder, Refs, NamesClient
    <3> QED BY <3>1 DEF ReadyInv, Settled
  <2>2. \A i \in Ios : i \notin ioVect => orderDeque'[i] = orderDeque[i]
    <3>1. orderDeque' = orderDeque \/ \E j \in ioVect : \E o \in {orderDeque'[j]} : orderDeque' = [orderDeque EXCEPT ![j] = o]
      <4>1. ASSUME NEW j \in ioVect, NEW o, Enqueue(j, o)
            PROVE  \E p \in {orderDeque'[j]} : orderDeque' = [orderDeque EXCEPT ![j] = p]
        <5>1. j \in Ios /\ orderDeque' = [orderDeque EXCEPT ![j] = Append(orderDeque[j], o)]
          BY <1>0, <4>1 DEF Enqueue
        <5>2. orderDeque'[j] = Append(orderDeque[j], o)
          BY <1>0, <5>1
        <5> QED BY <5>1, <5>2
      <4>2. CASE SendOrder(t)
        BY <4>1, <4>2 DEF SendOrder
      <4>3. CASE DiscOrder(t)
        BY <4>1, <4>3 DEF DiscOrder
      <4>4. CASE \E u \in Uids : AddOrder(t, u)
        BY <4>1, <4>4 DEF AddOrder
      <4> QED BY <1>8, <4>2, <4>3, <4>4
    <3> QED BY <1>0, <3>1
  <2>3. pc' = pc \/ \E p \in {"again", "wake", "state"} : Goto(t, p)
    BY <1>8 DEF SendOrder, DiscOrder, AddOrder
  <2>4. (\A s \in Threads \ {t} : pc'[s] = pc[s]) /\ pc'[t] \in {pc[t], "again", "wake", "state"}
    BY <1>g, <2>1, <2>3
  <2>5. \A i \in Ios : pc'[i] = pc[i]
    BY <1>0, <2>1, <2>4
  <2>6. \A s \in Users : pc'[s] \in {"exitWrite", "exitSpin", "exitJoin"} => pc[s] = pc'[s]
    BY <1>0, <2>4
  <2>7. ServeQuiet
    BY <2>0, <2>1, <2>2, <2>5, <2>6 DEF ServeQuiet
  <2> QED BY <2>7, ServeKeeps
<1>9. ASSUME NEW i \in Ios, DealConnect(i) \/ DealConnectFail(i) \/ DealSend(i) PROVE ServeInv'
  <2>1. /\ UNCHANGED <<isExit, ioVect, wakeupFd, exitIothread, ioThreadNum, num, readyFails>>
        /\ i \in Threads /\ i \notin Users /\ orderDeque[i] # <<>> /\ pc[i] = "drain"
        /\ orderDeque' = [orderDeque EXCEPT ![i] = Tail(orderDeque[i])]
    BY <1>0, <1>9 DEF DealConnect, DealConnectFail, DealSend
  <2>2. i \in ioVect
    BY <1>1, <2>1 DEF Serves
  <2>3. pc' = pc \/ Goto(i, "notify")
    BY <1>9 DEF DealConnect, DealConnectFail, DealSend
  <2>4. (\A s \in Threads \ {i} : pc'[s] = pc[s]) /\ pc'[i] \in {"drain", "notify"}
    BY <1>g, <2>1, <2>3
  <2>5. \A j \in Ios : j \notin ioVect => orderDeque'[j] = orderDeque[j]
    BY <1>0, <2>1, <2>2
  <2>6. ServeQuiet
    BY <1>0, <2>1, <2>4, <2>5 DEF ServeQuiet
  <2> QED BY <2>6, ServeKeeps
<1>10. ASSUME NEW i \in Ios, IoCreate(i) PROVE ServeInv'
  <2>1. /\ UNCHANGED <<isExit, exitIothread, ioThreadNum, num, readyFails>> /\ ioVect' = ioVect \cup {i}
        /\ wakeupFd' = [wakeupFd EXCEPT ![i] = 0] /\ orderDeque' = [orderDeque EXCEPT ![i] = <<>>]
        /\ i \in Threads /\ i \notin Users /\ Goto(i, "new") /\ pc[i] = "off"
    BY <1>0, <1>10 DEF IoCreate
  <2>2. (\A s \in Threads \ {i} : pc'[s] = pc[s]) /\ pc'[i] = "new"
    BY <1>g, <2>1
  <2>3. Ended' = Ended /\ (Stopped => Stopped')
    BY <1>0, <2>1, <2>2 DEF Ended, Stopped
  <2>4. \A j \in Ios \ {i} : Serves(j)'
    BY <1>0, <1>1, <2>1, <2>2 DEF Serves
  <2>5. wakeupFd'[i] % 2 = 0
    BY <1>0, <2>1, Parity
  <2>6. Serves(i)'
    BY <1>0, <1>1, <2>1, <2>2, <2>5 DEF Serves
  <2>7. \A s \in Users : pc'[s] = pc[s]
    BY <1>0, <2>1, <2>2
  <2> QED BY <1>1, <2>1, <2>3, <2>4, <2>6, <2>7 DEF ServeInv
<1>11. ASSUME NEW i \in Ios, IoReadyFail(i) PROVE ServeInv'
  <2>1. /\ UNCHANGED <<isExit, exitIothread, ioThreadNum, ioVect, orderDeque, wakeupFd, num>>
        /\ i \in Threads /\ i \notin Users /\ pc[i] = "new" /\ Goto(i, "left") /\ readyFails' = readyFails + 1
    BY <1>0, <1>11 DEF IoReadyFail
  <2>2. (\A s \in Threads \ {i} : pc'[s] = pc[s]) /\ pc'[i] = "left"
    BY <1>g, <2>1
  <2>3. readyFails' # 0
    BY <2>1 DEF TypeOK
  <2>4. Ended' = Ended /\ (Stopped => Stopped')
    BY <1>0, <2>1, <2>2 DEF Ended, Stopped
  <2>5. \A j \in Ios : Serves(j)'
    BY <1>0, <1>1, <2>1, <2>2, <2>3 DEF Serves
  <2>6. \A s \in Users : pc'[s] = pc[s]
    BY <1>0, <2>1, <2>2
  <2> QED BY <1>1, <2>1, <2>4, <2>5, <2>6 DEF ServeInv
<1>12. ASSUME NEW i \in Ios, HandleRead(i) \/ DrainEnd(i) PROVE ServeInv'
  <2>1. /\ UNCHANGED <<isExit, exitIothread, ioThreadNum, ioVect, orderDeque, readyFails>>
        /\ i \in Threads /\ i \notin Users /\ pc[i] \in {"loop", "drain"}
        /\ \A j \in Ios \ {i} : num'[j] = num[j] /\ wakeupFd'[j] = wakeupFd[j]
        /\ num'[i] \in {wakeupFd[i], 0} /\ wakeupFd'[i] \in {wakeupFd[i], 0}
    BY <1>0, <1>12 DEF HandleRead, DrainEnd
  <2>2. \/ Goto(i, "drain") \/ Goto(i, "loop")
        \/ Goto(i, "left") /\ num[i] % 2 = 1
    BY <1>12 DEF HandleRead, DrainEnd
  <2>3. /\ \A s \in Threads \ {i} : pc'[s] = pc[s]
        /\ pc'[i] \in {"drain", "loop", "left"}
        /\ pc'[i] = "left" => num[i] % 2 = 1
    BY <1>g, <2>1, <2>2
  <2>4. Ended' = Ended /\ (Stopped => Stopped')
    BY <1>0, <2>1, <2>3 DEF Ended, Stopped
  <2>5. \A j \in Ios \ {i} : Serves(j)'
    BY <1>0, <1>1, <2>1, <2>3 DEF Serves
  <2>6. pc'[i] = "left" => isExit
    BY <1>1, <2>3 DEF Serves
  <2>7. num'[i] % 2 = 1 \/ wakeupFd'[i] % 2 = 1 => isExit
    <3>1. ASSUME NEW n \in {wakeupFd[i], 0}, n % 2 = 1 PROVE isExit
      <4>1. n # 0
        BY <3>1, Parity
      <4>2. n = wakeupFd[i]
        BY <4>1
      <4> QED BY <1>1, <3>1, <4>2 DEF Serves
    <3> QED BY <2>1, <3>1
  <2>8. Serves(i)'
    BY <1>0, <1>1, <2>1, <2>3, <2>6, <2>7 DEF Serves
  <2>9. \A s \in Users : pc'[s] = pc[s]
    BY <1>0, <2>1, <2>3
  <2> QED BY <1>1, <2>1, <2>4, <2>5, <2>8, <2>9 DEF ServeInv
<1>13. ASSUME NEW i \in Ios, IoCheckExit(i), isExit PROVE ServeInv'
  <2>1. /\ UNCHANGED <<isExit, wakeupFd, ioThreadNum, ioVect, orderDeque, num, readyFails>>
        /\ i \in Threads /\ i \notin Users /\ pc[i] = "check"
        /\ exitIothread' = exitIothread + 1 /\ Goto(i, "done")
    BY <1>0, <1>13 DEF IoCheckExit
  <2>4. (\A s \in Threads \ {i} : pc'[s] = pc[s]) /\ pc'[i] = "done"
    BY <1>g, <2>1
  <2>5. Ended' = Ended \cup {i} /\ i \notin Ended /\ (Stopped => Stopped')
    BY <1>0, <2>1, <2>4 DEF Ended, Stopped
  <2>6. IsFiniteSet(Ended)
    <3>1. IsFiniteSet(Ios)
      BY IoNumAssumption, FS_Interval DEF Ios
    <3> QED BY <3>1, FS_Subset DEF Ended
  <2>7. exitIothread' = Cardinality(Ended')
    BY <1>1, <2>1, <2>5, <2>6, FS_AddElement
  <2>8. \A j \in Ios : Serves(j)'
    BY <1>0, <1>1, <1>13, <2>1, <2>4 DEF Serves
  <2>9. \A s \in Users : pc'[s] = pc[s]
    BY <1>0, <2>1, <2>4
  <2> QED BY <1>1, <2>1, <2>5, <2>7, <2>8, <2>9 DEF ServeInv
<1>14. ASSUME NEW i \in Ios, IoCheckExit(i), ~isExit PROVE ServeInv'
  <2>1. /\ UNCHANGED <<isExit, exitIothread, wakeupFd, ioThreadNum, ioVect, orderDeque, num, readyFails>>
        /\ i \in Threads /\ i \notin Users /\ pc[i] = "check" /\ Goto(i, "off")
    BY <1>0, <1>14 DEF IoCheckExit
  <2>2. (\A s \in Threads \ {i} : pc'[s] = pc[s]) /\ pc'[i] = "off"
    BY <1>g, <2>1
  <2>3. used = {}
    BY <1>1, <1>14, <2>1 DEF Serves, ReadyInv, Settled
  <2>4. orderDeque[i] = <<>>
    <3>1. orderDeque[i] \in Seq(Order) /\ \A k \in 1 .. Len(orderDeque[i]) : FALSE
      BY <1>0, <2>3 DEF Refs
    <3>2. Len(orderDeque[i]) \in Nat /\ ~(1 \in 1 .. Len(orderDeque[i]))
      BY <3>1
    <3>3. Len(orderDeque[i]) = 0
      BY <3>2
    <3> QED BY <3>1, <3>3
  <2>5. Ended' = Ended /\ (Stopped => Stopped')
    BY <1>0, <2>1, <2>2 DEF Ended, Stopped
  <2>6. \A j \in Ios : Serves(j)'
    BY <1>0, <1>1, <2>1, <2>2, <2>4 DEF Serves
  <2>7. \A s \in Users : pc'[s] = pc[s]
    BY <1>0, <2>1, <2>2
  <2> QED BY <1>1, <2>1, <2>5, <2>6, <2>7 DEF ServeInv
<1> QED
  BY <1>2, <1>3, <1>4, <1>5, <1>6, <1>7, <1>8, <1>9, <1>10, <1>11, <1>12, <1>13, <1>14, ServeMost DEF ExitStep

-----------------------------------------------------------------------------
\* A step that leaves the count of the IO threads that are ready
ReadyQuiet ==
  /\ readyIothread' = readyIothread /\ readyFails' = readyFails /\ used' = used
  /\ Up' = Up
  /\ \A i \in Ios : pc'[i] \in {"off", "new"} => pc[i] \in {"off", "new"}
  /\ \A t \in Callers : pc'[t] = "run" => pc[t] = "run"

\* Such a step leaves ReadyInv.
LEMMA ReadyKeeps ==
  ASSUME ReadyInv, ReadyQuiet
  PROVE  ReadyInv'
<1>1. Cardinality(Up)' = Cardinality(Up) /\ (Settled => Settled')
  BY DEF ReadyQuiet, Settled
<1> QED BY <1>1 DEF ReadyInv, ReadyQuiet

\* Most steps are of this kind.
LEMMA ReadyMost ==
  ASSUME TypeOK, [Next]_vars
  PROVE  \/ ReadyQuiet
         \/ \E t \in Callers : WaitReady(t) \/ \E u \in Uids : AddOrder(t, u)
         \/ \E i \in Ios : IoReady(i) \/ IoReadyFail(i) \/ IoLeave(i) \/ IoCheckExit(i)
<1> USE ThreadAssumption DEF mgrVars, ioVars, thVars, boundVars
<1>0. /\ pc \in [Threads -> CallerPcs \cup IoPcs] /\ Users \subseteq Callers /\ Callers \subseteq Threads
      /\ Ios \subseteq Threads /\ Expirer \in Callers
  BY DEF TypeOK, Threads, Callers
<1>a. ASSUME NEW t \in Callers, NEW p \in CallerPcs \ {"run"}, Goto(t, p),
             readyIothread' = readyIothread, readyFails' = readyFails, used' = used
      PROVE  ReadyQuiet
  <2>1. t \notin Ios /\ pc'[t] = p /\ \A s \in Threads \ {t} : pc'[s] = pc[s]
    BY <1>0, <1>a DEF Goto
  <2>2. \A i \in Ios : pc'[i] = pc[i]
    BY <1>0, <2>1
  <2> QED BY <1>0, <1>a, <2>1, <2>2 DEF ReadyQuiet, Up
<1>b. ASSUME NEW i \in Ios, NEW p \in {"new", "loop", "drain", "msgcb", "notify", "cb", "left"}, Goto(i, p),
             IF p = "new" THEN pc[i] = "off" ELSE i \in Up,
             readyIothread' = readyIothread, readyFails' = readyFails, used' = used
      PROVE  ReadyQuiet
  <2>1. i \notin Callers /\ pc'[i] = p /\ \A s \in Threads \ {i} : pc'[s] = pc[s]
    BY <1>0, <1>b DEF Goto
  <2>2. \A t \in Callers : pc'[t] = pc[t]
    BY <1>0, <2>1
  <2>3. Up' = Up
    BY <1>0, <1>b, <2>1 DEF Up
  <2> QED BY <1>0, <1>b, <2>1, <2>2, <2>3 DEF ReadyQuiet
<1>c. ASSUME UNCHANGED <<pc, readyIothread, readyFails, used>>
      PROVE  ReadyQuiet
  BY <1>c DEF ReadyQuiet, Up
<1>r. ASSUME NEW t \in Callers, Return(t) PROVE \E p \in CallerPcs \ {"run"} : Goto(t, p)
  BY <1>r DEF Return, ReturnPc, CallerPcs
<1>1. ASSUME NEW t \in Users, InitStart(t) \/ InitDone(t) \/ ExitCall(t)
      PROVE  ReadyQuiet
  BY <1>0, <1>1, <1>a, <1>c DEF InitStart, InitDone, ExitCall, CallerPcs
<1>2. ASSUME NEW t \in Users, ExitStep(t)
      PROVE  ReadyQuiet
  BY <1>0, <1>2, <1>a, <1>c, <1>r DEF ExitStep, ExitWrite, ExitSpin, ExitJoin, CallerPcs
<1>3. ASSUME NEW t \in Users, NEW u \in Uids \cup {NoUid},
             NEW o \in {"add", "send", "reset", "disc"}, Call(t, o, u)
      PROVE  ReadyQuiet
  BY <1>0, <1>3, <1>a, <1>c DEF Call, CallerPcs
<1>4. ASSUME NEW t \in Callers, Lookup(t) \/ CallAgain(t) \/ ResetPrivate(t) \/ Insert(t)
      PROVE  ReadyQuiet
  BY <1>4, <1>a, <1>r DEF Lookup, CallAgain, ResetPrivate, Insert, CallerPcs
<1>5. ASSUME NEW t \in Callers, SendOrder(t) \/ DiscOrder(t) \/ ReadState(t)
      PROVE  ReadyQuiet
  BY <1>5, <1>a DEF SendOrder, DiscOrder, ReadState, CallerPcs
<1>6. ASSUME NEW t \in Callers, Wakeup(t)
      PROVE  ReadyQuiet
  BY <1>6, <1>a, <1>r DEF Wakeup, CallerPcs
<1>7. ASSUME NEW t \in Threads, Notify(t) \/ Callback(t)
      PROVE  ReadyQuiet
  <2>1. Goto(t, "cb") \/ Resume(t)
    BY <1>7 DEF Notify, Callback
  <2>2. UNCHANGED <<readyIothread, readyFails, used>> /\ pc[t] \in {"notify", "cb"}
    BY <1>7 DEF Notify, Callback
  <2>3. CASE t \in Callers
    BY <2>1, <2>2, <2>3, <1>a, <1>r DEF Resume, CallerPcs
  <2>4. CASE t \notin Callers
    <3>1. t \in Up
      BY <2>2, <2>4 DEF Threads, Up
    <3>2. Goto(t, "cb") \/ Goto(t, "drain") \/ Goto(t, "loop")
      BY <2>1, <2>4 DEF Resume
    <3> QED BY <2>2, <3>1, <3>2, <1>b DEF Up
  <2> QED BY <2>3, <2>4
<1>8. ASSUME ExpireStep
      PROVE  ReadyQuiet
  BY <1>0, <1>8, <1>a, <1>c DEF ExpireStep, ExpireTop, ExpireScan, ExpireNext, ExpireSleep, CallerPcs
<1>9. ASSUME NEW i \in Ios, IoCreate(i) \/ HandleRead(i) \/ DrainEnd(i) \/ OnMessageEnd(i)
      PROVE  ReadyQuiet
  BY <1>9, <1>b DEF IoCreate, HandleRead, DrainEnd, OnMessageEnd, Up
<1>10. ASSUME NEW i \in Ios, DealConnect(i) \/ DealConnectFail(i) \/ DealSend(i)
      PROVE  ReadyQuiet
  BY <1>10, <1>b, <1>c DEF DealConnect, DealConnectFail, DealSend, Up
<1>11. ASSUME NEW i \in Ios, NEW u \in Uids, NetEvent(i, u) \/ OnMessage(i, u) \/ OnMessageExpired(i, u)
      PROVE  ReadyQuiet
  BY <1>11, <1>b DEF NetEvent, OnConnected, OnClosed, ConnectTimeout, OnMessage, OnMessageExpired, Event, Up
<1>12. CASE Tick \/ UNCHANGED vars
  BY <1>12, <1>c DEF Tick, vars
<1> QED
  BY <1>0, <1>1, <1>2, <1>3, <1>4, <1>5, <1>6, <1>7, <1>8, <1>9, <1>10, <1>11, <1>12
     DEF Next, CallerStep, IoStep, Threads

\* How many threads are ready, as a number
UpCounted ==
  /\ IsFiniteSet(Up) /\ Cardinality(Up) \in Nat /\ Cardinality(Up) <= IoNum
  /\ Cardinality(Up) = IoNum => Up = Ios

\* They are some of the IO threads.
LEMMA UpCount == UpCounted
<1>1. IsFiniteSet(Ios) /\ Cardinality(Ios) = IoNum
  <2>1. 0 \in Int /\ IoNum - 1 \in Int /\ (IoNum - 1) - 0 + 1 = IoNum /\ ~(0 > IoNum - 1)
    BY IoNumAssumption
  <2> QED BY <2>1, FS_Interval DEF Ios
<1>2. Up \subseteq Ios
  BY DEF Up
<1> QED BY <1>1, <1>2, FS_Subset, FS_CardinalityType DEF UpCounted

\* After a step, too
LEMMA UpCountNext == UpCounted'
  BY UpCount, PTL

\* The unsigned counter comes to ioThreadNum only with all threads up and no
\* failure so far: it would take UMod of them to come round.
LEMMA ReadyIsAll ==
  ASSUME MaxReadyFail + IoNum < UMod, TypeOK, ReadyInv, ioThreadNum # 0, readyIothread = ioThreadNum
  PROVE  readyFails = 0 /\ Up = Ios
<1>1. PICK c \in Nat : c = Cardinality(Up) /\ c <= IoNum
  BY UpCount DEF UpCounted
<1>2. /\ readyIothread = IF readyFails <= c THEN c - readyFails ELSE (c - readyFails) + UMod
      /\ readyFails <= MaxReadyFail /\ readyFails \in Nat /\ readyIothread = IoNum
      /\ IoNum \in Nat /\ UMod \in Nat /\ MaxReadyFail \in Nat
  BY <1>1, IoNumAssumption, BoundAssumption DEF ReadyInv, TypeOK
<1>3. readyFails = 0 /\ c = IoNum
  BY <1>1, <1>2
<1> QED BY <1>1, <1>3, UpCount DEF UpCounted

\* The count of the ready threads and the calls that wait for it, through every
\* step
LEMMA ReadyStep ==
  ASSUME MaxReadyFail + IoNum < UMod, TypeOK, Refs, ReadyInv, ServeInv, [Next]_vars
  PROVE  ReadyInv'
<1> USE ThreadAssumption DEF mgrVars, ioVars, thVars, boundVars
<1>0. /\ pc \in [Threads -> CallerPcs \cup IoPcs] /\ Callers \subseteq Threads /\ Ios \subseteq Threads
      /\ readyFails \in Nat /\ MaxReadyFail \in Nat /\ UMod \in Nat /\ IoNum \in Nat
      /\ readyIothread \in 0 .. UMod - 1
  BY IoNumAssumption, BoundAssumption DEF TypeOK, Threads, Callers
<1>g. ASSUME NEW t \in Threads, NEW p, Goto(t, p)
      PROVE  pc'[t] = p /\ \A s \in Threads \ {t} : pc'[s] = pc[s]
  BY <1>0, <1>g DEF Goto
<1>1. PICK c \in Nat : c = Cardinality(Up) /\ c <= IoNum
  BY UpCount DEF UpCounted
<1>2. /\ readyFails <= MaxReadyFail
      /\ readyIothread = IF readyFails <= c THEN c - readyFails ELSE (c - readyFails) + UMod
  BY <1>1 DEF ReadyInv
<1>3. CASE ReadyQuiet
  BY <1>3, ReadyKeeps
<1>4. ASSUME NEW t \in Callers, WaitReady(t) \/ \E u \in Uids : AddOrder(t, u) PROVE ReadyInv'
  <2>1. /\ readyIothread' = readyIothread /\ readyFails' = readyFails
        /\ pc' = pc \/ Goto(t, "run") \/ Goto(t, "wake")
    BY <1>4 DEF WaitReady, AddOrder
  <2>2. \A i \in Ios : pc'[i] = pc[i]
    BY <1>0, <1>g, <2>1
  <2>3. Up' = Up /\ (Settled => Settled')
    BY <2>1, <2>2 DEF Up, Settled
  <2>4. Settled
    <3>1. CASE WaitReady(t)
      <4>1. readyFails = 0 /\ Up = Ios
        BY <3>1, ReadyIsAll DEF WaitReady
      <4> QED BY <4>1 DEF Settled, Up
    <3>2. CASE pc[t] = "run"
      BY <3>2 DEF ReadyInv
    <3> QED BY <1>4, <3>1, <3>2 DEF AddOrder
  <2> QED BY <2>1, <2>3, <2>4 DEF ReadyInv
\* with a thread that is not up, or after a failure, no call has got through
<1>5. ASSUME NEW i \in Ios, NEW p \in IoPcs, Goto(i, p), used' = used, ~Settled
      PROVE  ~((\E t \in Callers : pc'[t] = "run") \/ used' # {})
  <2>1. \A t \in Callers : pc'[t] = pc[t]
    BY <1>0, <1>g, <1>5
  <2> QED BY <1>5, <2>1 DEF ReadyInv
<1>6. ASSUME NEW i \in Ios, IoReady(i) PROVE ReadyInv'
  <2>1. /\ Goto(i, "loop") /\ used' = used /\ readyFails' = readyFails /\ pc[i] = "new"
        /\ readyIothread' = (readyIothread + 1) % UMod
    BY <1>6 DEF IoReady
  <2>2. Up' = Up \cup {i} /\ i \notin Up
    BY <1>0, <1>g, <2>1 DEF Up
  <2>3. Cardinality(Up') = c + 1
    BY <1>1, <2>2, UpCount, FS_AddElement DEF UpCounted
  <2>4. c + 1 <= IoNum
    <3>1. PICK d \in Nat : d = Cardinality(Up') /\ d <= IoNum
      BY UpCountNext DEF UpCounted
    <3> QED BY <2>3, <3>1
  <2>5. readyIothread' = IF readyFails <= c + 1 THEN (c + 1) - readyFails ELSE ((c + 1) - readyFails) + UMod
    <3>1. CASE readyFails <= c
      <4>1. readyIothread + 1 = (c + 1) - readyFails /\ readyIothread + 1 \in 0 .. UMod - 1
        BY <1>0, <1>1, <1>2, <2>4, <3>1
      <4>2. (readyIothread + 1) % UMod = readyIothread + 1
        BY <1>0, <4>1
      <4> QED BY <1>0, <2>1, <3>1, <4>1, <4>2
    <3>2. CASE readyFails = c + 1
      <4>1. readyIothread + 1 = UMod /\ UMod > 0
        BY <1>0, <1>2, <3>2
      <4>2. UMod % UMod = 0
        BY <1>0, <4>1
      <4> QED BY <1>0, <2>1, <3>2, <4>1, <4>2
    <3>3. CASE readyFails > c + 1
      <4>1. readyIothread + 1 = ((c + 1) - readyFails) + UMod /\ readyIothread + 1 \in 0 .. UMod - 1
        BY <1>0, <1>1, <1>2, <3>3
      <4>2. (readyIothread + 1) % UMod = readyIothread + 1
        BY <1>0, <4>1
      <4> QED BY <1>0, <2>1, <3>3, <4>1, <4>2
    <3> QED BY <1>0, <3>1, <3>2, <3>3
  <2>6. ~Settled
    BY <2>1 DEF Settled
  <2>7. ~((\E t \in Callers : pc'[t] = "run") \/ used' # {})
    BY <1>5, <2>1, <2>6 DEF IoPcs
  <2> QED BY <1>2, <2>1, <2>3, <2>5, <2>7 DEF ReadyInv
<1>7. ASSUME NEW i \in Ios, IoReadyFail(i) PROVE ReadyInv'
  <2>1. /\ Goto(i, "left") /\ used' = used /\ readyFails' = readyFails + 1 /\ readyFails < MaxReadyFail
        /\ pc[i] = "new" /\ readyIothread' = readyIothread
    BY <1>7 DEF IoReadyFail
  <2>2. Up' = Up \cup {i} /\ i \notin Up
    BY <1>0, <1>g, <2>1 DEF Up
  <2>3. Cardinality(Up') = c + 1
    BY <1>1, <2>2, UpCount, FS_AddElement DEF UpCounted
  <2>4. /\ readyFails' <= MaxReadyFail
        /\ readyIothread' = IF readyFails' <= c + 1 THEN (c + 1) - readyFails' ELSE ((c + 1) - readyFails') + UMod
    BY <1>0, <1>2, <2>1
  <2>5. ~Settled
    BY <2>1 DEF Settled
  <2>6. ~((\E t \in Callers : pc'[t] = "run") \/ used' # {})
    BY <1>5, <2>1, <2>5 DEF IoPcs
  <2> QED BY <2>3, <2>4, <2>6 DEF ReadyInv
<1>8. ASSUME NEW i \in Ios, IoLeave(i) PROVE ReadyInv'
  <2>1. /\ Goto(i, "check") /\ used' = used /\ readyFails' = readyFails /\ pc[i] = "left"
        /\ readyIothread' = Decremented(readyIothread)
    BY <1>8 DEF IoLeave
  <2>2. pc'[i] = "check" /\ \A s \in Threads \ {i} : pc'[s] = pc[s]
    BY <1>0, <1>g, <2>1
  <2>3. Up' = Up \ {i} /\ i \in Up
    BY <1>0, <2>1, <2>2 DEF Up
  <2>4. Cardinality(Up') = c - 1 /\ c - 1 \in Nat
    <3>1. Cardinality(Up') = c - 1
      BY <1>1, <2>3, UpCount, FS_RemoveElement DEF UpCounted
    <3> QED BY <3>1, UpCountNext DEF UpCounted
  <2>5. readyIothread' = IF readyFails <= c - 1 THEN (c - 1) - readyFails ELSE ((c - 1) - readyFails) + UMod
    <3>1. readyIothread' = IF readyIothread = 0 THEN UMod - 1 ELSE readyIothread - 1
      BY <2>1 DEF Decremented
    <3> QED BY <1>0, <1>1, <1>2, <2>4, <3>1
  <2>6. (Settled => Settled') /\ \A t \in Callers : pc'[t] = pc[t]
    BY <1>0, <2>1, <2>2 DEF Settled
  <2> QED BY <1>2, <2>1, <2>4, <2>5, <2>6 DEF ReadyInv
<1>9. ASSUME NEW i \in Ios, IoCheckExit(i) PROVE ReadyInv'
  <2>1. /\ UNCHANGED <<used, readyFails, readyIothread>> /\ pc[i] = "check"
        /\ Goto(i, IF isExit THEN "done" ELSE "off")
    BY <1>9 DEF IoCheckExit
  <2>2. pc'[i] = (IF isExit THEN "done" ELSE "off") /\ \A s \in Threads \ {i} : pc'[s] = pc[s]
    BY <1>0, <1>g, <2>1
  <2>3. Up' = Up /\ \A t \in Callers : pc'[t] = pc[t]
    BY <1>0, <2>1, <2>2 DEF Up
  <2>4. CASE isExit
    <3>1. Settled => Settled'
      BY <1>0, <2>1, <2>2, <2>4 DEF Settled
    <3> QED BY <2>1, <2>3, <3>1 DEF ReadyInv
  <2>5. CASE ~isExit
    <3>1. ~Settled
      BY <2>1, <2>5 DEF ServeInv, Serves, Settled
    <3> QED BY <2>1, <2>3, <3>1 DEF ReadyInv
  <2> QED BY <2>4, <2>5
<1> QED BY <1>3, <1>4, <1>6, <1>7, <1>8, <1>9, ReadyMost

-----------------------------------------------------------------------------
\* Some order about u is queued.
Ordered(u) == \E k \in Nat : OrderAt(u, k)

\* No caller moves.
CallersRest == \A t \in Callers : pc'[t] = pc[t]

\* What a step leaves of the orders and of the sockets: an order to close is
\* taken off only when it is carried out, by the IO thread.
OrdersLast ==
  /\ \A i \in Ios : \A k \in 1 .. Len(orderDeque'[i]) : cli'[orderDeque'[i][k].uid].io = i
  /\ \A u \in used : Ordered(u) => cli'[u].sock \/ Ordered(u)'
  /\ \A u \in used : Closing(u) =>
       Closing(u)' \/ (Gone(u)' /\ pc[cli[u].io] = "drain" /\ CallersRest)

\* What a step may do to the clients that exist: a bufferevent is freed by the
\* last reference or by the IO thread outside msgCb.
ClientsLast ==
  /\ \A u \in used : cli'[u].io = cli[u].io /\ (cli[u].sock => cli'[u].sock)
  /\ \A u \in Uids : cli'[u].bev # "none" => cli'[u].sock
  /\ \A u \in used : Gone(u) => Gone(u)'
  /\ \A u \in used : Referenced(u)' =>
       cli'[u].bev = cli[u].bev \/ (pc'[cli[u].io] # "msgcb" /\ CallersRest)

\* An entry is erased only about a client that is being closed.
EntriesLast ==
  /\ \A u \in connMap \ connMap' : Stopped \/ Closing(u) \/ Gone(u)
  /\ \A u \in Uids : Entering(u) => Entering(u)' \/ u \in connMap'

\* What a step may begin in a thread
ThreadsLast ==
  /\ Stopped => Stopped'
  /\ \A t \in Callers : Adding(t)' => held'[t] = cur'[t]
  /\ \A t \in Callers : Past(t)' =>
       \/ Past(t) /\ cur'[t] = cur[t]
       \/ Stopped \/ Closing(cur[t])' \/ Gone(cur[t])'
  /\ \A i \in Ios : pc'[i] = "notify" /\ st'[i] # CONN_SUCCESS =>
       \/ pc[i] = "notify" /\ st[i] # CONN_SUCCESS /\ cur'[i] = cur[i]
       \/ Gone(cur[i])'
  /\ \A i \in Ios : pc'[i] = "msgcb" =>
       \/ pc[i] = "msgcb" /\ cur'[i] = cur[i]
       \/ cli'[cur'[i]].bev = "up" /\ cli'[cur'[i]].io = i

\* No step of a caller frees a bufferevent.
Freeless ==
  \A t \in Callers : pc'[t] # pc[t] => \A u \in Uids : cli[u].bev # "none" => cli'[u].bev # "none"

\* For what is kept there is a TcpClientPtr.
KeepersHold ==
  TypeOK /\ (\A t \in Callers : Adding(t) => held[t] = cur[t]) =>
    \A u \in Uids : Kept(u) => Referenced(u)

\* The map, the thread that adds the client and the deque each hold it.
LEMMA KeptReferenced == KeepersHold
<1> SUFFICES ASSUME TypeOK, \A t \in Callers : Adding(t) => held[t] = cur[t], NEW u \in Uids, Kept(u)
             PROVE  Referenced(u)
  BY DEF KeepersHold
<1>1. CASE u \in connMap
  BY <1>1 DEF Referenced
<1>2. CASE Entering(u)
  BY <1>2 DEF Entering, Referenced, Threads
<1>3. CASE Closing(u)
  <2>1. cli[u].io \in Ios
    BY DEF TypeOK, Client
  <2>2. \E k \in 1 .. Len(orderDeque[cli[u].io]) : orderDeque[cli[u].io][k].uid = u
    BY <1>3 DEF Closing, CloseAt, OrderAt
  <2> QED BY <2>1, <2>2 DEF Referenced
<1> QED BY <1>1, <1>2, <1>3 DEF Kept

\* The same in the next state
LEMMA KeptReferencedNext == KeepersHold'
  BY KeptReferenced, PTL

\* A client that is alive is kept through a step of such a kind.
LEMMA KeptLasts ==
  ASSUME TypeOK, Refs, CareInv, OrdersLast, EntriesLast, ~Stopped,
         NEW u \in used, ~Gone(u)
  PROVE  Kept(u)' \/ (Gone(u)' /\ pc[cli[u].io] = "drain" /\ CallersRest)
<1>1. Kept(u)
  BY DEF CareInv, Cared
<1>2. u \in Uids
  BY DEF TypeOK
<1>3. Closing(u) => Closing(u)' \/ (Gone(u)' /\ pc[cli[u].io] = "drain" /\ CallersRest)
  BY DEF OrdersLast
<1>4. Entering(u) => Entering(u)' \/ u \in connMap'
  BY <1>2 DEF EntriesLast
<1>5. u \in connMap => u \in connMap' \/ Closing(u)
  BY DEF EntriesLast
<1> QED BY <1>1, <1>3, <1>4, <1>5 DEF Kept

\* Steps of this kind keep CareInv, and no caller frees a bufferevent in one.
LEMMA CareKeeps ==
  ASSUME TypeOK, Refs, CareInv, TypeOK', used \subseteq used', ioVect \subseteq ioVect' \/ Stopped,
         OrdersLast, ClientsLast, EntriesLast, ThreadsLast,
         \A u \in used' \ used : Cared(u)'
  PROVE  CareInv' /\ (Stopped \/ Freeless)
<1>0. used \subseteq Uids /\ used' \subseteq Uids
  BY DEF TypeOK
<1>1. Stopped => Stopped'
  BY DEF ThreadsLast
<1>2. \A t \in Callers : Past(t) => cur[t] \in used
  BY DEF Past, Refs, NamesClient, Threads
<1>3. \A i \in Ios : pc[i] \in {"notify", "msgcb"} => cur[i] \in used
  BY DEF Refs, NamesClient, Threads
<1>4. \A t \in Callers : Adding(t)' => held'[t] = cur'[t]
  BY DEF ThreadsLast
<1>5. \A u \in used : ~Stopped => Cared(u)'
  <2> SUFFICES ASSUME NEW u \in used, ~Stopped PROVE Cared(u)'
    OBVIOUS
  <2>1. cli'[u].io \in ioVect'
    BY DEF CareInv, Cared, ClientsLast
  <2>2. Kept(u)' \/ Gone(u)'
    BY KeptLasts DEF ClientsLast
  <2>3. cli'[u].sock \/ Ordered(u)'
    BY DEF CareInv, Cared, Ordered, ClientsLast, OrdersLast
  <2> QED BY <2>1, <2>2, <2>3 DEF Cared, Ordered
<1>6. Stopped' \/ \A u \in used' : Cared(u)'
  BY <1>1, <1>5
<1>7. Stopped' \/ \A t \in Callers : Past(t)' => Closing(cur[t])' \/ Gone(cur[t])'
  <2> SUFFICES ASSUME ~Stopped, NEW t \in Callers, Past(t)'
               PROVE  Closing(cur[t])' \/ Gone(cur[t])'
    BY <1>1
  <2>1. CASE Past(t) /\ cur'[t] = cur[t]
    <3>1. PICK v \in used : v = cur[t]
      BY <1>2, <2>1
    <3>2. Closing(v) \/ Gone(v)
      BY <2>1, <3>1 DEF CareInv
    <3>3. Closing(v)' \/ Gone(v)'
      BY <3>2 DEF OrdersLast, ClientsLast
    <3>4. v = cur'[t]
      BY <2>1, <3>1
    <3> QED BY <3>3, <3>4 DEF Closing, CloseAt, OrderAt, Gone
  <2> QED BY <2>1 DEF ThreadsLast
<1>8. \A i \in Ios : pc'[i] = "notify" /\ st'[i] # CONN_SUCCESS => Gone(cur[i])'
  <2> SUFFICES ASSUME NEW i \in Ios, pc'[i] = "notify" /\ st'[i] # CONN_SUCCESS PROVE Gone(cur[i])'
    OBVIOUS
  <2>1. CASE pc[i] = "notify" /\ st[i] # CONN_SUCCESS /\ cur'[i] = cur[i]
    <3>1. PICK v \in used : v = cur[i]
      BY <1>3, <2>1
    <3>2. Gone(v)'
      BY <2>1, <3>1 DEF CareInv, ClientsLast
    <3> QED BY <2>1, <3>1, <3>2 DEF Gone
  <2> QED BY <2>1 DEF ThreadsLast
<1>9. \A i \in Ios : pc'[i] = "msgcb" => cli'[cur'[i]].bev = "up" /\ cli'[cur'[i]].io = i
  <2> SUFFICES ASSUME NEW i \in Ios, pc'[i] = "msgcb", pc[i] = "msgcb", cur'[i] = cur[i]
               PROVE  cli'[cur'[i]].bev = "up" /\ cli'[cur'[i]].io = i
    BY DEF ThreadsLast
  <2>1. PICK v \in used : v = cur[i]
    BY <1>3
  <2>2. cli[v].bev = "up" /\ cli[v].io = i
    BY <2>1 DEF CareInv
  <2>3. ~Gone(v) /\ ~Stopped /\ pc[cli[v].io] # "drain"
    BY <2>2 DEF Gone, Stopped
  <2>4. Kept(v)'
    BY <2>3, KeptLasts
  <2>5. Referenced(v)'
    BY <1>0, <1>4, <2>4, KeptReferencedNext DEF KeepersHold
  <2>6. cli'[v].bev = "up" /\ cli'[v].io = i
    BY <2>2, <2>5 DEF ClientsLast
  <2> QED BY <2>1, <2>6
<1>10. Stopped \/ Freeless
  <2> SUFFICES ASSUME ~Stopped, NEW t \in Callers, pc'[t] # pc[t], NEW u \in Uids, cli[u].bev # "none"
               PROVE  cli'[u].bev # "none"
    BY DEF Freeless
  <2>1. u \in used /\ ~Gone(u) /\ ~CallersRest
    BY DEF Refs, Gone, CallersRest
  <2>2. Kept(u)'
    BY <2>1, KeptLasts
  <2>3. Referenced(u)'
    BY <1>4, <2>2, KeptReferencedNext DEF KeepersHold
  <2> QED BY <2>1, <2>3 DEF ClientsLast
<1>11. /\ \A i \in Ios : \A k \in 1 .. Len(orderDeque'[i]) : cli'[orderDeque'[i][k].uid].io = i
       /\ \A u \in Uids : cli'[u].bev # "none" => cli'[u].sock
  BY DEF OrdersLast, ClientsLast
<1> QED BY <1>4, <1>6, <1>7, <1>8, <1>9, <1>10, <1>11 DEF CareInv

\* Clients that no step but the last reference changes
LEMMA CalmClients ==
  ASSUME TypeOK, CareInv, cli' = cli \/ Clients(cli)
  PROVE  /\ ClientsLast
         /\ \A u \in Uids : cli'[u].io = cli[u].io /\ cli'[u].sock = cli[u].sock
<1>0. cli \in [Uids -> Client] /\ used \subseteq Uids
  BY DEF TypeOK
<1>1. \A u \in Uids : /\ cli'[u].io = cli[u].io /\ cli'[u].sock = cli[u].sock
                       /\ cli'[u].bev \in {cli[u].bev, "none"}
  BY <1>0, ClientsType
<1>2. \A u \in Uids : Referenced(u)' => cli'[u].bev = cli[u].bev
  BY <1>0 DEF Clients
<1>3. \A u \in Uids : cli[u].bev # "none" => cli[u].sock
  BY DEF CareInv
<1>4. \A u \in used : Gone(u) => Gone(u)'
  BY <1>0, <1>1 DEF Gone
<1>5. \A u \in Uids : cli'[u].bev # "none" => cli'[u].sock
  BY <1>1, <1>3
<1> QED BY <1>0, <1>1, <1>2, <1>4, <1>5 DEF ClientsLast

\* Orders that no step changes
LEMMA CalmOrders ==
  ASSUME TypeOK, Refs, CareInv, orderDeque' = orderDeque,
         \A u \in used : cli'[u].io = cli[u].io /\ cli'[u].sock = cli[u].sock
  PROVE  OrdersLast /\ \A u \in used : Closing(u)' <=> Closing(u)
<1>1. \A u \in used : \A k : (OrderAt(u, k)' <=> OrderAt(u, k)) /\ (CloseAt(u, k)' <=> CloseAt(u, k))
  BY DEF OrderAt, CloseAt
<1>2. \A u \in used : (Ordered(u)' <=> Ordered(u)) /\ (Closing(u)' <=> Closing(u))
  BY <1>1 DEF Ordered, Closing
<1>3. \A i \in Ios : \A k \in 1 .. Len(orderDeque'[i]) : cli'[orderDeque'[i][k].uid].io = i
  BY DEF Refs, CareInv
<1> QED BY <1>2, <1>3 DEF OrdersLast

-----------------------------------------------------------------------------
\* Only thread t moves in a step.
OneMoves(t) ==
  \A s \in Threads \ {t} : /\ pc'[s] = pc[s] /\ op'[s] = op[s] /\ cur'[s] = cur[s]
                           /\ held'[s] = held[s] /\ st'[s] = st[s]

\* Thread t begins nothing in a step that CareInv is about.
CallerCalm(t) ==
  /\ Adding(t)' <=> Adding(t)
  /\ Adding(t) => cur'[t] = cur[t] /\ held'[t] = held[t]
  /\ Past(t)' => Past(t) /\ cur'[t] = cur[t]
IoCalm(t) == pc'[t] \notin {"notify", "msgcb"} /\ (pc[t] = "done" => pc'[t] = "done")

\* The threads that do not move are where they were.
LEMMA OthersLast ==
  ASSUME CareInv, NEW t \in Threads, OneMoves(t),
         t \in Ios /\ pc[t] = "done" => pc'[t] = "done",
         t \in Callers => /\ Adding(t)' => held'[t] = cur'[t]
                          /\ Past(t)' => \/ Past(t) /\ cur'[t] = cur[t]
                                         \/ Stopped \/ Closing(cur[t])' \/ Gone(cur[t])',
         t \in Ios => /\ pc'[t] = "notify" /\ st'[t] # CONN_SUCCESS =>
                           \/ pc[t] = "notify" /\ st[t] # CONN_SUCCESS /\ cur'[t] = cur[t]
                           \/ Gone(cur[t])'
                      /\ pc'[t] = "msgcb" =>
                           \/ pc[t] = "msgcb" /\ cur'[t] = cur[t]
                           \/ cli'[cur'[t]].bev = "up" /\ cli'[cur'[t]].io = t
  PROVE  /\ ThreadsLast
         /\ \A u \in Uids : Entering(u) => Entering(u)' \/ (t \in Callers /\ Adding(t) /\ cur[t] = u)
<1>0. Callers \subseteq Threads /\ Ios \subseteq Threads
  BY DEF Threads
<1>1. \A s \in Callers \ {t} :
        (Adding(s)' <=> Adding(s)) /\ (Past(s)' <=> Past(s)) /\ cur'[s] = cur[s] /\ held'[s] = held[s]
  BY <1>0 DEF OneMoves, Adding, Past
<1>2. \A i \in Ios \ {t} : pc'[i] = pc[i] /\ st'[i] = st[i] /\ cur'[i] = cur[i]
  BY <1>0 DEF OneMoves
<1>3. Stopped => Stopped'
  BY <1>2 DEF Stopped
<1>4. \A s \in Callers : Adding(s)' => held'[s] = cur'[s]
  BY <1>1 DEF CareInv
<1>5. \A s \in Callers : Past(s)' =>
        \/ Past(s) /\ cur'[s] = cur[s]
        \/ Stopped \/ Closing(cur[s])' \/ Gone(cur[s])'
  <2> SUFFICES ASSUME NEW s \in Callers, Past(s)'
               PROVE  \/ Past(s) /\ cur'[s] = cur[s]
                      \/ Stopped \/ Closing(cur[s])' \/ Gone(cur[s])'
    OBVIOUS
  <2>1. CASE s = t
    BY <2>1
  <2>2. CASE s # t
    BY <1>1, <2>2
  <2> QED BY <2>1, <2>2
<1>6. \A i \in Ios : pc'[i] = "notify" /\ st'[i] # CONN_SUCCESS =>
        \/ pc[i] = "notify" /\ st[i] # CONN_SUCCESS /\ cur'[i] = cur[i]
        \/ Gone(cur[i])'
  <2> SUFFICES ASSUME NEW i \in Ios, pc'[i] = "notify", st'[i] # CONN_SUCCESS
               PROVE  \/ pc[i] = "notify" /\ st[i] # CONN_SUCCESS /\ cur'[i] = cur[i]
                      \/ Gone(cur[i])'
    OBVIOUS
  <2>1. CASE i = t
    BY <2>1
  <2>2. CASE i # t
    BY <1>2, <2>2
  <2> QED BY <2>1, <2>2
<1>7. \A i \in Ios : pc'[i] = "msgcb" =>
        \/ pc[i] = "msgcb" /\ cur'[i] = cur[i]
        \/ cli'[cur'[i]].bev = "up" /\ cli'[cur'[i]].io = i
  BY <1>2
<1>8. \A u \in Uids : Entering(u) => Entering(u)' \/ (t \in Callers /\ Adding(t) /\ cur[t] = u)
  BY <1>1 DEF Entering
<1> QED BY <1>3, <1>4, <1>5, <1>6, <1>7, <1>8 DEF ThreadsLast

\* A calm step of one thread
LEMMA CalmThreads ==
  ASSUME CareInv, NEW t \in Threads, OneMoves(t),
         t \in Callers => CallerCalm(t), t \in Ios => IoCalm(t)
  PROVE  ThreadsLast /\ \A u \in Uids : Entering(u) => Entering(u)'
<1>1. t \in Callers => (Adding(t)' => held'[t] = cur'[t]) /\ (Past(t)' => Past(t) /\ cur'[t] = cur[t])
  BY DEF CallerCalm, CareInv
<1>2. t \in Ios => pc'[t] # "notify" /\ pc'[t] # "msgcb" /\ (pc[t] = "done" => pc'[t] = "done")
  BY DEF IoCalm
<1>3. \A u \in Uids : t \in Callers /\ Adding(t) /\ cur[t] = u => Entering(u)'
  BY DEF CallerCalm, Entering
<1>4. /\ ThreadsLast
      /\ \A u \in Uids : Entering(u) => Entering(u)' \/ (t \in Callers /\ Adding(t) /\ cur[t] = u)
  BY <1>1, <1>2, OthersLast
<1> QED BY <1>3, <1>4

\* A step that neither queues nor takes off an order nor touches the map, and
\* changes clients by dropping a reference only
CareQuiet ==
  /\ orderDeque' = orderDeque /\ ioVect \subseteq ioVect' /\ used' = used /\ connMap' = connMap
  /\ cli' = cli \/ Clients(cli)
  /\ \E t \in Threads : /\ OneMoves(t)
                        /\ t \in Callers => CallerCalm(t)
                        /\ t \in Ios => IoCalm(t)

\* Such a step keeps CareInv.
LEMMA QuietCare ==
  ASSUME TypeOK, Refs, CareInv, TypeOK', CareQuiet
  PROVE  CareInv' /\ (Stopped \/ Freeless)
<1>1. PICK t \in Threads : OneMoves(t) /\ (t \in Callers => CallerCalm(t)) /\ (t \in Ios => IoCalm(t))
  BY DEF CareQuiet
<1>2. ThreadsLast /\ \A u \in Uids : Entering(u) => Entering(u)'
  BY <1>1, CalmThreads
<1>3. ClientsLast /\ \A u \in Uids : cli'[u].io = cli[u].io /\ cli'[u].sock = cli[u].sock
  BY CalmClients DEF CareQuiet
<1>4. OrdersLast
  BY <1>3, CalmOrders DEF CareQuiet, TypeOK
<1>5. EntriesLast
  BY <1>2 DEF EntriesLast, CareQuiet
<1>6. used \subseteq used' /\ ioVect \subseteq ioVect' /\ \A u \in used' \ used : Cared(u)'
  BY DEF CareQuiet
<1> QED BY <1>2, <1>3, <1>4, <1>5, <1>6, CareKeeps

-----------------------------------------------------------------------------
\* An order that is queued leaves the others where they are ...
LEMMA OrderQueued ==
  ASSUME orderDeque \in [Ios -> Seq(Order)], NEW i \in Ios, NEW o \in Order, Enqueue(i, o)
  PROVE  /\ \A j \in Ios : \A k \in 1 .. Len(orderDeque[j]) :
              k \in 1 .. Len(orderDeque'[j]) /\ orderDeque'[j][k] = orderDeque[j][k]
         /\ \A j \in Ios : \A k \in 1 .. Len(orderDeque'[j]) :
              k \in 1 .. Len(orderDeque[j]) \/ (j = i /\ orderDeque'[j][k] = o)
         /\ orderDeque'[i][Len(orderDeque[i]) + 1] = o
         /\ Len(orderDeque[i]) + 1 \in 1 .. Len(orderDeque'[i])
<1>1. /\ orderDeque'[i] = Append(orderDeque[i], o)
      /\ \A j \in Ios \ {i} : orderDeque'[j] = orderDeque[j]
  BY DEF Enqueue
<1>2. PICK q \in Seq(Order) : q = orderDeque[i]
  OBVIOUS
<1>3. PICK n \in Nat : n = Len(q)
  OBVIOUS
<1>4. /\ Len(Append(q, o)) = n + 1
      /\ \A k \in 1 .. n : Append(q, o)[k] = q[k]
      /\ Append(q, o)[n + 1] = o
  BY <1>3
<1>5. n + 1 \in 1 .. (n + 1) /\ 1 .. (n + 1) = (1 .. n) \cup {n + 1}
  OBVIOUS
<1>6. orderDeque'[i] = Append(q, o)
  BY <1>1, <1>2
<1>7. /\ \A k \in 1 .. Len(orderDeque[i]) :
           k \in 1 .. Len(orderDeque'[i]) /\ orderDeque'[i][k] = orderDeque[i][k]
      /\ \A k \in 1 .. Len(orderDeque'[i]) : k \in 1 .. Len(orderDeque[i]) \/ orderDeque'[i][k] = o
  BY <1>2, <1>3, <1>4, <1>5, <1>6
<1>8. /\ orderDeque'[i][Len(orderDeque[i]) + 1] = o
      /\ Len(orderDeque[i]) + 1 \in 1 .. Len(orderDeque'[i])
  BY <1>2, <1>3, <1>4, <1>5, <1>6
<1> QED BY <1>1, <1>7, <1>8

\* ... and so the clients that wait for theirs go on doing so.
LEMMA QueuedLast ==
  ASSUME TypeOK, Refs, CareInv, NEW i \in Ios, NEW o \in Order, Enqueue(i, o),
         \A u \in used : cli'[u].io = cli[u].io /\ cli'[u].sock = cli[u].sock,
         cli'[o.uid].io = i
  PROVE  OrdersLast
<1>0. /\ orderDeque \in [Ios -> Seq(Order)] /\ cli \in [Uids -> Client] /\ used \subseteq Uids
      /\ \A u \in Uids : cli[u].io \in Ios
  BY DEF TypeOK, Client
<1>1. \A j \in Ios : \A k \in 1 .. Len(orderDeque[j]) :
        k \in 1 .. Len(orderDeque'[j]) /\ orderDeque'[j][k] = orderDeque[j][k]
  BY <1>0, OrderQueued
<1>2. \A j \in Ios : \A k \in 1 .. Len(orderDeque'[j]) :
        k \in 1 .. Len(orderDeque[j]) \/ (j = i /\ orderDeque'[j][k] = o)
  BY <1>0, OrderQueued
<1>3. \A u \in used : \A k : (OrderAt(u, k) => OrderAt(u, k)') /\ (CloseAt(u, k) => CloseAt(u, k)')
  BY <1>0, <1>1 DEF OrderAt, CloseAt
<1>4. \A u \in used : (Ordered(u) => Ordered(u)') /\ (Closing(u) => Closing(u)')
  BY <1>3 DEF Ordered, Closing
<1>5. \A j \in Ios : \A k \in 1 .. Len(orderDeque'[j]) : cli'[orderDeque'[j][k].uid].io = j
  <2> SUFFICES ASSUME NEW j \in Ios, NEW k \in 1 .. Len(orderDeque'[j])
               PROVE  cli'[orderDeque'[j][k].uid].io = j
    OBVIOUS
  <2>1. CASE k \in 1 .. Len(orderDeque[j])
    <3>1. orderDeque'[j][k] = orderDeque[j][k] /\ orderDeque[j][k].uid \in used
      BY <1>1, <2>1 DEF Refs
    <3>2. cli[orderDeque[j][k].uid].io = j
      BY <2>1 DEF CareInv
    <3> QED BY <3>1, <3>2
  <2>2. CASE j = i /\ orderDeque'[j][k] = o
    BY <2>2
  <2> QED BY <1>2, <2>1, <2>2
<1> QED BY <1>4, <1>5 DEF OrdersLast

\* An order that is taken off: the others move up.
LEMMA OrderTaken ==
  ASSUME orderDeque \in [Ios -> Seq(Order)], NEW i \in Ios, orderDeque[i] # <<>>,
         orderDeque' = [orderDeque EXCEPT ![i] = Tail(orderDeque[i])]
  PROVE  /\ \A j \in Ios \ {i} : orderDeque'[j] = orderDeque[j]
         /\ 1 \in 1 .. Len(orderDeque[i]) /\ orderDeque[i][1] = Head(orderDeque[i])
         /\ \A k \in 1 .. Len(orderDeque[i]) : k # 1 =>
              k - 1 \in 1 .. Len(orderDeque'[i]) /\ orderDeque'[i][k - 1] = orderDeque[i][k]
         /\ \A k \in 1 .. Len(orderDeque'[i]) :
              k + 1 \in 1 .. Len(orderDeque[i]) /\ orderDeque'[i][k] = orderDeque[i][k + 1]
<1>1. /\ orderDeque'[i] = Tail(orderDeque[i])
      /\ \A j \in Ios \ {i} : orderDeque'[j] = orderDeque[j]
  OBVIOUS
<1>2. PICK q \in Seq(Order) : q = orderDeque[i]
  OBVIOUS
<1>3. PICK n \in Nat : n = Len(q)
  OBVIOUS
<1>4. q # <<>> /\ n # 0
  BY <1>2, <1>3
<1>5. /\ Len(Tail(q)) = n - 1 /\ Head(q) = q[1]
      /\ \A k \in 1 .. (n - 1) : Tail(q)[k] = q[k + 1]
  BY <1>3, <1>4
<1>6. /\ 1 \in 1 .. n
      /\ \A k \in 1 .. n : k # 1 => k - 1 \in 1 .. (n - 1) /\ (k - 1) + 1 = k
      /\ \A k \in 1 .. (n - 1) : k + 1 \in 1 .. n
  BY <1>4
<1>7. \A k \in 1 .. n : k # 1 => Tail(q)[k - 1] = q[k]
  BY <1>5, <1>6
<1> QED BY <1>1, <1>2, <1>3, <1>5, <1>6, <1>7

\* The orders about a client that is not the next one are the same, and those
\* behind the next one are kept.
LEMMA TakenLast ==
  ASSUME TypeOK, Refs, CareInv, NEW i \in Ios, orderDeque[i] # <<>>,
         orderDeque' = [orderDeque EXCEPT ![i] = Tail(orderDeque[i])],
         \A u \in used : cli'[u].io = cli[u].io,
         \A u \in used : cli[u].sock => cli'[u].sock,
         \A u \in used : Ordered(u) => cli'[u].sock \/ u # NextUid(i),
         \A u \in used : u = NextUid(i) /\ cli[u].sock /\ ~Head(orderDeque[i]).msg =>
           Gone(u)' /\ pc[i] = "drain" /\ CallersRest
  PROVE  OrdersLast
<1>0. /\ orderDeque \in [Ios -> Seq(Order)] /\ cli \in [Uids -> Client] /\ used \subseteq Uids
      /\ \A u \in Uids : cli[u].io \in Ios
  BY DEF TypeOK, Client
<1>1. \A j \in Ios \ {i} : orderDeque'[j] = orderDeque[j]
  BY <1>0, OrderTaken
<1>2. 1 \in 1 .. Len(orderDeque[i]) /\ orderDeque[i][1] = Head(orderDeque[i])
  BY <1>0, OrderTaken
<1>3. \A k \in 1 .. Len(orderDeque[i]) : k # 1 =>
        k - 1 \in 1 .. Len(orderDeque'[i]) /\ orderDeque'[i][k - 1] = orderDeque[i][k]
  BY <1>0, OrderTaken
<1>4. \A k \in 1 .. Len(orderDeque'[i]) :
        k + 1 \in 1 .. Len(orderDeque[i]) /\ orderDeque'[i][k] = orderDeque[i][k + 1]
  BY <1>0, OrderTaken
<1>5. NextUid(i) \in used /\ cli[NextUid(i)].io = i
  BY <1>2 DEF NextUid, Refs, CareInv
\* in the other deques
<1>6. ASSUME NEW u \in used, cli[u].io # i
      PROVE  (Ordered(u) => Ordered(u)') /\ (Closing(u) => Closing(u)')
  <2>1. orderDeque'[cli[u].io] = orderDeque[cli[u].io]
    BY <1>0, <1>1, <1>6
  <2>2. \A k : (OrderAt(u, k) => OrderAt(u, k)') /\ (CloseAt(u, k) => CloseAt(u, k)')
    BY <2>1 DEF OrderAt, CloseAt
  <2> QED BY <2>2 DEF Ordered, Closing
\* in this one
<1>7. ASSUME NEW u \in used, cli[u].io = i, NEW k \in Nat, OrderAt(u, k), k # 1
      PROVE  k - 1 \in Nat /\ OrderAt(u, k - 1)' /\ (CloseAt(u, k) => CloseAt(u, k - 1)')
  <2>1. k \in 1 .. Len(orderDeque[i]) /\ orderDeque[i][k].uid = u
    BY <1>7 DEF OrderAt
  <2>2. k - 1 \in 1 .. Len(orderDeque'[i]) /\ orderDeque'[i][k - 1] = orderDeque[i][k]
    BY <1>3, <1>7, <2>1
  <2>3. k - 1 \in Nat
    BY <1>7, <2>1
  <2>4. cli'[u].io = i
    BY <1>7
  <2> QED BY <1>7, <2>1, <2>2, <2>3, <2>4 DEF OrderAt, CloseAt
<1>8. \A u \in used : OrderAt(u, 1) /\ cli[u].io = i => u = NextUid(i)
  BY <1>2 DEF OrderAt, NextUid
<1>9. \A u \in used : Ordered(u) => cli'[u].sock \/ Ordered(u)'
  <2> SUFFICES ASSUME NEW u \in used, Ordered(u), ~cli'[u].sock PROVE Ordered(u)'
    OBVIOUS
  <2>1. CASE cli[u].io = i
    <3>1. PICK k \in Nat : OrderAt(u, k)
      BY DEF Ordered
    <3>2. u # NextUid(i)
      OBVIOUS
    <3>3. k # 1
      BY <1>8, <2>1, <3>1, <3>2
    <3>4. k - 1 \in Nat /\ OrderAt(u, k - 1)'
      BY <1>7, <2>1, <3>1, <3>3
    <3>5. PICK m \in Nat : m = k - 1
      BY <3>4
    <3> QED BY <3>4, <3>5 DEF Ordered, OrderAt
  <2> QED BY <1>6, <2>1
<1>10. \A u \in used : Closing(u) => Closing(u)' \/ (Gone(u)' /\ pc[cli[u].io] = "drain" /\ CallersRest)
  <2> SUFFICES ASSUME NEW u \in used, Closing(u), cli[u].io = i,
                      ~(Gone(u)' /\ pc[cli[u].io] = "drain" /\ CallersRest)
               PROVE  Closing(u)'
    BY <1>6
  <2>1. PICK k \in Nat : CloseAt(u, k) /\ (cli[u].sock \/ \E j \in 1 .. k - 1 : OrderAt(u, j))
    BY DEF Closing
  <2>2. OrderAt(u, k) /\ k \in 1 .. Len(orderDeque[i])
    BY <2>1 DEF CloseAt, OrderAt
  <2>3. k # 1
    <3>1. ASSUME k = 1 PROVE FALSE
      <4>1. u = NextUid(i) /\ ~Head(orderDeque[i]).msg
        BY <1>2, <1>8, <2>1, <3>1 DEF CloseAt, OrderAt
      <4>2. ~cli[u].sock
        BY <4>1
      <4>3. \E j \in 1 .. k - 1 : TRUE
        BY <2>1, <4>2
      <4> QED BY <3>1, <4>3
    <3> QED BY <3>1
  <2>4. k - 1 \in Nat /\ CloseAt(u, k - 1)'
    BY <1>7, <2>1, <2>2, <2>3
  <2>5. CASE cli[u].sock
    <3>1. cli'[u].sock
      BY <2>5
    <3>2. PICK m \in Nat : m = k - 1
      BY <2>4
    <3>3. CloseAt(u, m)'
      BY <2>4, <3>2
    <3> QED BY <3>1, <3>3 DEF Closing
  <2>6. CASE ~cli[u].sock
    <3>1. PICK m \in Nat : m = k - 1
      BY <2>4
    <3>2. CloseAt(u, m)'
      BY <2>4, <3>1
    <3>3. CASE cli'[u].sock
      BY <3>2, <3>3 DEF Closing
    <3>4. CASE ~cli'[u].sock
      <4>1. PICK j \in 1 .. k - 1 : OrderAt(u, j)
        BY <2>1, <2>6
      <4>2. j \in Nat /\ j # 1
        <5>1. j \in Nat
          BY <2>2
        <5>2. Ordered(u)
          BY <4>1, <5>1 DEF Ordered
        <5>3. u # NextUid(i)
          BY <3>4, <5>2
        <5> QED BY <1>8, <4>1, <5>1, <5>3
      <4>3. OrderAt(u, j - 1)'
        BY <1>7, <4>1, <4>2
      <4>4. j - 1 \in 1 .. m - 1
        BY <2>2, <3>1, <4>2
      <4> QED BY <3>2, <4>3, <4>4 DEF Closing
    <3> QED BY <3>3, <3>4
  <2> QED BY <2>5, <2>6
<1>11. \A j \in Ios : \A k \in 1 .. Len(orderDeque'[j]) : cli'[orderDeque'[j][k].uid].io = j
  <2> SUFFICES ASSUME NEW j \in Ios, NEW k \in 1 .. Len(orderDeque'[j])
               PROVE  cli'[orderDeque'[j][k].uid].io = j
    OBVIOUS
  <2>1. \E m \in 1 .. Len(orderDeque[j]) : orderDeque'[j][k] = orderDeque[j][m]
    BY <1>1, <1>4
  <2> QED BY <2>1 DEF Refs, CareInv
<1> QED BY <1>9, <1>10, <1>11 DEF OrdersLast

-----------------------------------------------------------------------------
\* Most steps are calm.
LEMMA CareMost ==
  ASSUME ~ConnectMayFail, TypeOK, ServeInv, [Next]_vars
  PROVE  \/ CareQuiet
         \/ \E t \in Callers : SendOrder(t) \/ DiscOrder(t) \/ Insert(t) \/ \E u \in Uids : AddOrder(t, u)
         \/ \E t \in Users : ExitJoin(t)
         \/ \E t \in Threads : Notify(t)
         \/ \E i \in Ios : DealConnect(i) \/ DealSend(i) \/ OnMessageEnd(i)
         \/ \E i \in Ios, u \in Uids : NetEvent(i, u) \/ OnMessage(i, u) \/ OnMessageExpired(i, u)
<1> USE ThreadAssumption DEF mgrVars, ioVars, thVars, boundVars
<1>0. /\ pc \in [Threads -> CallerPcs \cup IoPcs] /\ op \in [Threads -> Ops]
      /\ cur \in [Threads -> Uids \cup {NoUid}] /\ held \in [Threads -> Uids \cup {NoUid}]
      /\ st \in [Threads -> States] /\ orderDeque \in [Ios -> Seq(Order)]
  BY DEF TypeOK
<1>1. /\ Users \subseteq Callers /\ Callers \subseteq Threads /\ Ios \subseteq Threads
      /\ Expirer \in Callers /\ Callers \cap Ios = {}
  BY DEF Threads, Callers
\* a caller that is in none of the places CareInv is about
<1>a. ASSUME NEW t \in Callers, OneMoves(t), pc[t] \notin {"wake", "insert"},
             pc'[t] \notin {"wake", "insert", "state", "notify"},
             orderDeque' = orderDeque, ioVect' = ioVect, used' = used, connMap' = connMap,
             cli' = cli \/ Clients(cli)
      PROVE  CareQuiet
  <2>1. CallerCalm(t)
    BY <1>a DEF CallerCalm, Adding, Past
  <2> QED BY <1>1, <1>a, <2>1 DEF CareQuiet
\* an IO thread that begins no report
<1>b. ASSUME NEW i \in Ios, OneMoves(i), pc'[i] \notin {"notify", "msgcb"}, pc[i] # "done",
             orderDeque' = orderDeque, ioVect \subseteq ioVect', used' = used, connMap' = connMap,
             cli' = cli \/ Clients(cli)
      PROVE  CareQuiet
  <2>1. IoCalm(i)
    BY <1>b DEF IoCalm
  <2> QED BY <1>1, <1>b, <2>1 DEF CareQuiet
<1>2. ASSUME NEW t \in Users, InitStart(t)
      PROVE  CareQuiet
  <2>1. /\ OneMoves(t) /\ pc[t] \notin {"wake", "insert"} /\ t \in Callers
        /\ pc'[t] \notin {"wake", "insert", "state", "notify"}
    BY <1>0, <1>1, <1>2 DEF InitStart, OneMoves, Goto
  <2>2. /\ orderDeque' = orderDeque /\ ioVect' = ioVect /\ used' = used /\ connMap' = connMap
        /\ cli' = cli \/ Clients(cli)
    BY <1>2 DEF InitStart
  <2> QED BY <1>a, <2>1, <2>2
<1>3. ASSUME NEW t \in Users, InitDone(t)
      PROVE  CareQuiet
  <2>1. /\ OneMoves(t) /\ pc[t] \notin {"wake", "insert"} /\ t \in Callers
        /\ pc'[t] \notin {"wake", "insert", "state", "notify"}
    BY <1>0, <1>1, <1>3 DEF InitDone, OneMoves, Goto
  <2>2. /\ orderDeque' = orderDeque /\ ioVect' = ioVect /\ used' = used /\ connMap' = connMap
        /\ cli' = cli \/ Clients(cli)
    BY <1>3 DEF InitDone
  <2> QED BY <1>a, <2>1, <2>2
<1>4. ASSUME NEW t \in Users, ExitCall(t)
      PROVE  CareQuiet
  <2>1. /\ OneMoves(t) /\ pc[t] \notin {"wake", "insert"} /\ t \in Callers
        /\ pc'[t] \notin {"wake", "insert", "state", "notify"}
    BY <1>0, <1>1, <1>4 DEF ExitCall, OneMoves, Goto
  <2>2. /\ orderDeque' = orderDeque /\ ioVect' = ioVect /\ used' = used /\ connMap' = connMap
        /\ cli' = cli \/ Clients(cli)
    BY <1>4 DEF ExitCall
  <2> QED BY <1>a, <2>1, <2>2
<1>5. ASSUME NEW t \in Users, ExitWrite(t)
      PROVE  CareQuiet
  <2>1. /\ OneMoves(t) /\ pc[t] \notin {"wake", "insert"} /\ t \in Callers
        /\ pc'[t] \notin {"wake", "insert", "state", "notify"}
    BY <1>0, <1>1, <1>5 DEF ExitWrite, OneMoves, Goto
  <2>2. /\ orderDeque' = orderDeque /\ ioVect' = ioVect /\ used' = used /\ connMap' = connMap
        /\ cli' = cli \/ Clients(cli)
    BY <1>5 DEF ExitWrite
  <2> QED BY <1>a, <2>1, <2>2
<1>6. ASSUME NEW t \in Users, ExitSpin(t)
      PROVE  CareQuiet
  <2>1. /\ OneMoves(t) /\ pc[t] \notin {"wake", "insert"} /\ t \in Callers
        /\ pc'[t] \notin {"wake", "insert", "state", "notify"}
    BY <1>0, <1>1, <1>6 DEF ExitSpin, OneMoves, Goto
  <2>2. /\ orderDeque' = orderDeque /\ ioVect' = ioVect /\ used' = used /\ connMap' = connMap
        /\ cli' = cli \/ Clients(cli)
    BY <1>6 DEF ExitSpin
  <2> QED BY <1>a, <2>1, <2>2
<1>7. ASSUME NEW t \in Users, NEW u \in Uids \cup {NoUid},
             NEW o \in {"add", "send", "reset", "disc"}, Call(t, o, u)
      PROVE  CareQuiet
  <2>1. /\ OneMoves(t) /\ pc[t] \notin {"wake", "insert"} /\ t \in Callers
        /\ pc'[t] \notin {"wake", "insert", "state", "notify"}
    BY <1>0, <1>1, <1>7 DEF Call, OneMoves, Goto
  <2>2. /\ orderDeque' = orderDeque /\ ioVect' = ioVect /\ used' = used /\ connMap' = connMap
        /\ cli' = cli \/ Clients(cli)
    BY <1>7 DEF Call
  <2> QED BY <1>a, <2>1, <2>2
<1>8. ASSUME NEW t \in Callers, WaitReady(t)
      PROVE  CareQuiet
  <2>1. /\ OneMoves(t) /\ pc[t] \notin {"wake", "insert"} /\ t \in Callers
        /\ pc'[t] \notin {"wake", "insert", "state", "notify"}
    BY <1>0, <1>1, <1>8 DEF WaitReady, OneMoves, Goto
  <2>2. /\ orderDeque' = orderDeque /\ ioVect' = ioVect /\ used' = used /\ connMap' = connMap
        /\ cli' = cli \/ Clients(cli)
    BY <1>8 DEF WaitReady
  <2> QED BY <1>a, <2>1, <2>2
<1>9. ASSUME NEW t \in Callers, Lookup(t)
      PROVE  CareQuiet
  <2>1. /\ OneMoves(t) /\ pc[t] \notin {"wake", "insert"} /\ t \in Callers
        /\ pc'[t] \notin {"wake", "insert", "state", "notify"}
    BY <1>0, <1>1, <1>9 DEF Lookup, OneMoves, Goto, Return, ReturnPc
  <2>2. /\ orderDeque' = orderDeque /\ ioVect' = ioVect /\ used' = used /\ connMap' = connMap
        /\ cli' = cli \/ Clients(cli)
    BY <1>9 DEF Lookup
  <2> QED BY <1>a, <2>1, <2>2
<1>10. ASSUME NEW t \in Callers, CallAgain(t)
      PROVE  CareQuiet
  <2>1. /\ OneMoves(t) /\ pc[t] \notin {"wake", "insert"} /\ t \in Callers
        /\ pc'[t] \notin {"wake", "insert", "state", "notify"}
    BY <1>0, <1>1, <1>10 DEF CallAgain, OneMoves, Goto, Return, ReturnPc
  <2>2. /\ orderDeque' = orderDeque /\ ioVect' = ioVect /\ used' = used /\ connMap' = connMap
        /\ cli' = cli \/ Clients(cli)
    BY <1>10 DEF CallAgain
  <2> QED BY <1>a, <2>1, <2>2
<1>11. ASSUME NEW t \in Callers, ResetPrivate(t)
      PROVE  CareQuiet
  <2>1. /\ OneMoves(t) /\ pc[t] \notin {"wake", "insert"} /\ t \in Callers
        /\ pc'[t] \notin {"wake", "insert", "state", "notify"}
    BY <1>0, <1>1, <1>11 DEF ResetPrivate, OneMoves, Goto, Return, ReturnPc
  <2>2. /\ orderDeque' = orderDeque /\ ioVect' = ioVect /\ used' = used /\ connMap' = connMap
        /\ cli' = cli \/ Clients(cli)
    BY <1>11 DEF ResetPrivate
  <2> QED BY <1>a, <2>1, <2>2
<1>12. ASSUME NEW t \in Callers, Callback(t)
      PROVE  CareQuiet
  <2>1. /\ OneMoves(t) /\ pc[t] \notin {"wake", "insert"} /\ t \in Callers
        /\ pc'[t] \notin {"wake", "insert", "state", "notify"}
    BY <1>0, <1>1, <1>12 DEF Callback, OneMoves, Goto, Resume, Return, ReturnPc
  <2>2. /\ orderDeque' = orderDeque /\ ioVect' = ioVect /\ used' = used /\ connMap' = connMap
        /\ cli' = cli \/ Clients(cli)
    BY <1>12 DEF Callback
  <2> QED BY <1>a, <2>1, <2>2
<1>13. ASSUME ExpireTop
      PROVE  CareQuiet
  <2>1. /\ OneMoves(Expirer) /\ pc[Expirer] \notin {"wake", "insert"} /\ Expirer \in Callers
        /\ pc'[Expirer] \notin {"wake", "insert", "state", "notify"}
    BY <1>0, <1>1, <1>13 DEF ExpireTop, OneMoves, Goto
  <2>2. /\ orderDeque' = orderDeque /\ ioVect' = ioVect /\ used' = used /\ connMap' = connMap
        /\ cli' = cli \/ Clients(cli)
    BY <1>13 DEF ExpireTop
  <2> QED BY <1>a, <2>1, <2>2
<1>14. ASSUME ExpireScan
      PROVE  CareQuiet
  <2>1. /\ OneMoves(Expirer) /\ pc[Expirer] \notin {"wake", "insert"} /\ Expirer \in Callers
        /\ pc'[Expirer] \notin {"wake", "insert", "state", "notify"}
    BY <1>0, <1>1, <1>14 DEF ExpireScan, OneMoves, Goto
  <2>2. /\ orderDeque' = orderDeque /\ ioVect' = ioVect /\ used' = used /\ connMap' = connMap
        /\ cli' = cli \/ Clients(cli)
    BY <1>14 DEF ExpireScan
  <2> QED BY <1>a, <2>1, <2>2
<1>15. ASSUME ExpireNext
      PROVE  CareQuiet
  <2>1. /\ OneMoves(Expirer) /\ pc[Expirer] \notin {"wake", "insert"} /\ Expirer \in Callers
        /\ pc'[Expirer] \notin {"wake", "insert", "state", "notify"}
    BY <1>0, <1>1, <1>15 DEF ExpireNext, OneMoves, Goto
  <2>2. /\ orderDeque' = orderDeque /\ ioVect' = ioVect /\ used' = used /\ connMap' = connMap
        /\ cli' = cli \/ Clients(cli)
    BY <1>15 DEF ExpireNext
  <2> QED BY <1>a, <2>1, <2>2
<1>16. ASSUME ExpireSleep
      PROVE  CareQuiet
  <2>1. /\ OneMoves(Expirer) /\ pc[Expirer] \notin {"wake", "insert"} /\ Expirer \in Callers
        /\ pc'[Expirer] \notin {"wake", "insert", "state", "notify"}
    BY <1>0, <1>1, <1>16 DEF ExpireSleep, OneMoves, Goto
  <2>2. /\ orderDeque' = orderDeque /\ ioVect' = ioVect /\ used' = used /\ connMap' = connMap
        /\ cli' = cli \/ Clients(cli)
    BY <1>16 DEF ExpireSleep
  <2> QED BY <1>a, <2>1, <2>2
<1>17. ASSUME NEW t \in Callers, Wakeup(t)
      PROVE  CareQuiet
  <2>1. OneMoves(t)
    BY <1>0, <1>1, <1>17 DEF Wakeup, OneMoves, Return, Goto
  <2>2. pc[t] = "wake" /\ t \in Threads
    BY <1>1, <1>17 DEF Wakeup
  <2>3. CASE op[t] = "send"
    <3>1. pc'[t] \in {"idle", "exNext"}
      BY <1>0, <1>17, <2>2, <2>3 DEF Wakeup, Return, ReturnPc, Goto
    <3> QED BY <1>17, <2>1, <2>2, <2>3, <3>1 DEF Wakeup, CareQuiet, CallerCalm, Adding, Past
  <2>4. CASE op[t] = "add"
    <3>1. pc'[t] = "insert" /\ cur' = cur /\ held' = held
      BY <1>0, <1>17, <2>2, <2>4 DEF Wakeup, Goto
    <3> QED BY <1>17, <2>1, <2>2, <2>4, <3>1 DEF Wakeup, CareQuiet, CallerCalm, Adding, Past
  <2>5. CASE op[t] \notin {"send", "add"}
    <3>1. pc'[t] = "state" /\ cur' = cur /\ held' = held /\ op' = op
      BY <1>0, <1>17, <2>2, <2>5 DEF Wakeup, Goto
    <3> QED BY <1>17, <2>1, <2>2, <2>5, <3>1 DEF Wakeup, CareQuiet, CallerCalm, Adding, Past
  <2> QED BY <2>3, <2>4, <2>5
<1>18. ASSUME NEW t \in Callers, ReadState(t)
      PROVE  CareQuiet
  <2>1. OneMoves(t) /\ pc[t] = "state" /\ pc'[t] = "notify" /\ cur' = cur /\ t \in Threads
    BY <1>0, <1>1, <1>18 DEF ReadState, OneMoves, Goto
  <2> QED BY <1>18, <2>1 DEF ReadState, CareQuiet, CallerCalm, Adding, Past
<1>19. ASSUME NEW i \in Ios, IoReady(i)
      PROVE  CareQuiet
  <2>1. OneMoves(i) /\ pc[i] # "done" /\ pc'[i] \notin {"notify", "msgcb"}
    BY <1>0, <1>1, <1>19 DEF IoReady, OneMoves, Goto
  <2>2. /\ orderDeque' = orderDeque /\ ioVect' = ioVect /\ used' = used /\ connMap' = connMap
        /\ cli' = cli \/ Clients(cli)
    BY <1>19 DEF IoReady
  <2> QED BY <1>b, <2>1, <2>2
<1>20. ASSUME NEW i \in Ios, HandleRead(i)
      PROVE  CareQuiet
  <2>1. OneMoves(i) /\ pc[i] # "done" /\ pc'[i] \notin {"notify", "msgcb"}
    BY <1>0, <1>1, <1>20 DEF HandleRead, OneMoves, Goto
  <2>2. /\ orderDeque' = orderDeque /\ ioVect' = ioVect /\ used' = used /\ connMap' = connMap
        /\ cli' = cli \/ Clients(cli)
    BY <1>20 DEF HandleRead
  <2> QED BY <1>b, <2>1, <2>2
<1>21. ASSUME NEW i \in Ios, DrainEnd(i)
      PROVE  CareQuiet
  <2>1. OneMoves(i) /\ pc[i] # "done" /\ pc'[i] \notin {"notify", "msgcb"}
    BY <1>0, <1>1, <1>21 DEF DrainEnd, OneMoves, Goto
  <2>2. /\ orderDeque' = orderDeque /\ ioVect' = ioVect /\ used' = used /\ connMap' = connMap
        /\ cli' = cli \/ Clients(cli)
    BY <1>21 DEF DrainEnd
  <2> QED BY <1>b, <2>1, <2>2
<1>22. ASSUME NEW i \in Ios, IoLeave(i)
      PROVE  CareQuiet
  <2>1. OneMoves(i) /\ pc[i] # "done" /\ pc'[i] \notin {"notify", "msgcb"}
    BY <1>0, <1>1, <1>22 DEF IoLeave, OneMoves, Goto
  <2>2. /\ orderDeque' = orderDeque /\ ioVect' = ioVect /\ used' = used /\ connMap' = connMap
        /\ cli' = cli \/ Clients(cli)
    BY <1>22 DEF IoLeave
  <2> QED BY <1>b, <2>1, <2>2
<1>23. ASSUME NEW i \in Ios, IoCheckExit(i)
      PROVE  CareQuiet
  <2>1. OneMoves(i) /\ pc[i] # "done" /\ pc'[i] \notin {"notify", "msgcb"}
    BY <1>0, <1>1, <1>23 DEF IoCheckExit, OneMoves, Goto
  <2>2. /\ orderDeque' = orderDeque /\ ioVect' = ioVect /\ used' = used /\ connMap' = connMap
        /\ cli' = cli \/ Clients(cli)
    BY <1>23 DEF IoCheckExit
  <2> QED BY <1>b, <2>1, <2>2
<1>24. ASSUME NEW i \in Ios, Callback(i)
      PROVE  CareQuiet
  <2>1. OneMoves(i) /\ pc[i] # "done" /\ pc'[i] \notin {"notify", "msgcb"}
    BY <1>0, <1>1, <1>24 DEF Callback, OneMoves, Goto, Resume
  <2>2. /\ orderDeque' = orderDeque /\ ioVect' = ioVect /\ used' = used /\ connMap' = connMap
        /\ cli' = cli \/ Clients(cli)
    BY <1>24 DEF Callback
  <2> QED BY <1>b, <2>1, <2>2
<1>25. ASSUME NEW i \in Ios, IoCreate(i)
      PROVE  CareQuiet
  <2>1. OneMoves(i) /\ pc[i] = "off" /\ pc'[i] = "new"
    BY <1>0, <1>1, <1>25 DEF IoCreate, OneMoves, Goto
  <2>2. orderDeque[i] = <<>>
    BY <2>1 DEF ServeInv, Serves
  <2>3. orderDeque' = orderDeque
    BY <1>0, <1>25, <2>2 DEF IoCreate
  <2>4. /\ ioVect \subseteq ioVect' /\ used' = used /\ connMap' = connMap /\ Clients(cli)
    BY <1>25 DEF IoCreate
  <2> QED BY <1>b, <2>1, <2>3, <2>4
<1>26. ASSUME NEW i \in Ios, DealConnectFail(i)
      PROVE  FALSE
  BY <1>26 DEF DealConnectFail
<1>28. ASSUME NEW i \in Ios, IoReadyFail(i)
      PROVE  CareQuiet
  <2>1. OneMoves(i) /\ pc[i] # "done" /\ pc'[i] \notin {"notify", "msgcb"}
    BY <1>0, <1>1, <1>28 DEF IoReadyFail, OneMoves, Goto
  <2>2. /\ orderDeque' = orderDeque /\ ioVect' = ioVect /\ used' = used /\ connMap' = connMap
        /\ cli' = cli \/ Clients(cli)
    BY <1>28 DEF IoReadyFail
  <2> QED BY <1>b, <2>1, <2>2
<1>27. ASSUME Tick \/ UNCHANGED vars
      PROVE  CareQuiet
  <2>1. /\ OneMoves(Expirer) /\ CallerCalm(Expirer)
        /\ orderDeque' = orderDeque /\ ioVect' = ioVect /\ used' = used /\ connMap' = connMap /\ cli' = cli
    BY <1>27 DEF Tick, vars, OneMoves, CallerCalm, Adding, Past
  <2> QED BY <1>1, <2>1 DEF CareQuiet
<1> QED
  BY <1>1, <1>2, <1>3, <1>4, <1>5, <1>6, <1>7, <1>8, <1>9, <1>10, <1>11, <1>12, <1>13, <1>14, <1>15, <1>16, <1>17, <1>18, <1>19, <1>20, <1>21, <1>22, <1>23, <1>24, <1>25, <1>26, <1>27, <1>28
     DEF Next, CallerStep, ExitStep, ExpireStep, IoStep

-----------------------------------------------------------------------------
\* The message that libeventTcpCliSendMsg queues
LEMMA SendOrderCare ==
  ASSUME TypeOK, Refs, CareInv, TypeOK', NEW t \in Callers, SendOrder(t)
  PROVE  CareInv' /\ (Stopped \/ Freeless)
<1> USE ThreadAssumption DEF mgrVars, ioVars, thVars, boundVars
<1>0. /\ pc \in [Threads -> CallerPcs \cup IoPcs] /\ op \in [Threads -> Ops]
      /\ cli \in [Uids -> Client] /\ used \subseteq Uids /\ t \in Threads /\ t \notin Ios
  BY DEF TypeOK, Threads
<1>1. cur[t] \in used /\ pc[t] = "got" /\ op[t] = "send"
  BY <1>0 DEF SendOrder, Refs, NamesClient
<1>2. PICK u \in used : u = cur[t]
  BY <1>1
<1>3. cli[u].io \in Ios
  BY <1>0 DEF Client
<1>4. cli' = cli \/ cli' = [cli EXCEPT ![u].last = now]
  BY <1>2 DEF SendOrder
<1>5. \A v \in Uids : cli'[v].io = cli[v].io /\ cli'[v].sock = cli[v].sock /\ cli'[v].bev = cli[v].bev
  BY <1>0, <1>4 DEF Client
<1>6. ClientsLast
  BY <1>0, <1>5 DEF ClientsLast, CareInv, Gone
<1>7. orderDeque' = orderDeque \/ \E o \in Order : o.uid = u /\ Enqueue(cli[u].io, o)
  <2>1. \A m \in BOOLEAN : [uid |-> u, msg |-> m] \in Order /\ [uid |-> u, msg |-> m].uid = u
    BY <1>0 DEF Order
  <2>2. orderDeque' = orderDeque \/ \E m \in BOOLEAN : Enqueue(cli[u].io, [uid |-> u, msg |-> m])
    BY <1>2 DEF SendOrder
  <2> QED BY <2>1, <2>2
<1>8. OrdersLast
  <2>1. CASE orderDeque' = orderDeque
    BY <1>0, <1>5, <2>1, CalmOrders
  <2>2. ASSUME NEW o \in Order, o.uid = u, Enqueue(cli[u].io, o) PROVE OrdersLast
    <3>1. cli'[o.uid].io = cli[u].io
      BY <1>0, <1>5, <2>2
    <3> QED BY <1>0, <1>3, <1>5, <2>2, <3>1, QueuedLast
  <2> QED BY <1>7, <2>1, <2>2
<1>9. OneMoves(t) /\ (pc'[t] = "again" \/ (pc'[t] = "wake" /\ op' = op))
  BY <1>0 DEF SendOrder, OneMoves, Goto
<1>10. CallerCalm(t)
  BY <1>1, <1>9 DEF CallerCalm, Adding, Past
<1>11. ThreadsLast /\ \A v \in Uids : Entering(v) => Entering(v)'
  BY <1>0, <1>9, <1>10, CalmThreads
<1>12. used' = used /\ ioVect' = ioVect /\ connMap' = connMap
  BY DEF SendOrder
<1>13. EntriesLast
  BY <1>11, <1>12 DEF EntriesLast
<1> QED BY <1>6, <1>8, <1>11, <1>12, <1>13, CareKeeps

\* The order of libeventTcpCliDisconnect stands behind the one that connects.
LEMMA DiscOrderCare ==
  ASSUME TypeOK, Refs, CareInv, TypeOK', NEW t \in Callers, DiscOrder(t)
  PROVE  CareInv' /\ (Stopped \/ Freeless)
<1> USE ThreadAssumption DEF mgrVars, ioVars, thVars, boundVars
<1>0. /\ pc \in [Threads -> CallerPcs \cup IoPcs] /\ orderDeque \in [Ios -> Seq(Order)]
      /\ cli \in [Uids -> Client] /\ used \subseteq Uids /\ t \in Threads /\ t \notin Ios
  BY DEF TypeOK, Threads
<1>1. cur[t] \in used /\ pc[t] = "got" /\ op[t] = "disc"
  BY <1>0 DEF DiscOrder, Refs, NamesClient
<1>2. PICK u \in used : u = cur[t]
  BY <1>1
<1>3. PICK i \in Ios : i = cli[u].io
  BY <1>0 DEF Client
<1>4. /\ used' = used /\ ioVect' = ioVect /\ connMap' = connMap /\ cli' = cli /\ cur' = cur
      /\ op' = op /\ held' = held /\ st' = st
  BY DEF DiscOrder
<1>5. ClientsLast
  BY <1>4, CalmClients
<1>6. PICK o \in Order : o.uid = u /\ o.msg = FALSE /\ o = [uid |-> u, msg |-> FALSE]
  BY <1>0 DEF Order
<1>7. (orderDeque' = orderDeque /\ i \notin ioVect) \/ Enqueue(i, o)
  BY <1>2, <1>3, <1>6 DEF DiscOrder
<1>8. OrdersLast
  BY <1>0, <1>3, <1>4, <1>6, <1>7, CalmOrders, QueuedLast
<1>9. OneMoves(t) /\ pc'[t] \in {"wake", "state"}
  BY <1>0, <1>4 DEF DiscOrder, OneMoves, Goto
<1>10. ~Adding(t) /\ ~Adding(t)'
  BY <1>1, <1>4, <1>9 DEF Adding
<1>11. Stopped \/ Closing(u)'
  <2> SUFFICES ASSUME ~Stopped PROVE Closing(u)'
    OBVIOUS
  <2>1. i \in ioVect /\ (cli[u].sock \/ \E k \in Nat : OrderAt(u, k))
    BY <1>3 DEF CareInv, Cared
  <2>2. Enqueue(i, o)
    BY <1>7, <2>1
  <2>3. PICK n \in Nat : n = Len(orderDeque[i])
    BY <1>0
  <2>4. n + 1 \in 1 .. Len(orderDeque'[i]) /\ orderDeque'[i][n + 1] = o
    BY <1>0, <2>2, <2>3, OrderQueued
  <2>5. \A k \in 1 .. n : k \in 1 .. Len(orderDeque'[i]) /\ orderDeque'[i][k] = orderDeque[i][k]
    BY <1>0, <2>2, <2>3, OrderQueued
  <2>6. PICK m \in Nat : m = n + 1
    BY <2>3
  <2>7. CloseAt(u, m)'
    BY <1>3, <1>4, <1>6, <2>4, <2>6 DEF CloseAt, OrderAt
  <2>8. cli'[u].sock \/ \E j \in 1 .. m - 1 : OrderAt(u, j)'
    <3>1. ASSUME NEW k \in Nat, OrderAt(u, k) PROVE \E j \in 1 .. m - 1 : OrderAt(u, j)'
      <4>1. k \in 1 .. n /\ orderDeque[i][k].uid = u
        BY <1>3, <2>3, <3>1 DEF OrderAt
      <4>2. OrderAt(u, k)'
        BY <1>3, <1>4, <2>5, <4>1 DEF OrderAt
      <4>3. k \in 1 .. m - 1
        BY <2>3, <2>6, <4>1
      <4> QED BY <4>2, <4>3
    <3> QED BY <1>4, <2>1, <3>1
  <2> QED BY <2>7, <2>8 DEF Closing
<1>12. Stopped \/ Closing(cur[t])'
  BY <1>2, <1>4, <1>11
<1>13. ThreadsLast /\ \A v \in Uids : Entering(v) => Entering(v)'
  BY <1>0, <1>9, <1>10, <1>12, OthersLast
<1>14. EntriesLast
  BY <1>4, <1>13 DEF EntriesLast
<1> QED BY <1>4, <1>5, <1>8, <1>13, <1>14, CareKeeps

\* libeventAddConnect queues the order that connects the new client.
LEMMA AddOrderCare ==
  ASSUME TypeOK, Refs, CareInv, TypeOK', NEW t \in Callers, NEW u \in Uids, AddOrder(t, u)
  PROVE  CareInv' /\ (Stopped \/ Freeless)
<1> USE ThreadAssumption DEF mgrVars, ioVars, thVars, boundVars
<1>0. /\ pc \in [Threads -> CallerPcs \cup IoPcs] /\ orderDeque \in [Ios -> Seq(Order)]
      /\ cur \in [Threads -> Uids \cup {NoUid}] /\ held \in [Threads -> Uids \cup {NoUid}]
      /\ cli \in [Uids -> Client] /\ used \subseteq Uids /\ t \in Threads /\ t \notin Ios
      /\ lastIndex \in Ios
  BY DEF TypeOK, Threads
<1>1. ioVect' = ioVect /\ connMap' = connMap /\ op' = op /\ st' = st /\ pc[t] = "run" /\ op[t] = "add"
  BY DEF AddOrder
<1>2. CASE lastIndex \notin ioVect
  <2>1. UNCHANGED <<used, cur, held, orderDeque, cli, pc>>
    BY <1>2 DEF AddOrder
  <2>2. OneMoves(t) /\ CallerCalm(t)
    BY <1>1, <2>1 DEF OneMoves, CallerCalm, Adding, Past
  <2>3. CareQuiet
    BY <1>0, <1>1, <2>1, <2>2 DEF CareQuiet
  <2> QED BY <2>3, QuietCare
<1>3. CASE lastIndex \in ioVect
  <2>1. PICK i \in Ios : i = lastIndex /\ i \in ioVect
    BY <1>0, <1>3
  <2>2. PICK o \in Order : o.uid = u /\ o = [uid |-> u, msg |-> FALSE]
    BY DEF Order
  <2>3. /\ u \notin used /\ used' = used \cup {u} /\ Enqueue(i, o)
        /\ cli' = [cli EXCEPT ![u] = NewClient(i)]
        /\ cur' = [cur EXCEPT ![t] = u] /\ held' = [held EXCEPT ![t] = u] /\ Goto(t, "wake")
    BY <1>3, <2>1, <2>2 DEF AddOrder
  <2>4. /\ \A v \in Uids \ {u} : cli'[v] = cli[v]
        /\ cli'[u].io = i /\ cli'[u].bev = "none" /\ u \notin used
    BY <1>0, <2>3 DEF NewClient
  <2>5. ClientsLast
    <3>1. \A v \in used : v \in Uids \ {u}
      BY <1>0, <2>4
    <3>2. \A v \in Uids : cli'[v].bev # "none" => cli'[v].sock
      BY <2>4 DEF CareInv
    <3>3. \A v \in used : Gone(v) => Gone(v)'
      BY <2>4, <3>1 DEF Gone
    <3> QED BY <2>4, <3>1, <3>2, <3>3 DEF ClientsLast
  <2>6. OrdersLast
    <3>1. \A v \in used : cli'[v].io = cli[v].io /\ cli'[v].sock = cli[v].sock
      BY <1>0, <2>4
    <3>2. cli'[o.uid].io = i
      BY <2>2, <2>4
    <3> QED BY <2>3, <3>1, <3>2, QueuedLast
  <2>7. /\ OneMoves(t) /\ pc'[t] = "wake" /\ cur'[t] = u /\ held'[t] = u
    BY <1>0, <1>1, <2>3 DEF OneMoves, Goto
  <2>8. Adding(t)' /\ ~Adding(t) /\ ~Past(t)'
    BY <1>1, <2>7 DEF Adding, Past
  <2>9. ThreadsLast /\ \A v \in Uids : Entering(v) => Entering(v)'
    BY <1>0, <2>7, <2>8, OthersLast
  <2>10. EntriesLast
    BY <1>1, <2>9 DEF EntriesLast
  <2>11. Cared(u)'
    <3>1. cli'[u].io \in ioVect'
      BY <1>1, <2>1, <2>4
    <3>2. Kept(u)'
      BY <2>7, <2>8 DEF Kept, Entering
    <3>3. PICK n \in Nat : n = Len(orderDeque[i])
      BY <1>0
    <3>4. PICK m \in Nat : m = n + 1
      BY <3>3
    <3>5. m \in 1 .. Len(orderDeque'[i]) /\ orderDeque'[i][m] = o
      BY <1>0, <2>3, <3>3, <3>4, OrderQueued
    <3>6. OrderAt(u, m)'
      BY <2>2, <2>4, <3>5 DEF OrderAt
    <3> QED BY <3>1, <3>2, <3>6 DEF Cared
  <2>12. used \subseteq used' /\ \A v \in used' \ used : Cared(v)'
    <3>1. \A v \in used' \ used : v = u
      BY <2>3
    <3> QED BY <2>3, <2>11, <3>1
  <2> QED BY <1>1, <2>5, <2>6, <2>9, <2>10, <2>12, CareKeeps
<1> QED BY <1>2, <1>3

\* libeventAddConnect enters the client in the map.
LEMMA InsertCare ==
  ASSUME TypeOK, Refs, CareInv, TypeOK', NEW t \in Callers, Insert(t)
  PROVE  CareInv' /\ (Stopped \/ Freeless)
<1> USE ThreadAssumption DEF mgrVars, ioVars, thVars, boundVars
<1>0. /\ pc \in [Threads -> CallerPcs \cup IoPcs] /\ op \in [Threads -> Ops]
      /\ cur \in [Threads -> Uids \cup {NoUid}] /\ held \in [Threads -> Uids \cup {NoUid}]
      /\ used \subseteq Uids /\ t \in Threads /\ t \notin Ios
  BY DEF TypeOK, Threads
<1>1. /\ used' = used /\ ioVect' = ioVect /\ connMap' = connMap \cup {cur[t]} /\ orderDeque' = orderDeque
      /\ Clients(cli) /\ Return(t) /\ st' = st
  BY DEF Insert
<1>2. ClientsLast /\ \A u \in Uids : cli'[u].io = cli[u].io /\ cli'[u].sock = cli[u].sock
  BY <1>1, CalmClients
<1>3. OrdersLast
  BY <1>0, <1>1, <1>2, CalmOrders
<1>4. OneMoves(t) /\ pc'[t] \in {"idle", "exNext"}
  BY <1>0, <1>1 DEF Return, ReturnPc, Goto, OneMoves
<1>5. ~Adding(t)' /\ ~Past(t)'
  BY <1>4 DEF Adding, Past
<1>6. /\ ThreadsLast
      /\ \A u \in Uids : Entering(u) => Entering(u)' \/ (t \in Callers /\ Adding(t) /\ cur[t] = u)
  BY <1>0, <1>4, <1>5, OthersLast
<1>7. EntriesLast
  BY <1>1, <1>6 DEF EntriesLast
<1> QED BY <1>1, <1>2, <1>3, <1>6, <1>7, CareKeeps

\* tcpServerConnect erases the entry of a client that is being closed.
LEMMA NotifyCare ==
  ASSUME TypeOK, Refs, CareInv, TypeOK', NEW t \in Threads, Notify(t)
  PROVE  CareInv' /\ (Stopped \/ Freeless)
<1> USE ThreadAssumption DEF mgrVars, ioVars, thVars, boundVars
<1>0. /\ pc \in [Threads -> CallerPcs \cup IoPcs] /\ op \in [Threads -> Ops]
      /\ cur \in [Threads -> Uids \cup {NoUid}] /\ held \in [Threads -> Uids \cup {NoUid}]
      /\ used \subseteq Uids /\ Callers \cap Ios = {} /\ Threads = Callers \cup Ios
  BY DEF TypeOK, Threads
<1>1. /\ used' = used /\ ioVect' = ioVect /\ orderDeque' = orderDeque
      /\ Clients(cli) /\ pc[t] = "notify" /\ st' = st
      /\ connMap' = connMap \/ (connMap' = connMap \ {cur[t]} /\ st[t] # CONN_SUCCESS)
  BY DEF Notify
<1>2. ClientsLast /\ \A u \in Uids : cli'[u].io = cli[u].io /\ cli'[u].sock = cli[u].sock
  BY <1>1, CalmClients
<1>3. OrdersLast
  BY <1>0, <1>1, <1>2, CalmOrders
<1>4. OneMoves(t) /\ pc'[t] \in {"cb", "idle", "exNext", "drain", "loop"}
  BY <1>0, <1>1 DEF Notify, Resume, Return, ReturnPc, Goto, OneMoves
<1>5. (t \in Callers => CallerCalm(t)) /\ (t \in Ios => IoCalm(t))
  BY <1>1, <1>4 DEF CallerCalm, IoCalm, Adding, Past
<1>6. ThreadsLast /\ \A u \in Uids : Entering(u) => Entering(u)'
  BY <1>4, <1>5, CalmThreads
<1>7. ASSUME connMap' = connMap \ {cur[t]} /\ st[t] # CONN_SUCCESS
      PROVE  Stopped \/ Closing(cur[t]) \/ Gone(cur[t])
  <2>1. CASE t \in Callers
    BY <1>1, <2>1 DEF CareInv, Past
  <2>2. CASE t \in Ios
    BY <1>1, <1>7, <2>2 DEF CareInv
  <2> QED BY <1>0, <2>1, <2>2
<1>8. \A u \in connMap \ connMap' : Stopped \/ Closing(u) \/ Gone(u)
  BY <1>1, <1>7
<1>9. EntriesLast
  BY <1>6, <1>8 DEF EntriesLast
<1> QED BY <1>1, <1>2, <1>3, <1>6, <1>9, CareKeeps

\* libeventTcpCliExit destroys the deques when all IO threads have ended.
LEMMA ExitJoinCare ==
  ASSUME TypeOK, Refs, ServeInv, CareInv, TypeOK', NEW t \in Users, ExitJoin(t)
  PROVE  CareInv' /\ (Stopped \/ Freeless)
<1> USE ThreadAssumption DEF mgrVars, ioVars, thVars, boundVars
<1>0. /\ pc \in [Threads -> CallerPcs \cup IoPcs] /\ op \in [Threads -> Ops]
      /\ cur \in [Threads -> Uids \cup {NoUid}] /\ held \in [Threads -> Uids \cup {NoUid}]
      /\ used \subseteq Uids /\ t \in Callers /\ t \in Threads /\ t \notin Ios
  BY DEF TypeOK, Threads, Callers
<1>1. /\ used' = used /\ orderDeque' = [i \in Ios |-> <<>>] /\ connMap' = connMap
      /\ Clients(cli) /\ pc[t] = "exitJoin" /\ Return(t) /\ st' = st
  BY DEF ExitJoin
<1>2. Stopped
  BY <1>1 DEF ServeInv
<1>3. ClientsLast
  BY <1>1, CalmClients
<1>4. OneMoves(t) /\ pc'[t] \in {"idle", "exNext"}
  BY <1>0, <1>1 DEF Return, ReturnPc, Goto, OneMoves
<1>5. CallerCalm(t)
  BY <1>1, <1>4 DEF CallerCalm, Adding, Past
<1>6. ThreadsLast
  BY <1>0, <1>4, <1>5, CalmThreads
<1>7. Stopped'
  BY <1>2, <1>6 DEF ThreadsLast
<1>8. \A i \in Ios : orderDeque'[i] = <<>>
  BY <1>1
<1>9. \A i \in Ios : \A k \in 1 .. Len(orderDeque'[i]) : FALSE
  BY <1>8
<1>10. \A i \in Ios : pc'[i] = "done"
  BY <1>7 DEF Stopped
<1>11. /\ \A u \in Uids : cli'[u].bev # "none" => cli'[u].sock
       /\ \A s \in Callers : Adding(s)' => held'[s] = cur'[s]
  BY <1>3, <1>6 DEF ClientsLast, ThreadsLast
<1> QED BY <1>2, <1>7, <1>9, <1>10, <1>11 DEF CareInv

\* The next order connects its client: an order to close it stays queued.
LEMMA DealConnectCare ==
  ASSUME TypeOK, Refs, CareInv, TypeOK', NEW i \in Ios, DealConnect(i)
  PROVE  CareInv' /\ (Stopped \/ Freeless)
<1> USE ThreadAssumption DEF mgrVars, ioVars, thVars, boundVars
<1>0. cli \in [Uids -> Client] /\ used \subseteq Uids /\ i \in Threads /\ i \notin Callers /\ now \in Nat
  BY DEF TypeOK, Threads
<1>1. /\ used' = used /\ ioVect' = ioVect /\ connMap' = connMap /\ UNCHANGED <<pc, op, cur, held, st>>
      /\ orderDeque' = [orderDeque EXCEPT ![i] = Tail(orderDeque[i])] /\ orderDeque[i] # <<>> /\ pc[i] = "drain"
  BY DEF DealConnect
<1>2. PICK v \in used : v = NextUid(i)
  BY DealConnectClients
<1>3. /\ \A u \in Uids : cli'[u].io = cli[u].io
      /\ ~cli[v].sock /\ cli'[v].sock /\ v \in Uids
      /\ \A u \in Uids \ {v} : cli'[u].sock = cli[u].sock /\ cli'[u].bev \in {cli[u].bev, "none"}
  BY <1>2, DealConnectClients
<1>4. \A u \in Uids \ {v} : Referenced(u)' => cli'[u].bev = cli[u].bev
  <2>1. Clients([cli EXCEPT ![v] = Connecting(cli[v])])
    BY <1>0, <1>2, <1>3 DEF DealConnect, NextUid
  <2> QED BY <1>0, <2>1 DEF Clients
<1>5. cli[v].io = i
  <2>1. 1 \in 1 .. Len(orderDeque[i]) /\ orderDeque[i][1].uid = v
    BY <1>1, <1>2, OrderTaken DEF TypeOK, NextUid
  <2> QED BY <2>1 DEF CareInv
<1>6. ClientsLast
  <2>1. \A u \in Uids : cli'[u].bev # "none" => cli'[u].sock
    BY <1>3 DEF CareInv
  <2>2. \A u \in used : cli[u].sock => cli'[u].sock
    BY <1>0, <1>3
  <2>3. \A u \in used : Gone(u) => Gone(u)'
    BY <1>0, <1>3 DEF Gone
  <2>4. \A u \in used : Referenced(u)' =>
          cli'[u].bev = cli[u].bev \/ (pc'[cli[u].io] # "msgcb" /\ CallersRest)
    BY <1>0, <1>1, <1>4, <1>5 DEF CallersRest
  <2> QED BY <1>0, <1>3, <2>1, <2>2, <2>3, <2>4 DEF ClientsLast
<1>7. OrdersLast
  <2>1. \A u \in used : cli'[u].io = cli[u].io /\ (cli[u].sock => cli'[u].sock)
    BY <1>6 DEF ClientsLast
  <2>2. \A u \in used : Ordered(u) => cli'[u].sock \/ u # NextUid(i)
    BY <1>2, <1>3
  <2>3. \A u \in used : ~(u = NextUid(i) /\ cli[u].sock /\ ~Head(orderDeque[i]).msg)
    BY <1>2, <1>3
  <2> QED BY <1>1, <2>1, <2>2, <2>3, TakenLast
<1>8. OneMoves(i) /\ IoCalm(i)
  BY <1>1 DEF OneMoves, IoCalm
<1>9. ThreadsLast /\ \A u \in Uids : Entering(u) => Entering(u)'
  BY <1>0, <1>8, CalmThreads
<1>10. EntriesLast
  BY <1>1, <1>9 DEF EntriesLast
<1> QED BY <1>1, <1>6, <1>7, <1>9, <1>10, CareKeeps

\* The next order sends or closes.
LEMMA DealSendCare ==
  ASSUME TypeOK, Refs, CareInv, TypeOK', NEW i \in Ios, DealSend(i)
  PROVE  CareInv' /\ (Stopped \/ Freeless)
<1> USE ThreadAssumption DEF mgrVars, ioVars, thVars, boundVars
<1>0. cli \in [Uids -> Client] /\ used \subseteq Uids /\ i \in Threads /\ i \notin Callers
  BY DEF TypeOK, Threads
<1>1. /\ used' = used /\ ioVect' = ioVect /\ connMap' = connMap /\ UNCHANGED <<pc, op, cur, held, st>>
      /\ orderDeque' = [orderDeque EXCEPT ![i] = Tail(orderDeque[i])] /\ orderDeque[i] # <<>> /\ pc[i] = "drain"
      /\ cli[NextUid(i)].sock
  BY DEF DealSend, NextUid
<1>2. /\ 1 \in 1 .. Len(orderDeque[i]) /\ orderDeque[i][1].uid = NextUid(i)
  BY <1>1, OrderTaken DEF TypeOK, NextUid
<1>3. PICK v \in used : v = NextUid(i)
  BY <1>2 DEF Refs
<1>4. cli[v].io = i
  BY <1>2, <1>3 DEF CareInv
<1>5. \A u \in Uids : cli'[u].io = cli[u].io /\ cli'[u].sock = cli[u].sock /\ cli'[u].bev \in {cli[u].bev, "none"}
  BY DealSendClients
<1>6. PICK c \in {cli, [cli EXCEPT ![v] = Disconnected(cli[v])]} :
        Clients(c) /\ (~Head(orderDeque[i]).msg => c = [cli EXCEPT ![v] = Disconnected(cli[v])])
  BY <1>0, <1>3 DEF DealSend, NextUid
<1>7. \A u \in Uids \ {v} : Referenced(u)' => cli'[u].bev = cli[u].bev
  BY <1>0, <1>6 DEF Clients
<1>8. ~Head(orderDeque[i]).msg => cli'[v].bev = "none"
  <2>1. \A d \in Client : Disconnected(d).bev = "none"
    BY DEF Disconnected, Client
  <2>2. \A d \in Client : Disconnected(d) \in Client
    BY DEF Disconnected, Client
  <2>3. ASSUME c = [cli EXCEPT ![v] = Disconnected(cli[v])] PROVE cli'[v].bev = "none"
    <3>1. c[v] = Disconnected(cli[v]) /\ cli[v] \in Client
      BY <1>0, <2>3
    <3>2. cli'[v] \in {c[v], Disconnected(c[v])}
      BY <1>0, <1>6 DEF Clients
    <3> QED BY <2>1, <2>2, <3>1, <3>2
  <2> QED BY <1>6, <2>3
<1>9. ClientsLast
  <2>1. \A u \in Uids : cli'[u].bev # "none" => cli'[u].sock
    BY <1>5 DEF CareInv
  <2>2. \A u \in used : Gone(u) => Gone(u)'
    BY <1>0, <1>5 DEF Gone
  <2>3. \A u \in used : Referenced(u)' =>
          cli'[u].bev = cli[u].bev \/ (pc'[cli[u].io] # "msgcb" /\ CallersRest)
    BY <1>0, <1>1, <1>4, <1>7 DEF CallersRest
  <2> QED BY <1>0, <1>5, <2>1, <2>2, <2>3 DEF ClientsLast
<1>10. OrdersLast
  <2>1. \A u \in used : cli'[u].io = cli[u].io /\ (cli[u].sock => cli'[u].sock)
    BY <1>9 DEF ClientsLast
  <2>2. \A u \in used : Ordered(u) => cli'[u].sock \/ u # NextUid(i)
    BY <1>1, <2>1
  <2>3. \A u \in used : u = NextUid(i) /\ cli[u].sock /\ ~Head(orderDeque[i]).msg =>
          Gone(u)' /\ pc[i] = "drain" /\ CallersRest
    BY <1>1, <1>3, <1>8, <2>1 DEF Gone, CallersRest
  <2> QED BY <1>1, <2>1, <2>2, <2>3, TakenLast
<1>11. OneMoves(i) /\ IoCalm(i)
  BY <1>1 DEF OneMoves, IoCalm
<1>12. ThreadsLast /\ \A u \in Uids : Entering(u) => Entering(u)'
  BY <1>0, <1>11, CalmThreads
<1>13. EntriesLast
  BY <1>1, <1>12 DEF EntriesLast
<1> QED BY <1>1, <1>9, <1>10, <1>12, <1>13, CareKeeps

\* A step of the loop of thread i about its client u
LEMMA LoopCare ==
  ASSUME TypeOK, Refs, CareInv, TypeOK', NEW i \in Ios, NEW u \in Uids, NEW c \in Client,
         cli' = [cli EXCEPT ![u] = c], cli[u].io = i, cli[u].bev # "none",
         c.io = i, c.sock = cli[u].sock, c.bev = cli[u].bev \/ pc'[i] # "msgcb",
         OneMoves(i), pc[i] # "done", cur'[i] = u,
         pc'[i] = "notify" => st'[i] = CONN_SUCCESS \/ c.bev = "none",
         pc'[i] = "msgcb" => c.bev = "up",
         UNCHANGED <<orderDeque, ioVect, used, connMap>>
  PROVE  CareInv' /\ (Stopped \/ Freeless)
<1> USE ThreadAssumption
<1>0. cli \in [Uids -> Client] /\ used \subseteq Uids /\ i \in Threads /\ i \notin Callers /\ Callers \subseteq Threads
  BY DEF TypeOK, Threads
<1>1. cli'[u] = c /\ \A v \in Uids \ {u} : cli'[v] = cli[v]
  BY <1>0
<1>2. \A v \in Uids : cli'[v].io = cli[v].io /\ cli'[v].sock = cli[v].sock
  BY <1>1
<1>3. cli[u].sock
  BY DEF CareInv
<1>4. CallersRest
  BY <1>0 DEF OneMoves, CallersRest
<1>5. ClientsLast
  <2>1. \A v \in Uids : cli'[v].bev # "none" => cli'[v].sock
    BY <1>1, <1>2, <1>3 DEF CareInv
  <2>2. \A v \in used : Gone(v) => Gone(v)'
    BY <1>0, <1>1 DEF Gone
  <2>3. \A v \in used : cli'[v].bev = cli[v].bev \/ (pc'[cli[v].io] # "msgcb" /\ CallersRest)
    BY <1>0, <1>1, <1>4
  <2> QED BY <1>0, <1>2, <2>1, <2>2, <2>3 DEF ClientsLast
<1>6. OrdersLast
  BY <1>0, <1>2, CalmOrders
<1>7. pc'[i] = "notify" /\ st'[i] # CONN_SUCCESS => Gone(cur[i])'
  BY <1>1, <1>3 DEF Gone
<1>8. pc'[i] = "msgcb" => cli'[cur'[i]].bev = "up" /\ cli'[cur'[i]].io = i
  BY <1>1
<1>9. ThreadsLast /\ \A v \in Uids : Entering(v) => Entering(v)'
  BY <1>0, <1>7, <1>8, OthersLast
<1>10. EntriesLast
  BY <1>9 DEF EntriesLast
<1> QED BY <1>5, <1>6, <1>9, <1>10, CareKeeps

\* The events of the loop
LEMMA EventCare ==
  ASSUME TypeOK, Refs, CareInv, TypeOK', NEW i \in Ios, NEW u \in Uids,
         NetEvent(i, u) \/ OnMessage(i, u) \/ OnMessageExpired(i, u)
  PROVE  CareInv' /\ (Stopped \/ Freeless)
<1> USE ThreadAssumption DEF mgrVars, ioVars, thVars, boundVars
<1>0. /\ cli \in [Uids -> Client] /\ i \in Threads /\ now \in Nat /\ cli[u] \in Client
      /\ pc \in [Threads -> CallerPcs \cup IoPcs] /\ cur \in [Threads -> Uids \cup {NoUid}]
      /\ st \in [Threads -> States]
  BY DEF TypeOK, Threads
<1>1. /\ Disconnected(cli[u]) \in Client /\ Disconnected(cli[u]).io = cli[u].io
      /\ Disconnected(cli[u]).sock = cli[u].sock /\ Disconnected(cli[u]).bev = "none"
  BY <1>0 DEF Disconnected, Client
<1>2. ASSUME NEW c \in Client, NEW s \in States, Event(i, u, c, s), cli[u].bev # "none",
             c.io = cli[u].io, c.sock = cli[u].sock, s = CONN_SUCCESS \/ c.bev = "none"
      PROVE  CareInv' /\ (Stopped \/ Freeless)
  <2>1. /\ cli' = [cli EXCEPT ![u] = c] /\ cli[u].io = i /\ pc[i] = "loop"
        /\ UNCHANGED <<orderDeque, ioVect, used, connMap>>
    BY <1>2 DEF Event
  <2>2. OneMoves(i) /\ cur'[i] = u /\ st'[i] = s /\ pc'[i] = "notify"
    BY <1>0, <1>2 DEF Event, OneMoves, Goto
  <2> QED BY <1>2, <2>1, <2>2, LoopCare
<1>3. CASE OnConnected(i, u)
  <2>1. PICK c \in Client : c = [cli[u] EXCEPT !.bev = "up", !.state = CONN_SUCCESS]
    BY <1>0, ClientOps
  <2>2. c.io = cli[u].io /\ c.sock = cli[u].sock
    BY <1>0, <2>1 DEF Client
  <2> QED BY <1>2, <1>3, <2>1, <2>2 DEF OnConnected, States
<1>4. CASE OnClosed(i, u)
  BY <1>1, <1>2, <1>4 DEF OnClosed, States
<1>5. CASE ConnectTimeout(i, u)
  BY <1>1, <1>2, <1>5 DEF ConnectTimeout, States
<1>6. CASE OnMessageExpired(i, u)
  BY <1>1, <1>2, <1>6 DEF OnMessageExpired, States
<1>7. CASE OnMessage(i, u)
  <2>1. PICK c \in Client : c = [cli[u] EXCEPT !.last = now]
    BY <1>0, ClientOps
  <2>2. c.io = cli[u].io /\ c.sock = cli[u].sock /\ c.bev = cli[u].bev
    BY <1>0, <2>1 DEF Client
  <2>3. /\ cli' = [cli EXCEPT ![u] = c] /\ cli[u].io = i /\ pc[i] = "loop" /\ cli[u].bev = "up"
        /\ UNCHANGED <<orderDeque, ioVect, used, connMap>>
    BY <1>0, <1>7, <2>1 DEF OnMessage
  <2>4. OneMoves(i) /\ cur'[i] = u /\ pc'[i] = "msgcb"
    BY <1>0, <1>7 DEF OnMessage, OneMoves, Goto
  <2> QED BY <2>1, <2>2, <2>3, <2>4, LoopCare
<1> QED BY <1>3, <1>4, <1>5, <1>6, <1>7 DEF NetEvent

\* What TcpClientOnMessage does when msgCb has returned
LEMMA OnMessageEndCare ==
  ASSUME TypeOK, Refs, CareInv, TypeOK', NEW i \in Ios, OnMessageEnd(i)
  PROVE  CareInv' /\ (Stopped \/ Freeless)
<1> USE ThreadAssumption DEF mgrVars, ioVars, thVars, boundVars
<1>0. /\ cli \in [Uids -> Client] /\ i \in Threads /\ i \notin Callers /\ used \subseteq Uids
      /\ pc \in [Threads -> CallerPcs \cup IoPcs] /\ cur \in [Threads -> Uids \cup {NoUid}]
      /\ st \in [Threads -> States]
  BY DEF TypeOK, Threads
<1>1. pc[i] = "msgcb" /\ UNCHANGED <<orderDeque, ioVect, used, connMap>>
  BY DEF OnMessageEnd
<1>2. PICK u \in used : u = cur[i]
  BY <1>0, <1>1 DEF Refs, NamesClient
<1>3. cli[u].bev = "up" /\ cli[u].io = i
  BY <1>1, <1>2 DEF CareInv
<1>4. OneMoves(i)
  BY <1>0 DEF OnMessageEnd, OneMoves, Goto
<1>5. CASE Goto(i, "loop") /\ cli' = cli
  <2>1. IoCalm(i)
    BY <1>0, <1>1, <1>5 DEF IoCalm, Goto
  <2>2. CareQuiet
    BY <1>0, <1>1, <1>4, <1>5, <2>1 DEF CareQuiet
  <2> QED BY <2>2, QuietCare
<1>6. CASE /\ cli' = [cli EXCEPT ![cur[i]] = Disconnected(@)] /\ st' = [st EXCEPT ![i] = DIS_CONNECT]
           /\ Goto(i, "notify") /\ cur' = cur
  <2>1. PICK c \in Client : c = Disconnected(cli[u])
    <3>1. cli[u] \in Client /\ now \in Nat
      BY <1>0 DEF TypeOK
    <3> QED BY <3>1, ClientOps
  <2>2. c.io = i /\ c.sock = cli[u].sock /\ c.bev = "none"
    BY <1>0, <1>3, <2>1 DEF Disconnected, Client
  <2>3. cli' = [cli EXCEPT ![u] = c] /\ cur'[i] = u /\ pc'[i] = "notify" /\ u \in Uids
    BY <1>0, <1>2, <1>6, <2>1 DEF Goto
  <2> QED BY <1>1, <1>3, <1>4, <2>2, <2>3, LoopCare
<1> QED BY <1>5, <1>6 DEF OnMessageEnd

\* Every step keeps CareInv, and until all IO threads have ended none of a
\* caller frees a bufferevent.
LEMMA CareStep ==
  ASSUME ~ConnectMayFail, TypeOK, Refs, ServeInv, CareInv, [Next]_vars
  PROVE  CareInv' /\ (Stopped \/ Freeless)
<1>1. TypeOK'
  BY TypeStep
<1> QED
  BY <1>1, CareMost, QuietCare, SendOrderCare, DiscOrderCare, AddOrderCare, InsertCare, NotifyCare,
     ExitJoinCare, DealConnectCare, DealSendCare, EventCare, OnMessageEndCare

\* At the start there are neither orders nor clients.
LEMMA LifeInit ==
  ASSUME Init
  PROVE  ReadyInv /\ ServeInv /\ CareInv
<1> USE IoNumAssumption, ThreadAssumption
<1>1. /\ \A i \in Ios : pc[i] = "off" /\ orderDeque[i] = <<>> /\ wakeupFd[i] = 0 /\ num[i] = 0
      /\ \A t \in Callers : pc[t] \in {"idle", "exTop"}
      /\ \A u \in Uids : cli[u].bev = "none"
      /\ used = {} /\ ioVect = {} /\ exitIothread = 0 /\ readyIothread = 0 /\ readyFails = 0
  BY DEF Init, Threads, Callers
<1>2. \A i \in Ios : Serves(i)
  <2>1. 0 % 2 = 0
    OBVIOUS
  <2>2. \A i \in Ios : ~(wakeupFd[i] % 2 = 1) /\ ~(num[i] % 2 = 1)
    BY <1>1, <2>1
  <2> QED BY <1>1, <2>2 DEF Serves
<1>3. exitIothread = Cardinality(Ended)
  <2>1. Ended = {}
    BY <1>1 DEF Ended
  <2> QED BY <1>1, <2>1, FS_EmptySet
<1>4. ServeInv
  BY <1>1, <1>2, <1>3 DEF ServeInv, Callers
<1>5. \A i \in Ios : \A k \in 1 .. Len(orderDeque[i]) : FALSE
  BY <1>1
<1>6. \A t \in Callers : ~Adding(t) /\ ~Past(t)
  BY <1>1 DEF Adding, Past
<1>7. CareInv
  BY <1>1, <1>5, <1>6 DEF CareInv
<1>8. ReadyInv
  <2>1. Up = {}
    BY <1>1 DEF Up
  <2>2. Cardinality(Up) = 0 /\ MaxReadyFail \in Nat
    BY <2>1, FS_EmptySet, BoundAssumption
  <2> QED BY <1>1, <2>2 DEF ReadyInv
<1> QED BY <1>4, <1>7, <1>8

\* A call that finds readyIothread at ioThreadNum finds every IO thread running
\* its LibeventIo, or leaving it for an exit, however often libeventIoReady has
\* failed before (libeventIoThread). The hypothesis keeps the unsigned counter
\* from coming round: fewer failures than 2^32.
THEOREM ReadyMeansAllHolds ==
  ASSUME MaxReadyFail + IoNum < UMod
  PROVE  Spec => []ReadyMeansAll
<1>1. Init => TypeOK /\ Refs /\ ReadyInv /\ ServeInv
  BY TypeInit, RefsInit, LifeInit
<1>2. TypeOK /\ Refs /\ ReadyInv /\ ServeInv /\ [Next]_vars => (TypeOK /\ Refs /\ ReadyInv /\ ServeInv)'
  BY TypeStep, RefsStep, ReadyStep, ServeStep
<1>3. TypeOK /\ ReadyInv /\ ServeInv => ReadyMeansAll
  <2> SUFFICES ASSUME TypeOK, ReadyInv, ServeInv, ioThreadNum # 0, readyIothread = ioThreadNum, NEW i \in Ios
               PROVE  /\ i \in ioVect /\ pc[i] \notin {"off", "new", "check", "done"}
                      /\ pc[i] = "left" => isExit
    BY DEF ReadyMeansAll
  <2>1. readyFails = 0 /\ i \in Up
    BY ReadyIsAll
  <2> QED BY <2>1 DEF Up, ServeInv, Serves
<1> QED BY <1>1, <1>2, <1>3, PTL DEF Spec

\* While msgCb runs, the client it runs for is referenced: libevent's raw
\* pointer stays good although callers erase the map entry meanwhile
\* (TcpClientOnMessage). The hypotheses are that the socket calls of
\* connectServer do not fail and that libeventIoReady fails fewer than 2^32
\* times.
THEOREM MsgCbClientAliveHolds ==
  ASSUME ~ConnectMayFail, MaxReadyFail + IoNum < UMod
  PROVE  Spec => []MsgCbClientAlive
<1> DEFINE LifeInv == TypeOK /\ Refs /\ ReadyInv /\ ServeInv /\ CareInv
<1>1. Init => LifeInv
  BY TypeInit, RefsInit, LifeInit
<1>2. LifeInv /\ [Next]_vars => LifeInv'
  BY TypeStep, RefsStep, ReadyStep, ServeStep, CareStep
<1>3. LifeInv => MsgCbClientAlive
  <2> SUFFICES ASSUME TypeOK, Refs, CareInv, NEW i \in Ios, pc[i] = "msgcb"
               PROVE  Referenced(cur[i])
    BY DEF MsgCbClientAlive
  <2>1. PICK u \in used : u = cur[i]
    BY DEF Refs, NamesClient, Threads
  <2>2. ~Gone(u) /\ ~Stopped
    BY <2>1 DEF CareInv, Gone, Stopped
  <2>3. Kept(u) /\ u \in Uids
    BY <2>2 DEF CareInv, Cared, TypeOK
  <2>4. Referenced(u)
    BY <2>3, KeptReferenced DEF KeepersHold, CareInv
  <2> QED BY <2>1, <2>4
<1> QED BY <1>1, <1>2, <1>3, PTL DEF Spec

\* An exit is counted before isExit is set.
ExitsInv == exits \in Nat /\ exits <= MaxExits /\ (isExit => exits # 0)

\* Only ExitCall sets isExit, and it counts.
LEMMA ExitsStep ==
  ASSUME TypeOK, ExitsInv, [Next]_vars
  PROVE  ExitsInv'
<1> USE BoundAssumption DEF mgrVars, ioVars, thVars, boundVars
<1>a. ASSUME NEW t \in Users PROVE InitStart(t) \/ InitDone(t) \/ ExitStep(t) => exits' = exits /\ isExit' = isExit
  BY DEF InitStart, InitDone, ExitStep, ExitWrite, ExitSpin, ExitJoin
<1>b. ASSUME NEW t \in Users, NEW u \in Uids \cup {NoUid}, NEW o \in {"add", "send", "reset", "disc"}, Call(t, o, u)
      PROVE  exits' = exits /\ isExit' = isExit
  BY <1>b DEF Call
<1>c. ASSUME NEW t \in Users, ExitCall(t) PROVE exits < MaxExits /\ exits' = exits + 1
  BY <1>c DEF ExitCall
<1>d. ASSUME NEW t \in Callers, CallerStep(t) PROVE exits' = exits /\ isExit' = isExit
  BY <1>d DEF CallerStep, WaitReady, Lookup, SendOrder, CallAgain, ResetPrivate, DiscOrder, Wakeup,
              Insert, ReadState, Notify, Callback, AddOrder
<1>e. ExpireStep \/ Tick \/ UNCHANGED vars => exits' = exits /\ isExit' = isExit
  BY DEF ExpireStep, ExpireTop, ExpireScan, ExpireNext, ExpireSleep, Tick, vars
<1>f. ASSUME NEW i \in Ios, IoStep(i) \/ IoReadyFail(i) \/ HandleRead(i) PROVE exits' = exits /\ isExit' = isExit
  BY <1>f DEF IoStep, IoCreate, IoReady, DealConnect, DealConnectFail, DealSend, DrainEnd, IoLeave,
              IoCheckExit, OnMessageEnd, Notify, Callback, IoReadyFail, HandleRead
<1>g. ASSUME NEW i \in Ios, NEW u \in Uids, NetEvent(i, u) \/ OnMessage(i, u) \/ OnMessageExpired(i, u)
      PROVE  exits' = exits /\ isExit' = isExit
  BY <1>g DEF NetEvent, OnConnected, OnClosed, ConnectTimeout, OnMessage, OnMessageExpired, Event
<1>1. (exits' = exits /\ isExit' = isExit) \/ (exits < MaxExits /\ exits' = exits + 1)
  BY <1>a, <1>b, <1>c, <1>d, <1>e, <1>f, <1>g DEF Next
<1>2. CASE exits' = exits /\ isExit' = isExit
  BY <1>2 DEF ExitsInv
<1>3. CASE exits < MaxExits /\ exits' = exits + 1
  BY <1>3 DEF ExitsInv
<1> QED BY <1>1, <1>2, <1>3

\* As long as the library is not told to exit, no step of an application or
\* expiry thread frees the bufferevent of a live connection: only its IO thread
\* does, libevent being used without locking.
THEOREM FreedByIoThreadHolds ==
  ASSUME ~ConnectMayFail, MaxReadyFail + IoNum < UMod, MaxExits = 0
  PROVE  Spec => FreedByIoThread
<1> DEFINE LifeInv == TypeOK /\ Refs /\ ReadyInv /\ ServeInv /\ CareInv /\ ExitsInv
<1>1. Init => LifeInv
  <2>1. Init => ExitsInv
    BY BoundAssumption DEF Init, ExitsInv
  <2> QED BY <2>1, TypeInit, RefsInit, LifeInit
<1>2. LifeInv /\ [Next]_vars => LifeInv'
  BY TypeStep, RefsStep, ReadyStep, ServeStep, CareStep, ExitsStep
<1>3. LifeInv => ~Stopped
  <2> SUFFICES ASSUME ServeInv, ExitsInv PROVE ~Stopped
    OBVIOUS
  <2>1. ~isExit
    BY DEF ExitsInv
  <2>2. 0 \in Ios
    BY IoNumAssumption DEF Ios
  <2> QED BY <2>1, <2>2 DEF ServeInv, Serves, Stopped
<1>4. LifeInv /\ [Next]_vars => [Freeless]_vars
  BY <1>3, CareStep
<1>5. [Freeless]_vars => [\A t \in Callers : pc'[t] # pc[t] =>
          \A u \in Uids : cli[u].bev # "none" => cli'[u].bev # "none"]_vars
  BY DEF Freeless
<1> QED BY <1>1, <1>2, <1>4, <1>5, PTL DEF Spec, FreedByIoThread
=============================================================================
