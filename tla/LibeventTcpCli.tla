---------------------------- MODULE LibeventTcpCli ----------------------------
(***************************************************************************)
(* The asynchronous TCP client library src/libeventcpcli: the manager      *)
(* LibeventTcpCli (public calls, connection map, expiry thread, start and  *)
(* exit), its IO threads LibeventIo (an eventfd, an order deque and a      *)
(* libevent loop each) and the connections TcpClient they serve.           *)
(*                                                                         *)
(* Every thread that may run inside the library has a program counter.     *)
(* One step is what the code does between two points where another thread  *)
(* can interfere: a critical section of mutex_ or of the deque's mutex, an *)
(* eventfd read or write, an unlocked read of a shared field, a callback.  *)
(***************************************************************************)
EXTENDS Integers, Sequences, FiniteSets

CONSTANTS
  Users,          \* application threads that call the library
  Expirer,        \* the thread of libeventIoExpireThread
  IoNum,          \* threadNum given to libeventTcpCliInit
  Uids,           \* connection numbers uniqueNumId hands out, distinct
  NoUid,          \* "no connection"
  DataOut,        \* dataOutSecond_ of every connection, in seconds
  UMod,           \* modulus of the unsigned arithmetic (2^32, 2^64 in C++)
  ConnectMayFail, \* may connectServer return a negative value?
  ExitWhenReady,  \* is libeventTcpCliExit called only after start-up?
  MaxTime,        \* bound on the clock
  MaxCalls,       \* bound on the calls of the application
  MaxExits,       \* bound on the calls of libeventTcpCliExit
  MaxReadyFail    \* bound on the failures of libeventIoReady

Ios == 0 .. IoNum - 1
Callers == Users \cup {Expirer}
Threads == Callers \cup Ios

ASSUME IoNumAssumption == IoNum \in Nat \ {0}
ASSUME UidAssumption == /\ Uids \subseteq Nat
                        /\ NoUid \notin Uids
ASSUME ThreadAssumption == /\ Expirer \notin Users
                           /\ Callers \cap Ios = {}
ASSUME BoundAssumption == /\ {DataOut, MaxTime, MaxCalls, MaxExits, MaxReadyFail} \subseteq Nat
                          /\ UMod \in Nat
                          /\ UMod > IoNum
                          /\ {ConnectMayFail, ExitWhenReady} \subseteq BOOLEAN

\* enum TcpClientState: what connCb reports
CONN_FAILED == 0
CONN_SUCCESS == 1
DIS_CONNECT == 2
States == {CONN_FAILED, CONN_SUCCESS, DIS_CONNECT}

Ops == {"none", "add", "send", "reset", "disc", "exit"}
CallerPcs == {"idle", "init", "wait", "run", "got", "wake", "insert", "state",
              "notify", "cb", "again", "exitWrite", "exitSpin", "exitJoin",
              "exTop", "exScan", "exNext", "exDone"}
IoPcs == {"off", "new", "loop", "drain", "msgcb", "notify", "cb", "left",
          "check", "done"}

VARIABLES
  isExit, started, ioThreadNum, lastIndex, readyIothread, exitIothread,
  ioVect,         \* libeventIoPtrVect: which slots hold a LibeventIo
  wakeupFd,       \* [Ios -> Nat], the eventfd counters
  orderDeque,     \* [Ios -> Seq(Order)]
  connMap,        \* the keys of tcpClientConnMap
  used,           \* connection numbers already handed out
  cli,            \* [Uids -> Client], the TcpClient objects
  now,            \* secondSinceEpoch()
  pc, op, cur,    \* per thread: where it is, in which call, about which uid
  held,           \* per thread: the TcpClientPtr in a local variable
  st,             \* per thread: the state it is about to report
  num,            \* per thread: eventfd value, sampled second, loop index
  expired,        \* uidVect of the expiry thread
  calls, exits, readyFails,
  delivered       \* [Uids -> Seq([st, by])]: the connCb calls made, in order

mgrVars == <<isExit, started, ioThreadNum, lastIndex, readyIothread, exitIothread>>
ioVars == <<ioVect, wakeupFd, orderDeque>>
thVars == <<pc, op, cur, held, st, num>>
boundVars == <<calls, exits, readyFails>>
vars == <<mgrVars, ioVars, connMap, used, cli, now, thVars, expired, boundVars, delivered>>

Order == [uid : Uids, msg : BOOLEAN]
Client == [io : Ios, sock : BOOLEAN, bev : {"none", "connecting", "up"},
           state : {CONN_FAILED, CONN_SUCCESS}, last : Nat]
Notice == [st : States, by : Threads]

Init ==
  /\ isExit = FALSE /\ started = FALSE /\ ioThreadNum = 0 /\ lastIndex = 0
  /\ readyIothread = 0 /\ exitIothread = 0
  /\ ioVect = {}
  /\ wakeupFd = [i \in Ios |-> 0]
  /\ orderDeque = [i \in Ios |-> <<>>]
  /\ connMap = {} /\ used = {}
  /\ cli = [u \in Uids |-> [io |-> 0, sock |-> FALSE, bev |-> "none",
                            state |-> CONN_FAILED, last |-> 0]]
  /\ now = 1
  /\ pc = [t \in Threads |-> IF t \in Ios THEN "off"
                             ELSE IF t = Expirer THEN "exTop" ELSE "idle"]
  /\ op = [t \in Threads |-> "none"]
  /\ cur = [t \in Threads |-> NoUid]
  /\ held = [t \in Threads |-> NoUid]
  /\ st = [t \in Threads |-> CONN_FAILED]
  /\ num = [t \in Threads |-> 0]
  /\ expired = {}
  /\ calls = 0 /\ exits = 0 /\ readyFails = 0
  /\ delivered = [u \in Uids |-> <<>>]

-----------------------------------------------------------------------------
(* Helpers: moving a thread, reference counting, unsigned arithmetic.       *)

Goto(t, p) == pc' = [pc EXCEPT ![t] = p]

\* where a public call goes back to: the application or the expiry loop
ReturnPc(t) == IF t = Expirer THEN "exNext" ELSE "idle"

\* Return from a public call: its local TcpClientPtr goes out of scope.
Return(t) ==
  /\ Goto(t, ReturnPc(t))
  /\ op' = [op EXCEPT ![t] = "none"]
  /\ cur' = [cur EXCEPT ![t] = NoUid]
  /\ held' = [held EXCEPT ![t] = NoUid]

\* Does a shared_ptr to the client exist?
Referenced(u) ==
  \/ u \in connMap
  \/ \E t \in Threads : held[t] = u
  \/ \E i \in Ios : \E k \in 1 .. Len(orderDeque[i]) : orderDeque[i][k].uid = u

\* Mutation: disConnect() without bufferevent_free.
DisconnectedKeepsBev(c) == c

\* disConnect(): free the connect timer and the bufferevent. state_ and
\* sockfd_ keep their values.
Disconnected(c) == [c EXCEPT !.bev = "none"]

\* connectServer() has got a socket and a bufferevent and started the timer.
Connecting(c) == [c EXCEPT !.sock = TRUE, !.bev = "connecting", !.last = now]

\* The clients after a step: the ones that lost their last shared_ptr in it
\* have run ~TcpClient, which frees the bufferevent.
Clients(c) ==
  cli' = [u \in Uids |-> IF Referenced(u)' THEN c[u] ELSE Disconnected(c[u])]

\* lastRecvSecond_ && ((second - lastRecvSecond_) > dataOutSecond_), on uint64_t
IsExpired(second, last) == last # 0 /\ (second - last) % UMod > DataOut

\* readyIothread--, on unsigned int
Decremented(n) == IF n = 0 THEN UMod - 1 ELSE n - 1

Enqueue(i, o) == orderDeque' = [orderDeque EXCEPT ![i] = Append(@, o)]

-----------------------------------------------------------------------------
(* Start-up: libeventTcpCliInit.                                            *)

\* The expiry thread and the pool of IO threads are started (each runs from
\* its first step as soon as it is scheduled) ...
InitStart(t) ==
  /\ t \in Users /\ pc[t] = "idle"
  /\ ~started /\ ioThreadNum = 0
  /\ started' = TRUE
  /\ Goto(t, "init")
  /\ UNCHANGED <<isExit, ioThreadNum, lastIndex, readyIothread, exitIothread,
                 ioVars, connMap, used, cli, now, op, cur, held, st, num,
                 expired, boundVars, delivered>>

\* ... and only then are the callbacks and ioThreadNum set.
InitDone(t) ==
  /\ pc[t] = "init"
  /\ ioThreadNum' = IoNum
  /\ Goto(t, "idle")
  /\ UNCHANGED <<isExit, started, lastIndex, readyIothread, exitIothread, ioVars,
                 connMap, used, cli, now, op, cur, held, st, num, expired,
                 boundVars, delivered>>

-----------------------------------------------------------------------------
(* The public calls.                                                        *)

\* A call of o about u begins. With isExit set it returns at once.
Call(t, o, u) ==
  /\ t \in Users /\ pc[t] = "idle"
  /\ started /\ calls < MaxCalls
  /\ o = "add" => u = NoUid /\ Cardinality({s \in Users : op[s] = "add" /\ cur[s] = NoUid})
                                < Cardinality(Uids \ used)
  /\ o # "add" => u \in used
  /\ calls' = calls + 1
  /\ IF isExit
       THEN UNCHANGED <<pc, op, cur>>
       ELSE /\ Goto(t, "wait")
            /\ op' = [op EXCEPT ![t] = o]
            /\ cur' = [cur EXCEPT ![t] = u]
  /\ UNCHANGED <<mgrVars, ioVars, connMap, used, cli, now, held, st, num,
                 expired, exits, readyFails, delivered>>

\* while(ioThreadNum == 0 || readyIothread != ioThreadNum) usleep(1000)
WaitReady(t) ==
  /\ pc[t] = "wait"
  /\ ioThreadNum # 0 /\ readyIothread = ioThreadNum
  /\ Goto(t, "run")
  /\ UNCHANGED <<mgrVars, ioVars, connMap, used, cli, now, op, cur, held, st,
                 num, expired, boundVars, delivered>>

\* TcpClient::TcpClient
NewClient(i) == [io |-> i, sock |-> FALSE, bev |-> "none", state |-> CONN_FAILED, last |-> now]

\* libeventAddConnect: take the next IO thread and a number, make the client
\* and queue it. With no LibeventIo in the slot the code tries the next one.
\* (lastIndex++ has a critical section of its own; no other step reads it.)
AddOrder(t, u) ==
  /\ pc[t] = "run" /\ op[t] = "add"
  /\ lastIndex' = IF lastIndex = IoNum - 1 THEN 0 ELSE lastIndex + 1
  /\ IF lastIndex \in ioVect
       THEN /\ u \in Uids \ used
            /\ used' = used \cup {u}
            /\ cur' = [cur EXCEPT ![t] = u]
            /\ held' = [held EXCEPT ![t] = u]
            /\ Enqueue(lastIndex, [uid |-> u, msg |-> FALSE])
            /\ cli' = [cli EXCEPT ![u] = NewClient(lastIndex)]
            /\ Goto(t, "wake")
       ELSE UNCHANGED <<used, cur, held, orderDeque, cli, pc>>
  /\ UNCHANGED <<isExit, started, ioThreadNum, readyIothread, exitIothread, ioVect,
                 wakeupFd, connMap, now, op, st, num, expired, boundVars, delivered>>

\* The lookup of the other calls, under mutex_: -3 when there is no such
\* connection, else a TcpClientPtr is held until the call returns.
Lookup(t) ==
  /\ pc[t] = "run" /\ op[t] \in {"send", "reset", "disc"}
  /\ IF cur[t] \in connMap
       THEN /\ held' = [held EXCEPT ![t] = cur[t]]
            /\ Goto(t, "got")
            /\ UNCHANGED <<op, cur>>
       ELSE Return(t)
  /\ UNCHANGED <<mgrVars, ioVars, connMap, used, now, st, num, expired, boundVars, delivered>>
  /\ Clients(cli)

\* libeventTcpCliSendMsg: a connection idle for too long is disconnected
\* instead (libeventTcpCliDisconnect checks isExit again), else the message
\* is queued; one of length 0 is an order without a message.
SendOrder(t) ==
  /\ pc[t] = "got" /\ op[t] = "send"
  /\ LET u == cur[t]
         i == cli[u].io
     IN IF IsExpired(now, cli[u].last) \/ i \notin ioVect
          THEN /\ op' = [op EXCEPT ![t] = "disc"]
               /\ Goto(t, "again")
               /\ cli' = IF i \notin ioVect /\ ~IsExpired(now, cli[u].last)
                           THEN [cli EXCEPT ![u].last = now] ELSE cli
               /\ UNCHANGED orderDeque
          ELSE /\ \E m \in BOOLEAN : Enqueue(i, [uid |-> u, msg |-> m])
               /\ cli' = [cli EXCEPT ![u].last = now]
               /\ Goto(t, "wake")
               /\ UNCHANGED op
  /\ UNCHANGED <<mgrVars, ioVect, wakeupFd, connMap, used, now, cur, held, st,
                 num, expired, boundVars, delivered>>

\* The isExit check of libeventTcpCliDisconnect called from inside the library.
CallAgain(t) ==
  /\ pc[t] = "again"
  /\ IF isExit THEN Return(t)
               ELSE Goto(t, "wait") /\ UNCHANGED <<op, cur, held>>
  /\ UNCHANGED <<mgrVars, ioVars, connMap, used, now, st, num, expired, boundVars, delivered>>
  /\ Clients(cli)

\* libeventTcpCliResetPrivate stores the pointer and returns.
ResetPrivate(t) ==
  /\ pc[t] = "got" /\ op[t] = "reset"
  /\ Return(t)
  /\ UNCHANGED <<mgrVars, ioVars, connMap, used, now, st, num, expired, boundVars, delivered>>
  /\ Clients(cli)

\* Mutation: libeventTcpCliDisconnect leaves the work to the map erase.
DiscWithoutOrder(t) ==
  /\ pc[t] = "got" /\ op[t] = "disc"
  /\ Goto(t, "state")
  /\ UNCHANGED <<mgrVars, ioVars, connMap, used, cli, now, op, cur, held, st, num,
                 expired, boundVars, delivered>>

\* libeventTcpCliDisconnect queues an order without a message.
DiscOrder(t) ==
  /\ pc[t] = "got" /\ op[t] = "disc"
  /\ IF cli[cur[t]].io \in ioVect
       THEN /\ Enqueue(cli[cur[t]].io, [uid |-> cur[t], msg |-> FALSE])
            /\ Goto(t, "wake")
       ELSE UNCHANGED orderDeque /\ Goto(t, "state")
  /\ UNCHANGED <<mgrVars, ioVect, wakeupFd, connMap, used, cli, now, op, cur, held,
                 st, num, expired, boundVars, delivered>>

\* Mutation: the eventfd of the thread that is next in turn is written.
WakeupNextIo(t) ==
  /\ pc[t] = "wake"
  /\ wakeupFd' = [wakeupFd EXCEPT ![lastIndex] = @ + 2]
  /\ IF op[t] = "send"
       THEN Return(t)
       ELSE /\ Goto(t, IF op[t] = "add" THEN "insert" ELSE "state")
            /\ UNCHANGED <<op, cur, held>>
  /\ UNCHANGED <<mgrVars, ioVect, orderDeque, connMap, used, now, st, num, expired,
                 boundVars, delivered>>
  /\ Clients(cli)

\* libeventIoWakeup: the second half of libeventIoOrder.
Wakeup(t) ==
  /\ pc[t] = "wake"
  /\ wakeupFd' = [wakeupFd EXCEPT ![cli[cur[t]].io] = @ + 2]
  /\ IF op[t] = "send"
       THEN Return(t)
       ELSE /\ Goto(t, IF op[t] = "add" THEN "insert" ELSE "state")
            /\ UNCHANGED <<op, cur, held>>
  /\ UNCHANGED <<mgrVars, ioVect, orderDeque, connMap, used, now, st, num, expired,
                 boundVars, delivered>>
  /\ Clients(cli)

\* libeventAddConnect enters the client in the map, after it was queued.
Insert(t) ==
  /\ pc[t] = "insert"
  /\ connMap' = connMap \cup {cur[t]}
  /\ Return(t)
  /\ UNCHANGED <<mgrVars, ioVars, used, now, st, num, expired, boundVars, delivered>>
  /\ Clients(cli)

\* libeventTcpCliDisconnect reads state_, without a lock, to choose what to report.
ReadState(t) ==
  /\ pc[t] = "state"
  /\ st' = [st EXCEPT ![t] = IF cli[cur[t]].state = CONN_FAILED
                               THEN CONN_FAILED ELSE DIS_CONNECT]
  /\ Goto(t, "notify")
  /\ UNCHANGED <<mgrVars, ioVars, connMap, used, cli, now, op, cur, held, num, expired,
                 boundVars, delivered>>

-----------------------------------------------------------------------------
(* tcpServerConnect, run by callers and by IO threads alike.                *)

\* What a thread does when tcpServerConnect is over: a call returns, an IO
\* thread goes back to draining its deque (num holds what it read from the
\* eventfd) or to its loop; a node it held is dropped.
Resume(t) ==
  IF t \in Callers
    THEN Return(t)
    ELSE /\ Goto(t, IF num[t] > 0 THEN "drain" ELSE "loop")
         /\ cur' = [cur EXCEPT ![t] = NoUid]
         /\ held' = [held EXCEPT ![t] = NoUid]
         /\ UNCHANGED op

\* Mutation: the map entry is not removed.
NotifyKeepsEntry(t) ==
  /\ pc[t] = "notify"
  /\ IF cur[t] \in connMap THEN Goto(t, "cb") /\ UNCHANGED <<op, cur, held>>
                            ELSE Resume(t)
  /\ UNCHANGED <<mgrVars, ioVars, connMap, used, now, st, num, expired, boundVars, delivered>>
  /\ Clients(cli)

\* Under mutex_: nothing for an unknown number; a report other than
\* CONN_SUCCESS removes it.
Notify(t) ==
  /\ pc[t] = "notify"
  /\ IF cur[t] \in connMap
       THEN /\ connMap' = IF st[t] = CONN_SUCCESS THEN connMap ELSE connMap \ {cur[t]}
            /\ Goto(t, "cb")
            /\ UNCHANGED <<op, cur, held>>
       ELSE /\ Resume(t)
            /\ UNCHANGED connMap
  /\ UNCHANGED <<mgrVars, ioVars, used, now, st, num, expired, boundVars, delivered>>
  /\ Clients(cli)

\* connCb, called after the mutex was released.
Callback(t) ==
  /\ pc[t] = "cb"
  /\ delivered' = [delivered EXCEPT ![cur[t]] = Append(@, [st |-> st[t], by |-> t])]
  /\ Resume(t)
  /\ UNCHANGED <<mgrVars, ioVars, connMap, used, now, st, num, expired, boundVars>>
  /\ Clients(cli)

-----------------------------------------------------------------------------
(* The IO threads: libeventIoThread and LibeventIo.                         *)

\* libeventIoPtrVect[index].reset(new LibeventIo()): a new eventfd and deque
\* take the place of the old ones.
IoCreate(i) ==
  /\ i \in Ios /\ started /\ pc[i] = "off"
  /\ ioVect' = ioVect \cup {i}
  /\ wakeupFd' = [wakeupFd EXCEPT ![i] = 0]
  /\ orderDeque' = [orderDeque EXCEPT ![i] = <<>>]
  /\ Goto(i, "new")
  /\ UNCHANGED <<op, cur, held>>
  /\ UNCHANGED <<mgrVars, connMap, used, now, st, num, expired, boundVars, delivered>>
  /\ Clients(cli)

\* Mutation: libeventIoThreadReady is not called.
IoReadyUncounted(i) ==
  /\ i \in Ios /\ pc[i] = "new"
  /\ Goto(i, "loop")
  /\ UNCHANGED <<mgrVars, ioVars, connMap, used, cli, now, op, cur, held, st, num, expired,
                 boundVars, delivered>>

\* libeventIoReady: the event base is made, readyIothread++ and dispatch ...
IoReady(i) ==
  /\ i \in Ios /\ pc[i] = "new"
  /\ readyIothread' = (readyIothread + 1) % UMod
  /\ Goto(i, "loop")
  /\ UNCHANGED <<isExit, started, ioThreadNum, lastIndex, exitIothread, ioVars, connMap,
                 used, cli, now, op, cur, held, st, num, expired, boundVars, delivered>>

\* Mutation: libeventIoThreadReady is called before the event base is made.
IoReadyFailCounted(i) ==
  /\ i \in Ios /\ pc[i] = "new"
  /\ readyFails < MaxReadyFail
  /\ readyFails' = readyFails + 1
  /\ readyIothread' = (readyIothread + 1) % UMod
  /\ Goto(i, "left")
  /\ UNCHANGED <<isExit, started, ioThreadNum, lastIndex, exitIothread, ioVars, connMap,
                 used, cli, now, op, cur, held, st, num, expired, calls, exits, delivered>>

\* ... or eventfd or event_base_new has failed and it returns -1.
IoReadyFail(i) ==
  /\ i \in Ios /\ pc[i] = "new"
  /\ readyFails < MaxReadyFail
  /\ readyFails' = readyFails + 1
  /\ Goto(i, "left")
  /\ UNCHANGED <<mgrVars, ioVars, connMap, used, cli, now, op, cur, held, st, num, expired,
                 calls, exits, delivered>>

\* handleRead: take the whole counter of the eventfd, then drain the deque.
HandleRead(i) ==
  /\ i \in Ios /\ pc[i] = "loop" /\ wakeupFd[i] > 0
  /\ num' = [num EXCEPT ![i] = wakeupFd[i]]
  /\ wakeupFd' = [wakeupFd EXCEPT ![i] = 0]
  /\ Goto(i, "drain")
  /\ UNCHANGED <<mgrVars, ioVect, orderDeque, connMap, used, cli, now, op, cur, held, st,
                 expired, boundVars, delivered>>

\* Mutation: connectServer does not store sockfd_.
DealConnectNoSock(i) ==
  /\ i \in Ios /\ pc[i] = "drain" /\ orderDeque[i] # <<>>
  /\ ~cli[Head(orderDeque[i]).uid].sock
  /\ orderDeque' = [orderDeque EXCEPT ![i] = Tail(@)]
  /\ UNCHANGED <<mgrVars, ioVect, wakeupFd, connMap, used, now, thVars, expired,
                 boundVars, delivered>>
  /\ LET u == Head(orderDeque[i]).uid
     IN Clients([cli EXCEPT ![u] = [Connecting(@) EXCEPT !.sock = FALSE]])

\* The next order of the deque. A client without a socket is connected,
\* whatever the order says ...
DealConnect(i) ==
  /\ i \in Ios /\ pc[i] = "drain" /\ orderDeque[i] # <<>>
  /\ ~cli[Head(orderDeque[i]).uid].sock
  /\ orderDeque' = [orderDeque EXCEPT ![i] = Tail(@)]
  /\ UNCHANGED <<mgrVars, ioVect, wakeupFd, connMap, used, now, thVars, expired,
                 boundVars, delivered>>
  /\ LET u == Head(orderDeque[i]).uid
     IN Clients([cli EXCEPT ![u] = Connecting(@)])

\* ... and when that fails at once, tcpServerConnect reports it. (What
\* connectServer may leave in bev_ then has no socket and is not a connection:
\* the next connectServer replaces it, else it goes with the client.)
DealConnectFail(i) ==
  /\ i \in Ios /\ pc[i] = "drain" /\ orderDeque[i] # <<>>
  /\ ConnectMayFail /\ ~cli[Head(orderDeque[i]).uid].sock
  /\ orderDeque' = [orderDeque EXCEPT ![i] = Tail(@)]
  /\ cur' = [cur EXCEPT ![i] = Head(orderDeque[i]).uid]
  /\ held' = [held EXCEPT ![i] = Head(orderDeque[i]).uid]
  /\ st' = [st EXCEPT ![i] = CONN_FAILED]
  /\ Goto(i, "notify")
  /\ UNCHANGED <<mgrVars, ioVect, wakeupFd, connMap, used, cli, now, op, num, expired,
                 boundVars, delivered>>

\* For the others the message is written to the bufferevent (or lost, when
\* there is none any more), and an empty message means disconnect.
DealSend(i) ==
  /\ i \in Ios /\ pc[i] = "drain" /\ orderDeque[i] # <<>>
  /\ cli[Head(orderDeque[i]).uid].sock
  /\ orderDeque' = [orderDeque EXCEPT ![i] = Tail(@)]
  /\ UNCHANGED <<mgrVars, ioVect, wakeupFd, connMap, used, now, thVars, expired,
                 boundVars, delivered>>
  /\ LET o == Head(orderDeque[i])
     IN Clients(IF o.msg THEN cli ELSE [cli EXCEPT ![o.uid] = Disconnected(@)])

\* Mutation: the counter is compared with what libeventIoExit writes.
DrainEndExact(i) ==
  /\ i \in Ios /\ pc[i] = "drain" /\ orderDeque[i] = <<>>
  /\ Goto(i, IF num[i] = 1 THEN "left" ELSE "loop")
  /\ num' = [num EXCEPT ![i] = 0]
  /\ UNCHANGED <<mgrVars, ioVars, connMap, used, cli, now, op, cur, held, st, expired,
                 boundVars, delivered>>

\* The deque is empty: an odd counter means libeventIoExit has written to it.
DrainEnd(i) ==
  /\ i \in Ios /\ pc[i] = "drain" /\ orderDeque[i] = <<>>
  /\ Goto(i, IF num[i] % 2 = 1 THEN "left" ELSE "loop")
  /\ num' = [num EXCEPT ![i] = 0]
  /\ UNCHANGED <<mgrVars, ioVars, connMap, used, cli, now, op, cur, held, st, expired,
                 boundVars, delivered>>

\* dispatch has returned: readyIothread--, under mutex_.
IoLeave(i) ==
  /\ i \in Ios /\ pc[i] = "left"
  /\ readyIothread' = Decremented(readyIothread)
  /\ Goto(i, "check")
  /\ UNCHANGED <<isExit, started, ioThreadNum, lastIndex, exitIothread, ioVars, connMap,
                 used, cli, now, op, cur, held, st, num, expired, boundVars, delivered>>

\* The thread ends when isExit is set, else it starts over with a new LibeventIo.
IoCheckExit(i) ==
  /\ i \in Ios /\ pc[i] = "check"
  /\ IF isExit
       THEN exitIothread' = exitIothread + 1 /\ Goto(i, "done")
       ELSE UNCHANGED exitIothread /\ Goto(i, "off")
  /\ UNCHANGED <<isExit, started, ioThreadNum, lastIndex, readyIothread, ioVars, connMap,
                 used, cli, now, op, cur, held, st, num, expired, boundVars, delivered>>

-----------------------------------------------------------------------------
(* The libevent callbacks of TcpClient.cpp. They get the client as a raw    *)
(* pointer and run in its IO thread, between two passes of its loop.        *)

\* An event of client u is served by thread i: u is left as c and report s
\* is made about it.
Event(i, u, c, s) ==
  /\ i \in Ios /\ pc[i] = "loop"
  /\ cli[u].io = i
  /\ cli' = [cli EXCEPT ![u] = c]
  /\ cur' = [cur EXCEPT ![i] = u]
  /\ st' = [st EXCEPT ![i] = s]
  /\ Goto(i, "notify")
  /\ UNCHANGED <<mgrVars, ioVars, connMap, used, now, op, held, num, expired,
                 boundVars, delivered>>

\* TcpClientOnEvent, BEV_EVENT_CONNECTED: tcpClieSetconn frees the timer.
OnConnected(i, u) ==
  /\ cli[u].bev = "connecting"
  /\ Event(i, u, [cli[u] EXCEPT !.bev = "up", !.state = CONN_SUCCESS], CONN_SUCCESS)

\* TcpClientOnEvent, end of file, error or timeout of the bufferevent.
OnClosed(i, u) ==
  /\ cli[u].bev # "none"
  /\ Event(i, u, Disconnected(cli[u]),
           IF cli[u].state = CONN_FAILED THEN CONN_FAILED ELSE DIS_CONNECT)

\* connectTimeout: the timer runs while the client is connecting.
ConnectTimeout(i, u) ==
  /\ cli[u].bev = "connecting" /\ cli[u].state = CONN_FAILED
  /\ Event(i, u, Disconnected(cli[u]), CONN_FAILED)

\* TcpClientOnMessage when setRecvSecond says the connection has expired.
OnMessageExpired(i, u) ==
  /\ cli[u].bev = "up" /\ IsExpired(now, cli[u].last)
  /\ Event(i, u, Disconnected(cli[u]), DIS_CONNECT)

\* TcpClientOnMessage otherwise: msgCb runs on the bytes of the input buffer ...
OnMessage(i, u) ==
  /\ i \in Ios /\ pc[i] = "loop" /\ cli[u].io = i
  /\ cli[u].bev = "up" /\ ~IsExpired(now, cli[u].last)
  /\ cli' = [cli EXCEPT ![u].last = now]
  /\ cur' = [cur EXCEPT ![i] = u]
  /\ Goto(i, "msgcb")
  /\ UNCHANGED <<mgrVars, ioVars, connMap, used, now, op, held, st, num, expired,
                 boundVars, delivered>>

\* ... and what it used is drained from the buffer of the same bufferevent;
\* a failure to drain is a disconnect.
OnMessageEnd(i) ==
  /\ i \in Ios /\ pc[i] = "msgcb"
  /\ \/ /\ Goto(i, "loop")
        /\ cur' = [cur EXCEPT ![i] = NoUid]
        /\ UNCHANGED <<cli, st>>
     \/ /\ cli' = [cli EXCEPT ![cur[i]] = Disconnected(@)]
        /\ st' = [st EXCEPT ![i] = DIS_CONNECT]
        /\ Goto(i, "notify")
        /\ UNCHANGED cur
  /\ UNCHANGED <<mgrVars, ioVars, connMap, used, now, op, held, num, expired,
                 boundVars, delivered>>

-----------------------------------------------------------------------------
(* The expiry thread: libeventIoExpireThread.                               *)

\* isExit ends the loop; else the second is sampled, before mutex_ is taken.
ExpireTop ==
  /\ started /\ pc[Expirer] = "exTop"
  /\ IF isExit THEN Goto(Expirer, "exDone") /\ UNCHANGED num
               ELSE Goto(Expirer, "exScan") /\ num' = [num EXCEPT ![Expirer] = now]
  /\ UNCHANGED <<mgrVars, ioVars, connMap, used, cli, now, op, cur, held, st, expired,
                 boundVars, delivered>>

\* Under mutex_: collect the connections that are not isKeepAlive(second).
ExpireScan ==
  /\ pc[Expirer] = "exScan"
  /\ expired' = {u \in connMap : IsExpired(num[Expirer], cli[u].last)}
  /\ Goto(Expirer, "exNext")
  /\ UNCHANGED <<mgrVars, ioVars, connMap, used, cli, now, op, cur, held, st, num,
                 boundVars, delivered>>

\* libeventTcpCliDisconnect for each of them, in the order of the map.
ExpireNext ==
  /\ pc[Expirer] = "exNext"
  /\ expired # {}
  /\ \E u \in expired :
       /\ \A v \in expired : u <= v
       /\ expired' = expired \ {u}
       /\ IF isExit THEN UNCHANGED <<pc, op, cur>>
                    ELSE /\ Goto(Expirer, "wait")
                         /\ op' = [op EXCEPT ![Expirer] = "disc"]
                         /\ cur' = [cur EXCEPT ![Expirer] = u]
  /\ UNCHANGED <<mgrVars, ioVars, connMap, used, cli, now, held, st, num, boundVars, delivered>>

\* All done: isExit again, then sleep(1).
ExpireSleep ==
  /\ pc[Expirer] = "exNext" /\ expired = {}
  /\ Goto(Expirer, IF isExit THEN "exDone" ELSE "exTop")
  /\ UNCHANGED <<mgrVars, ioVars, connMap, used, cli, now, op, cur, held, st, num,
                 expired, boundVars, delivered>>

-----------------------------------------------------------------------------
(* libeventTcpCliExit.                                                      *)

\* isExit is set; before libeventTcpCliInit has finished that is all.
ExitCall(t) ==
  /\ t \in Users /\ pc[t] = "idle"
  /\ exits < MaxExits
  /\ ExitWhenReady => ioThreadNum # 0 /\ readyIothread = ioThreadNum
  /\ exits' = exits + 1
  /\ isExit' = TRUE
  /\ num' = [num EXCEPT ![t] = 0]
  /\ IF ioThreadNum = 0
       THEN UNCHANGED <<pc, op>>
       ELSE Goto(t, "exitWrite") /\ op' = [op EXCEPT ![t] = "exit"]
  /\ UNCHANGED <<started, ioThreadNum, lastIndex, readyIothread, exitIothread, ioVars,
                 connMap, used, cli, now, cur, held, st, expired, calls, readyFails, delivered>>

\* libeventIoExit for each slot that holds a LibeventIo, one after the other.
ExitWrite(t) ==
  /\ pc[t] = "exitWrite"
  /\ IF num[t] < IoNum
       THEN /\ wakeupFd' = IF num[t] \in ioVect THEN [wakeupFd EXCEPT ![num[t]] = @ + 1]
                                                ELSE wakeupFd
            /\ num' = [num EXCEPT ![t] = @ + 1]
            /\ UNCHANGED pc
       ELSE Goto(t, "exitSpin") /\ UNCHANGED <<wakeupFd, num>>
  /\ UNCHANGED <<mgrVars, ioVect, orderDeque, connMap, used, cli, now, op, cur, held, st,
                 expired, boundVars, delivered>>

\* while(exitIothread != ioThreadNum) usleep(1000); then the pool is stopped.
ExitSpin(t) ==
  /\ pc[t] = "exitSpin"
  /\ exitIothread = ioThreadNum
  /\ Goto(t, "exitJoin")
  /\ UNCHANGED <<mgrVars, ioVars, connMap, used, cli, now, op, cur, held, st, num, expired,
                 boundVars, delivered>>

\* The expiry thread is joined and the LibeventIo objects are destroyed.
ExitJoin(t) ==
  /\ pc[t] = "exitJoin"
  /\ pc[Expirer] = "exDone"
  /\ ioVect' = {}
  /\ orderDeque' = [i \in Ios |-> <<>>]
  /\ Return(t)
  /\ UNCHANGED <<mgrVars, wakeupFd, connMap, used, now, st, num, expired, boundVars, delivered>>
  /\ Clients(cli)

\* One second passes.
Tick ==
  /\ now < MaxTime
  /\ now' = now + 1
  /\ UNCHANGED <<mgrVars, ioVars, connMap, used, cli, thVars, expired, boundVars, delivered>>

-----------------------------------------------------------------------------
\* A step of a public call that has begun, in a caller t.
CallerStep(t) ==
  \/ WaitReady(t) \/ Lookup(t) \/ SendOrder(t) \/ CallAgain(t) \/ ResetPrivate(t)
  \/ DiscOrder(t) \/ Wakeup(t) \/ Insert(t) \/ ReadState(t) \/ Notify(t) \/ Callback(t)
  \/ \E u \in Uids : AddOrder(t, u)

ExitStep(t) == ExitWrite(t) \/ ExitSpin(t) \/ ExitJoin(t)

ExpireStep == ExpireTop \/ ExpireScan \/ ExpireNext \/ ExpireSleep

\* A step of an IO thread outside its libevent loop or in a callback of it.
IoStep(i) ==
  \/ IoCreate(i) \/ IoReady(i) \/ DealConnect(i) \/ DealConnectFail(i) \/ DealSend(i)
  \/ DrainEnd(i) \/ IoLeave(i) \/ IoCheckExit(i) \/ OnMessageEnd(i) \/ Notify(i) \/ Callback(i)

\* What the network or a timer makes the loop of thread i do about u.
NetEvent(i, u) ==
  OnConnected(i, u) \/ OnClosed(i, u) \/ ConnectTimeout(i, u)

Next ==
  \/ \E t \in Users : \/ InitStart(t) \/ InitDone(t) \/ ExitCall(t) \/ ExitStep(t)
                      \/ \E u \in Uids \cup {NoUid} :
                           \E o \in {"add", "send", "reset", "disc"} : Call(t, o, u)
  \/ \E t \in Callers : CallerStep(t)
  \/ ExpireStep
  \/ \E i \in Ios : \/ IoStep(i) \/ IoReadyFail(i) \/ HandleRead(i)
                    \/ \E u \in Uids : \/ NetEvent(i, u) \/ OnMessage(i, u)
                                       \/ OnMessageExpired(i, u)
  \/ Tick

Spec == Init /\ [][Next]_vars

\* Threads that can move do move. Each pass of a libevent loop serves every
\* descriptor that is ready and every timer that is due, so neither the
\* eventfd nor the connect timer of a client is passed over for ever.
Fairness ==
  /\ \A t \in Users : WF_vars(InitDone(t)) /\ WF_vars(ExitStep(t))
  /\ \A t \in Callers : WF_vars(CallerStep(t))
  /\ WF_vars(ExpireStep)
  /\ \A i \in Ios : WF_vars(IoStep(i)) /\ SF_vars(HandleRead(i))
  /\ \A i \in Ios, u \in Uids : SF_vars(ConnectTimeout(i, u))

FairSpec == Spec /\ Fairness

-----------------------------------------------------------------------------
(* Properties                                                               *)

TypeOK ==
  /\ isExit \in BOOLEAN /\ started \in BOOLEAN
  /\ ioThreadNum \in {0, IoNum} /\ lastIndex \in Ios
  /\ readyIothread \in 0 .. UMod - 1 /\ exitIothread \in Nat
  /\ ioVect \subseteq Ios
  /\ wakeupFd \in [Ios -> Nat]
  /\ orderDeque \in [Ios -> Seq(Order)]
  /\ connMap \subseteq Uids /\ used \subseteq Uids
  /\ cli \in [Uids -> Client]
  /\ now \in Nat
  /\ pc \in [Threads -> CallerPcs \cup IoPcs]
  /\ op \in [Threads -> Ops]
  /\ cur \in [Threads -> Uids \cup {NoUid}]
  /\ held \in [Threads -> Uids \cup {NoUid}]
  /\ st \in [Threads -> States]
  /\ num \in [Threads -> Nat]
  /\ expired \subseteq Uids
  /\ calls \in Nat /\ exits \in Nat /\ readyFails \in Nat
  /\ delivered \in [Uids -> Seq(Notice)]

Terminal(n) == n.st # CONN_SUCCESS

\* The end of a connection is reported to the application at most once, and
\* its beginning at most once, although the application, the expiry thread
\* and the connection's IO thread may all find out about it at the same time
\* and each calls tcpServerConnect.
ReportedOnce ==
  \A u \in Uids : \A j, k \in DOMAIN delivered[u] :
    j # k => Terminal(delivered[u][j]) # Terminal(delivered[u][k])

\* Thread i is in its loop, or in a callback called from it.
InLoop(i) == pc[i] \in {"loop", "msgcb"} \/ (pc[i] \in {"notify", "cb"} /\ num[i] = 0)

\* A public call that finds readyIothread at ioThreadNum can rely on the IO
\* threads: each has its LibeventIo and runs it, or leaves it for an exit. The
\* counter is unsigned, and libeventIoThread takes one off for an attempt that
\* failed before it was counted, too.
ReadyMeansAll ==
  ioThreadNum # 0 /\ readyIothread = ioThreadNum =>
    \A i \in Ios : /\ i \in ioVect /\ pc[i] \notin {"off", "new", "check", "done"}
                   /\ pc[i] = "left" => isExit

\* libeventIoOrder queues first and writes the eventfd second, handleRead reads
\* the eventfd first and drains second: an order never waits in the deque of a
\* thread that will not be woken for it.
NoLostWakeup ==
  \A i \in Ios :
    InLoop(i) /\ orderDeque[i] # <<>> =>
      wakeupFd[i] > 0 \/ \E t \in Callers : pc[t] = "wake" /\ cli[cur[t]].io = i

\* TcpClientOnMessage goes on using its raw TcpClient pointer after msgCb has
\* returned: no other thread destroys the client in between. It is the order
\* that libeventTcpCliDisconnect queues before it erases the map entry that
\* keeps the client alive.
MsgCbClientAlive ==
  \A i \in Ios : pc[i] = "msgcb" => Referenced(cur[i])

\* Only its IO thread frees the bufferevent of a live connection (libevent is
\* used without locking): no step of a caller does.
FreedByIoThread ==
  [][\A t \in Callers : pc'[t] # pc[t] =>
       \A u \in Uids : cli[u].bev # "none" => cli'[u].bev # "none"]_vars

\* Once the application has been told that a connection is gone, its socket
\* is closed and stays closed.
ReportedGoneIsClosed ==
  \A u \in Uids :
    (\E k \in DOMAIN delivered[u] : Terminal(delivered[u][k])) ~> [](cli[u].bev = "none")

\* Every public call returns.
CallsReturn ==
  \A t \in Users : pc[t] # "idle" ~> pc[t] = "idle"

\* One libeventTcpCliExit makes every IO thread leave its loop and end.
ExitStopsIo == isExit ~> exitIothread = IoNum

\* LibeventTcpCli.h, above TcpConnectCallback: state 2 is "disconnected after
\* the connection succeeded", so it follows a report of success.
DisconnectAfterSuccess ==
  \A u \in Uids : \A k \in DOMAIN delivered[u] :
    delivered[u][k].st = DIS_CONNECT =>
      \E j \in 1 .. k - 1 : delivered[u][j].st = CONN_SUCCESS

\* LibeventTcpCli.h, above TcpConnectCallback: the library notifies the
\* application that a connection was made. It is up, its IO thread is done
\* with the event, so the application has been told.
ConnectIsReported ==
  \A u \in connMap :
    cli[u].bev = "up" /\ cur[cli[u].io] # u =>
      \E k \in DOMAIN delivered[u] : delivered[u][k].st = CONN_SUCCESS

\* LibeventTcpCli.h, above libeventAddConnect: a connection is given up when
\* there was no data on it for more than dataOutSecond.
ExpiredWereIdle ==
  [][ExpireScan => \A u \in expired' : now - cli[u].last > DataOut]_vars

\* LibeventTcpCli.h, above libeventAddConnect: when memory runs out the library
\* keeps trying until it gets it, so the call returns in the end.
AddReturns ==
  \A t \in Users : op[t] = "add" ~> op[t] # "add"

\* LibeventTcpCli.h, above libeventTcpCliExit: the call blocks until the module
\* has stopped (main_test.cpp then ends the process).
ExitReturns ==
  \A t \in Users : op[t] = "exit" ~> op[t] # "exit"

=============================================================================
