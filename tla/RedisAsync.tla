----------------------------- MODULE RedisAsync -----------------------------
(***************************************************************************)
(* redisAsyn v1.0 with one single-node server: the callers of              *)
(* redisAsyncCommand, the IO thread that owns the connection (LibeventIo,  *)
(* RedisClient), the timer thread, the callback pool, and redisAsyncExit.  *)
(* hiredis is modelled by the callbacks it makes: ctx is its connection    *)
(* and replies the commands it has sent, which are answered in order.      *)
(***************************************************************************)
EXTENDS Integers, Sequences, FiniteSets

CONSTANTS
  Users, Cbs,           \* application threads, threads of callBackPoolPtr
  Cmds, NoCmd,          \* the commands, each used once, all with a callback
  OutSecond,            \* the timeout the application gives
  DelaySecond,          \* DEFAULT_DELAY_CMD_SECOND
  MaxTime,              \* bound on the clock
  MaxDrops, MaxFails,   \* bounds on lost connections and failed attempts
  MayExit, QuietExit    \* whether redisAsyncExit is called, and only when no
                        \* command is being made or made later

ASSUME RedisAssumption ==
  /\ NoCmd \notin Cmds
  /\ OutSecond \in Nat \ {0} /\ DelaySecond \in Nat
  /\ {MaxTime, MaxDrops, MaxFails} \subseteq Nat
  /\ {MayExit, QuietExit} \subseteq BOOLEAN
  /\ IsFiniteSet(Cmds) /\ IsFiniteSet(Users) /\ IsFiniteSet(Cbs)

Svr == {"INIT", "RUNING", "ERROR"}

VARIABLES
  nowSecond, timerPc, timerExit,  \* RedisAsync: clock and timer thread
  timerList,                      \* TimerOrderDeque
  pc, cur, at,                    \* per caller: place, command, second sampled
  deque, wakeupFd,                \* LibeventIo: orders, and the eventfd (see Written)
  ioPc, one, ioNow, lastSecond,   \* the IO thread, its value read, nowSecond_, lastSecond_
  state, pending,                 \* RedisClient: state_, cmdSeqOrderMap_ by sequence number
  ctx, replies,                   \* hiredis: the connection, commands sent
  initState, told,                \* the server's state, and the last one told by stateCb_
  results, tasks, pool,           \* CmdResultQueue, callBackPoolPtr
  cbPc, cbTask,                   \* per callback thread
  asyncNum, isExit, exitPc,       \* asyncCmdNum, redisAsyncExit
  deadline, answered, orphans,    \* per command: cmdOutSecond_, callbacks made; commands that
                                  \* were pending when the connection was lost
  drops, fails, crashed           \* a use of callBackPoolPtr after its reset ends the program

timerVars == <<nowSecond, timerPc, timerExit, timerList>>
userVars == <<pc, cur, at>>
ioVars == <<deque, wakeupFd, ioPc, one, ioNow, lastSecond>>
cliVars == <<state, pending, ctx, replies>>
svrVars == <<initState, told>>
poolVars == <<results, tasks, pool, cbPc, cbTask, asyncNum>>
exitVars == <<isExit, exitPc>>
logVars == <<deadline, answered, orphans, drops, fails, crashed>>
vars == <<timerVars, userVars, ioVars, cliVars, svrVars, poolVars, exitVars, logVars>>

Order == [cmd : Cmds \cup {NoCmd}, out : Nat]
Connect == [cmd |-> NoCmd, out |-> 0]

\* redisAsyncInit and addSigleRedisInfo have returned: the first connect
\* order is queued and the IO thread is about to enter its loop.
Init ==
  /\ nowSecond = 1 /\ timerPc = "sleep" /\ timerExit = FALSE /\ timerList = <<>>
  /\ pc = [u \in Users |-> "idle"] /\ cur = [u \in Users |-> NoCmd] /\ at = [u \in Users |-> 0]
  /\ deque = <<Connect>> /\ wakeupFd = 2
  /\ ioPc = "loop" /\ one = 0 /\ ioNow = 1 /\ lastSecond = 0
  /\ state = "INIT" /\ pending = <<>> /\ ctx = "none" /\ replies = <<>>
  /\ initState = "INIT" /\ told = "INIT"
  /\ results = <<>> /\ tasks = <<>> /\ pool = "up" /\ asyncNum = 0
  /\ cbPc = [t \in Cbs |-> "idle"] /\ cbTask = [t \in Cbs |-> NoCmd]
  /\ isExit = FALSE /\ exitPc = "idle"
  /\ deadline = [c \in Cmds |-> 0] /\ answered = [c \in Cmds |-> 0] /\ orphans = {}
  /\ drops = 0 /\ fails = 0 /\ crashed = FALSE

-----------------------------------------------------------------------------
(* The eventfd: only zero or not, and odd or even, are told apart.          *)
Written(k) == LET sum == wakeupFd + k IN IF sum > 3 THEN 2 + (sum % 2) ELSE sum

\* libeventIoWakeup
Wakeup(now) == ioNow' = now /\ wakeupFd' = Written(2)

\* insertCmdResult for each of rs, then the tasks ts: callBackPoolPtr->run
Post(rs, ts) ==
  /\ pool # "gone"
  /\ results' = results \o rs
  /\ tasks' = tasks \o [k \in 1 .. Len(rs) |-> "reply"] \o ts
  /\ UNCHANGED crashed

\* callBackPoolPtr is null
PostCrash ==
  /\ pool = "gone"
  /\ crashed' = TRUE
  /\ UNCHANGED <<results, tasks>>

Posted(rs, ts) == Post(rs, ts) \/ PostCrash

\* insertTimerOrder: before the first order that is not due earlier
TimerInsert(out) ==
  LET k == CHOOSE k \in 1 .. Len(timerList) + 1 :
             /\ k <= Len(timerList) => out <= timerList[k].out
             /\ \A j \in 1 .. k - 1 : out > timerList[j].out
  IN timerList' = SubSeq(timerList, 1, k - 1) \o <<[Connect EXCEPT !.out = out]>>
                  \o SubSeq(timerList, k, Len(timerList))

-----------------------------------------------------------------------------
(* redisAsyncCommand; a call that is refused changes nothing. The command   *)
(* is counted (asyncRequestCmdAdd),                                         *)
Command(u, c) ==
  /\ pc[u] = "idle" /\ deadline[c] = 0 /\ nowSecond + OutSecond < MaxTime
  /\ ~(QuietExit /\ isExit)
  /\ initState = "RUNING" /\ state = "CONN"
  /\ deadline' = [deadline EXCEPT ![c] = nowSecond + OutSecond]
  /\ asyncNum' = asyncNum + 1
  /\ at' = [at EXCEPT ![u] = nowSecond]
  /\ cur' = [cur EXCEPT ![u] = c]
  /\ pc' = [pc EXCEPT ![u] = "push"]
  /\ UNCHANGED <<timerVars, ioVars, cliVars, svrVars, results, tasks, pool, cbPc, cbTask, exitVars,
                 answered, orphans, drops, fails, crashed>>

\* queued (orderNodeInsert),
Push(u) ==
  /\ pc[u] = "push"
  /\ deque' = Append(deque, [cmd |-> cur[u], out |-> deadline[cur[u]]])
  /\ pc' = [pc EXCEPT ![u] = "wake"]
  /\ UNCHANGED <<timerVars, cur, at, wakeupFd, ioPc, one, ioNow, lastSecond, cliVars, svrVars,
                 poolVars, exitVars, logVars>>

\* and the IO thread is woken, with the second sampled at the call
Wake(u) ==
  /\ pc[u] = "wake"
  /\ Wakeup(at[u])
  /\ pc' = [pc EXCEPT ![u] = "idle"] /\ cur' = [cur EXCEPT ![u] = NoCmd]
  /\ at' = [at EXCEPT ![u] = 0]
  /\ UNCHANGED <<timerVars, deque, ioPc, one, lastSecond, cliVars, svrVars, poolVars, exitVars,
                 logVars>>

-----------------------------------------------------------------------------
(* timerThreadRun: every second the IO thread is woken. (The last second of  *)
(* the bounded clock comes after the calls that sampled an earlier one.)    *)
TimerTick ==
  /\ timerPc = "sleep" /\ ~timerExit /\ nowSecond < MaxTime
  /\ nowSecond = MaxTime - 1 => \A u \in Users : pc[u] = "idle"
  /\ nowSecond' = nowSecond + 1
  /\ Wakeup(nowSecond + 1)
  /\ timerPc' = "deal"
  /\ UNCHANGED <<timerExit, timerList, userVars, deque, ioPc, one, lastSecond, cliVars, svrVars,
                 poolVars, exitVars, logVars>>

Due == timerList # <<>> /\ nowSecond >= Head(timerList).out

\* then the orders that are due (dealTimerOrder) go to it: libeventIoOrder
\* queues each
TimerDeal ==
  /\ timerPc = "deal" /\ Due
  /\ timerList' = Tail(timerList)
  /\ deque' = Append(deque, Connect)
  /\ timerPc' = "wake"
  /\ UNCHANGED <<nowSecond, timerExit, userVars, wakeupFd, ioPc, one, ioNow, lastSecond, cliVars,
                 svrVars, poolVars, exitVars, logVars>>

\* and wakes the thread.
TimerWake ==
  /\ timerPc = "wake"
  /\ Wakeup(nowSecond)
  /\ timerPc' = "deal"
  /\ UNCHANGED <<nowSecond, timerExit, timerList, userVars, deque, ioPc, one, lastSecond, cliVars,
                 svrVars, poolVars, exitVars, logVars>>

TimerEnd ==
  /\ \/ timerPc = "deal" /\ ~Due /\ timerPc' = "sleep"
     \/ timerPc = "sleep" /\ timerExit /\ timerPc' = "done"
  /\ UNCHANGED <<nowSecond, timerExit, timerList, userVars, ioVars, cliVars, svrVars, poolVars,
                 exitVars, logVars>>

-----------------------------------------------------------------------------
(* redisSvrOnConnect for a single server                                    *)
OnSuccess ==
  IF initState = "RUNING" THEN UNCHANGED <<initState, results, tasks, crashed>>
  ELSE initState' = "RUNING" /\ Posted(<<>>, <<"RUNING">>)

\* Mutation: only the first connection is tried again.
OnResetInit ==
  IF initState # "INIT" THEN UNCHANGED <<timerList, results, tasks, crashed>>
  ELSE TimerInsert(nowSecond + DelaySecond) /\ Posted(<<>>, <<>>)

\* CONNECT_REDISVR_RESET: the exception callback and delayReconnect
OnReset ==
  IF initState = "RUNING" THEN UNCHANGED <<timerList, results, tasks, crashed>>
  ELSE TimerInsert(nowSecond + DelaySecond) /\ Posted(<<>>, <<>>)

\* Mutation: the state callback is bound before the state changes.
OnDisconnTold(rs) ==
  IF initState # "RUNING" THEN Posted(rs, <<>>) /\ UNCHANGED <<initState, timerList>>
  ELSE /\ initState' = "ERROR"
       /\ Posted(rs, <<initState>>)
       /\ TimerInsert(0)

\* REDISVR_CONNECT_DISCONN, after the results rs: reconnectAtOnece
OnDisconn(rs) ==
  IF initState # "RUNING" THEN Posted(rs, <<>>) /\ UNCHANGED <<initState, timerList>>
  ELSE /\ initState' = "ERROR"
       /\ Posted(rs, <<"ERROR">>)
       /\ TimerInsert(0)

-----------------------------------------------------------------------------
(* handleRead of the IO thread                                              *)
HandleRead ==
  /\ ioPc = "loop" /\ wakeupFd # 0
  /\ one' = wakeupFd % 2
  /\ wakeupFd' = 0
  /\ ioPc' = "drain"
  /\ UNCHANGED <<timerVars, userVars, deque, ioNow, lastSecond, cliVars, svrVars, poolVars, exitVars,
                 logVars>>

Deal == ioPc = "drain" /\ deque # <<>> /\ deque' = Tail(deque)
Late(n) == n.out # 0 /\ ioNow > n.out
DealRest == <<timerVars, userVars, wakeupFd, ioPc, one, ioNow, lastSecond, svrVars, pool, cbPc, cbTask,
              asyncNum, exitVars, deadline, answered, orphans, drops>>

\* A command that is late, or finds no connection, is answered at once.
DealAnswer ==
  /\ Deal
  /\ LET n == Head(deque) IN
       /\ n.cmd # NoCmd /\ (Late(n) \/ state = "INIT")
       /\ Posted(<<n.cmd>>, <<>>)
  /\ UNCHANGED <<DealRest, cliVars, fails>>

\* requestCmd: hiredis sends it,
DealCommand ==
  /\ Deal
  /\ LET n == Head(deque) IN
       /\ n.cmd # NoCmd /\ ~Late(n) /\ state = "CONN"
       /\ pending' = Append(pending, n.cmd)
       /\ replies' = Append(replies, n.cmd)
  /\ UNCHANGED <<DealRest, state, ctx, results, tasks, fails, crashed>>

\* or refuses it
DealCommandFail ==
  /\ Deal
  /\ LET n == Head(deque) IN
       /\ n.cmd # NoCmd /\ ~Late(n) /\ state = "CONN"
       /\ Posted(<<n.cmd>>, <<>>)
  /\ UNCHANGED <<DealRest, cliVars, fails>>

\* A connect order. (One that finds the client connected is taken for a
\* disconnect order; OneDriver says that there is none.)
DealConnect ==
  /\ Deal /\ Head(deque).cmd = NoCmd /\ state = "INIT"
  /\ ctx' = "connecting"
  /\ UNCHANGED <<DealRest, state, pending, replies, results, tasks, fails, crashed>>

\* connectServer fails at once
DealConnectFail ==
  /\ Deal /\ Head(deque).cmd = NoCmd /\ state = "INIT"
  /\ fails < MaxFails /\ fails' = fails + 1 /\ nowSecond + DelaySecond <= MaxTime
  /\ OnReset
  /\ UNCHANGED <<nowSecond, timerPc, timerExit, userVars, wakeupFd, ioPc, one, ioNow, lastSecond,
                 cliVars, svrVars, pool, cbPc, cbTask, asyncNum, exitVars, deadline, answered,
                 orphans, drops>>

\* The deque is empty and the value read is odd: loopbreak, and isExit_ is set.
DrainLeave ==
  /\ ioPc = "drain" /\ deque = <<>> /\ one = 1
  /\ ioPc' = "done"
  /\ UNCHANGED <<timerVars, userVars, deque, wakeupFd, one, ioNow, lastSecond, cliVars, svrVars,
                 poolVars, exitVars, logVars>>

Overdue(c) == ioNow > deadline[c]

Members(s) == {s[k] : k \in 1 .. Len(s)}

\* The members T of s, in the order of s (there is one such sequence)
InOrder(s, T) ==
  {q \in [1 .. Cardinality(T) -> T] :
     /\ \A c \in T : \E k \in 1 .. Cardinality(T) : q[k] = c
     /\ \A j, k \in 1 .. Cardinality(T) : j < k =>
          \E a, b \in 1 .. Len(s) : a < b /\ s[a] = q[j] /\ s[b] = q[k]}

Drained == ioPc = "drain" /\ deque = <<>> /\ one = 0 /\ ioPc' = "loop" /\ lastSecond' = ioNow

\* Mutation: the seconds pass and nothing times out.
CheckOutSecondNever ==
  /\ Drained /\ lastSecond \notin {0, ioNow}
  /\ UNCHANGED <<timerVars, userVars, deque, wakeupFd, one, ioNow, cliVars, svrVars, poolVars, exitVars,
                 logVars>>

\* A new second: checkOutSecondCmd
CheckOutSecond ==
  /\ Drained /\ lastSecond \notin {0, ioNow}
  /\ \E late \in InOrder(pending, {c \in Members(pending) : Overdue(c)}) : Posted(late, <<>>)
  /\ pending' \in InOrder(pending, {c \in Members(pending) : ~Overdue(c)})
  /\ UNCHANGED <<timerVars, userVars, deque, wakeupFd, one, ioNow, state, ctx, replies, svrVars, pool,
                 cbPc, cbTask, asyncNum, exitVars, deadline, answered, orphans, drops, fails>>

\* The same second, or the first one: nothing to check
DrainEnd ==
  /\ Drained /\ lastSecond \in {0, ioNow}
  /\ UNCHANGED <<timerVars, userVars, deque, wakeupFd, one, ioNow, cliVars, svrVars, poolVars, exitVars,
                 logVars>>

-----------------------------------------------------------------------------
(* Callbacks of hiredis and libevent in the IO thread's loop                *)
OnConnected ==
  /\ ioPc = "loop" /\ ctx = "connecting"
  /\ ctx' = "up" /\ state' = "CONN"
  /\ OnSuccess
  /\ UNCHANGED <<timerVars, userVars, ioVars, pending, replies, told, pool, cbPc, cbTask, asyncNum,
                 exitVars, deadline, answered, orphans, drops, fails>>

\* connectCallback with an error, or connectTimeout: disConnect
ConnectFailed ==
  /\ ioPc = "loop" /\ ctx = "connecting"
  /\ fails < MaxFails /\ fails' = fails + 1 /\ nowSecond + DelaySecond <= MaxTime
  /\ ctx' = "none"
  /\ OnReset
  /\ UNCHANGED <<nowSecond, timerPc, timerExit, userVars, ioVars, state, pending, replies, svrVars,
                 pool, cbPc, cbTask, asyncNum, exitVars, deadline, answered, orphans, drops>>

\* disconnectCallback: disConnect with clearCmdReqBuf, which answers what is
\* pending and leaves it in cmdSeqOrderMap_
Disconnected ==
  /\ ioPc = "loop" /\ ctx = "up" /\ drops < MaxDrops /\ nowSecond < MaxTime
  /\ drops' = drops + 1
  /\ ctx' = "none" /\ replies' = <<>> /\ state' = "INIT"
  /\ orphans' = orphans \cup Members(pending)
  /\ OnDisconn(pending)
  /\ UNCHANGED <<nowSecond, timerPc, timerExit, userVars, ioVars, pending, told, pool, cbPc, cbTask,
                 asyncNum, exitVars, deadline, answered, fails>>

\* Mutation: requestCallBack answers without looking in cmdSeqOrderMap_.
ReplyBlind ==
  /\ ioPc = "loop" /\ ctx = "up" /\ replies # <<>>
  /\ replies' = Tail(replies)
  /\ Posted(<<Head(replies)>>, <<>>)
  /\ pending' \in InOrder(pending, Members(pending) \ {Head(replies)})
  /\ UNCHANGED <<timerVars, userVars, ioVars, state, ctx, svrVars, pool, cbPc, cbTask, asyncNum,
                 exitVars, deadline, answered, orphans, drops, fails>>

\* requestCallBack: a reply to a command that has been answered is ignored
Reply ==
  /\ ioPc = "loop" /\ ctx = "up" /\ replies # <<>>
  /\ replies' = Tail(replies)
  /\ \E found \in InOrder(pending, Members(pending) \cap {Head(replies)}) : Posted(found, <<>>)
  /\ pending' \in InOrder(pending, Members(pending) \ {Head(replies)})
  /\ UNCHANGED <<timerVars, userVars, ioVars, state, ctx, svrVars, pool, cbPc, cbTask, asyncNum,
                 exitVars, deadline, answered, orphans, drops, fails>>

-----------------------------------------------------------------------------
(* The threads of the callback pool                                         *)
(* (ThreadPool: a thread may still take a task after running_ is unset).    *)
Take(t) == cbPc[t] = "idle" /\ pool # "gone" /\ tasks # <<>> /\ tasks' = Tail(tasks)

\* cmdReplyCallPool: take a result and count it
CbReply(t) ==
  /\ Take(t) /\ Head(tasks) = "reply"
  /\ results # <<>>
  /\ results' = Tail(results)
  /\ asyncNum' = asyncNum - 1
  /\ cbTask' = [cbTask EXCEPT ![t] = Head(results)]
  /\ cbPc' = [cbPc EXCEPT ![t] = "call"]
  /\ UNCHANGED <<timerVars, userVars, ioVars, cliVars, svrVars, pool, exitVars, logVars>>

\* resultCb_
CbCall(t) ==
  /\ cbPc[t] = "call"
  /\ answered' = [answered EXCEPT ![cbTask[t]] = @ + 1]
  /\ cbTask' = [cbTask EXCEPT ![t] = NoCmd]
  /\ cbPc' = [cbPc EXCEPT ![t] = "idle"]
  /\ UNCHANGED <<timerVars, userVars, ioVars, cliVars, svrVars, results, tasks, pool, asyncNum,
                 exitVars, deadline, orphans, drops, fails, crashed>>

\* asyncStateCallBack
CbState(t) ==
  /\ Take(t) /\ Head(tasks) \in Svr
  /\ cbTask' = [cbTask EXCEPT ![t] = Head(tasks)]
  /\ cbPc' = [cbPc EXCEPT ![t] = "tell"]
  /\ UNCHANGED <<timerVars, userVars, ioVars, cliVars, svrVars, results, pool, asyncNum, exitVars,
                 logVars>>

\* stateCb_
CbTell(t) ==
  /\ cbPc[t] = "tell"
  /\ told' = cbTask[t]
  /\ cbTask' = [cbTask EXCEPT ![t] = NoCmd]
  /\ cbPc' = [cbPc EXCEPT ![t] = "idle"]
  /\ UNCHANGED <<timerVars, userVars, ioVars, cliVars, initState, results, tasks, pool, asyncNum,
                 exitVars, logVars>>

CbLeave(t) ==
  /\ cbPc[t] = "idle" /\ pool = "stopped"
  /\ cbPc' = [cbPc EXCEPT ![t] = "done"]
  /\ UNCHANGED <<timerVars, userVars, ioVars, cliVars, svrVars, results, tasks, pool, cbTask, asyncNum,
                 exitVars, logVars>>

-----------------------------------------------------------------------------
(* redisAsyncExit                                                           *)
ExitCall ==
  /\ MayExit /\ exitPc = "idle"
  /\ QuietExit => \A u \in Users : pc[u] = "idle"
  /\ isExit' = TRUE
  /\ exitPc' = "poll"
  /\ UNCHANGED <<timerVars, userVars, ioVars, cliVars, svrVars, poolVars, logVars>>

\* Mutation: the loop waits for the results, not for their callbacks.
ExitPollResults ==
  /\ exitPc = "poll" /\ results = <<>>
  /\ pool' = "stopped"
  /\ exitPc' = "join"
  /\ UNCHANGED <<timerVars, userVars, ioVars, cliVars, svrVars, results, tasks, cbPc, cbTask, asyncNum,
                 isExit, logVars>>

\* No command is left: callBackPoolPtr->stop() unsets running_,
ExitPoll ==
  /\ exitPc = "poll" /\ asyncNum = 0
  /\ pool' = "stopped"
  /\ exitPc' = "join"
  /\ UNCHANGED <<timerVars, userVars, ioVars, cliVars, svrVars, results, tasks, cbPc, cbTask, asyncNum,
                 isExit, logVars>>

\* and joins; callBackPoolPtr.reset(); timerExit_
ExitReset ==
  /\ exitPc = "join" /\ \A t \in Cbs : cbPc[t] = "done"
  /\ pool' = "gone"
  /\ timerExit' = TRUE
  /\ exitPc' = "timer"
  /\ UNCHANGED <<nowSecond, timerPc, timerList, userVars, ioVars, cliVars, svrVars, results, tasks,
                 cbPc, cbTask, asyncNum, isExit, logVars>>

\* Mutation: libeventIoExit writes 2.
ExitWriteEven ==
  /\ exitPc = "timer" /\ timerPc = "done"
  /\ wakeupFd' = Written(2)
  /\ exitPc' = "io"
  /\ UNCHANGED <<timerVars, userVars, deque, ioPc, one, ioNow, lastSecond, cliVars, svrVars, poolVars,
                 isExit, logVars>>

\* timerThreadPtr->join(); libeventIoExit
ExitWrite ==
  /\ exitPc = "timer" /\ timerPc = "done"
  /\ wakeupFd' = Written(1)
  /\ exitPc' = "io"
  /\ UNCHANGED <<timerVars, userVars, deque, ioPc, one, ioNow, lastSecond, cliVars, svrVars, poolVars,
                 isExit, logVars>>

\* eventIoPoolPtr->stop()
ExitReturn ==
  /\ exitPc = "io" /\ ioPc = "done"
  /\ exitPc' = "done"
  /\ UNCHANGED <<timerVars, userVars, ioVars, cliVars, svrVars, poolVars, isExit, logVars>>

-----------------------------------------------------------------------------
UserStep(u) == Push(u) \/ Wake(u)
TimerStep == TimerTick \/ TimerDeal \/ TimerWake \/ TimerEnd
IoStep == \/ HandleRead \/ DealAnswer \/ DealCommand \/ DealCommandFail \/ DealConnect
          \/ DealConnectFail \/ DrainLeave \/ CheckOutSecond \/ DrainEnd
NetStep == OnConnected \/ ConnectFailed \/ Disconnected \/ Reply
CbStep(t) == CbReply(t) \/ CbCall(t) \/ CbState(t) \/ CbTell(t) \/ CbLeave(t)
ExitStep == ExitPoll \/ ExitReset \/ ExitWrite \/ ExitReturn

Next ==
  /\ ~crashed
  /\ \/ \E u \in Users : UserStep(u) \/ \E c \in Cmds : Command(u, c)
     \/ TimerStep \/ IoStep \/ NetStep
     \/ \E t \in Cbs : CbStep(t)
     \/ ExitCall \/ ExitStep

Spec == Init /\ [][Next]_vars

\* Every thread that can go on does. The network owes nothing, the
\* application owes no command and no exit.
Fairness ==
  /\ \A u \in Users : WF_vars(~crashed /\ UserStep(u))
  /\ WF_vars(~crashed /\ TimerStep) /\ WF_vars(~crashed /\ IoStep)
  /\ \A t \in Cbs : WF_vars(~crashed /\ CbStep(t))
  /\ WF_vars(~crashed /\ ExitStep)

FairSpec == Spec /\ Fairness

-----------------------------------------------------------------------------
\* Types. Every order has a deadline or is a connect order, the states of the
\* client and of hiredis agree, and a task of the pool is a reply or a state.
TypeOK ==
  /\ nowSecond \in 1 .. MaxTime /\ timerPc \in {"sleep", "deal", "wake", "done"}
  /\ timerExit \in BOOLEAN /\ timerList \in Seq([cmd : {NoCmd}, out : Nat])
  /\ pc \in [Users -> {"idle", "push", "wake"}]
  /\ cur \in [Users -> Cmds \cup {NoCmd}] /\ at \in [Users -> Nat]
  /\ deque \in Seq(Order) /\ wakeupFd \in 0 .. 3
  /\ ioPc \in {"loop", "drain", "done"} /\ one \in 0 .. 1
  /\ {ioNow, lastSecond} \subseteq 0 .. MaxTime
  /\ state \in {"INIT", "CONN"} /\ ctx \in {"none", "connecting", "up"}
  /\ pending \in Seq(Cmds) /\ replies \in Seq(Cmds)
  /\ initState \in Svr /\ told \in Svr
  /\ results \in Seq(Cmds) /\ tasks \in Seq(Svr \cup {"reply"})
  /\ pool \in {"up", "stopped", "gone"}
  /\ cbPc \in [Cbs -> {"idle", "call", "tell", "done"}]
  /\ asyncNum \in Int /\ isExit \in BOOLEAN
  /\ exitPc \in {"idle", "poll", "join", "timer", "io", "done"}
  /\ deadline \in [Cmds -> Nat] /\ answered \in [Cmds -> Nat] /\ orphans \subseteq Cmds
  /\ crashed \in BOOLEAN

Count1(s, c) == Cardinality({k \in 1 .. Len(s) : s[k] = c})
InDeque(c) == Cardinality({k \in 1 .. Len(deque) : deque[k].cmd = c})
InHands(c) == Cardinality({u \in Users : cur[u] = c /\ pc[u] # "wake"})
Calling(c) == Cardinality({t \in Cbs : cbPc[t] = "call" /\ cbTask[t] = c})
Accepted == {c \in Cmds : deadline[c] # 0}

\* Every accepted command is in exactly one place, from the call to its
\* callback, whatever reply, timeout and refusal meet on the way: none is lost
\* and none is answered twice. (Commands that were pending when the connection
\* was lost are the exception: see AnsweredAtMostOnce.)
AnsweredOnce ==
  crashed \/ \A c \in Accepted \ orphans :
    InHands(c) + InDeque(c) + Count1(pending, c) + Count1(results, c) + Calling(c) + answered[c] = 1

\* RedisAsync.h: one result, one callback.
AnsweredAtMostOnce == \A c \in Cmds : answered[c] <= 1

\* There is always exactly one of: a connect order, a delayed one, an attempt,
\* a connection. Without one the server would stay down for ever; with two
\* a connect order would meet a live connection and close it.
OneDriver ==
  crashed \/ InDeque(NoCmd) + Len(timerList) + (IF ctx = "none" THEN 0 ELSE 1) = 1

\* A queued order is never left behind a sleeping IO thread.
NoLostWakeup ==
  (deque # <<>> /\ ioPc = "loop") =>
    wakeupFd # 0 \/ timerPc = "wake" \/ \E u \in Users : pc[u] = "wake"

\* redisSvrOnConnect: the state tasks wait in the order of the changes, between
\* replies and exceptions; the last one that no callback thread has taken yet is
\* the state the server is in.
StateTasksInOrder ==
  crashed \/ \A k \in 1 .. Len(tasks) :
    tasks[k] \in Svr /\ (\A j \in 1 .. Len(tasks) : j > k => tasks[j] \notin Svr)
      => tasks[k] = initState

\* Once the state callbacks have been made, the application has last been told
\* the state the server is in. (Not met with two callback threads: one may be
\* overtaken between taking a state and telling it.)
ToldIsState ==
  (/\ ~crashed /\ pool = "up"
   /\ \A k \in 1 .. Len(tasks) : tasks[k] \notin Svr
   /\ \A t \in Cbs : cbTask[t] \notin Svr) => told = initState

\* asyncCmdNum counts the commands that are neither answered nor being
\* answered, so redisAsyncExit waits for all of them.
AsyncNumExact ==
  orphans = {} =>
    asyncNum = Cardinality({c \in Accepted : answered[c] = 0 /\ Calling(c) = 0})

\* When redisAsyncExit has stopped the callback pool, every command that was
\* accepted has had its callback.
ExitMeansAllAnswered ==
  (pool = "gone" /\ orphans = {}) => \A c \in Accepted : answered[c] = 1

(* The client as a service: closed when redisAsyncExit has returned          *)
InCallback == {c \in Cmds : \E t \in Cbs : cbPc[t] = "call" /\ cbTask[t] = c}
Told == {c \in Cmds : answered[c] # 0}
Closed == exitPc = "done"

Service == INSTANCE AnswerService WITH
  Requests <- Cmds, asked <- Accepted, inCallback <- InCallback, told <- Told, closed <- Closed

\* Every behaviour of the callers, the IO thread, the callback threads and the
\* exit is one of the service AnswerService describes. (QuietExit, and no
\* connection is lost with commands pending: those are answered again.)
IsAnswerService == Service!Spec

\* Every accepted command is answered, by a reply or by a timeout, even if the
\* server says nothing and even if the connection is lost.
AllAnswered == \A c \in Cmds : (deadline[c] # 0) ~> (answered[c] > 0 \/ isExit)

\* redisAsyncExit returns.
ExitReturns == (isExit /\ orphans = {}) ~> (exitPc = "done" \/ crashed \/ orphans # {})

\* Nothing is posted to the callback pool after redisAsyncExit has reset it.
NoUseAfterReset == ~crashed
=============================================================================
