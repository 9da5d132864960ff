# TLA+ models of the cmake_frame libraries

The repository is a collection of C++ client libraries that share a style: a
singleton manager with a small C++ interface, one or more IO threads that run a
libevent loop and are woken through an eventfd, queues between the callers and
those threads, and callbacks into the application. What is hard to get right in
them is not the data but the order of things: which thread notices first that a
connection is gone, whether a wake-up can be lost, what `Exit` meets when it is
called. That is what these models are about.

Paths below are relative to `src/src/`.

## 1. Inventory

| component | state it keeps | operations | talks to | what is hard |
|---|---|---|---|---|
| `libeventcpcli` (asynchronous TCP client) | `tcpClientConnMap`, ready and exit counters, per IO thread an order deque and an eventfd, per connection bufferevent, socket, `state_`, last second of use | init, add, send, resetPrivate, disconnect, exit; libevent callbacks; expiry thread | application through `connCb` and `msgCb`; libevent | several threads discover the same event; shared_ptr decides who destroys a connection; start and exit counters; unsigned seconds |
| `curlHttpCli` V2 (asynchronous HTTP client) | `AsyncQueueNum`, per IO thread a request queue, an eventfd and a curl multi handle, per URL a pool of connections, a response queue | init, request, exit; curl and libevent callbacks; callback thread, wake thread | application through the session's callback; libcurl, libevent | requests and wake-ups in two steps; three condition variables; five ways a request can end; exit that must wait for all of them |
| `curlHttpCli/V1.0.0.0` | as V2, older | as V2 | | superseded |
| `common/ThreadPool` (copied into `libeventcpcli`, `curlHttpCli`, `redisAsyn`) | task queue, `running_`, one mutex, two condition variables | start, stop, run, TryRun | the libraries run their IO threads on it | notifies that may be lost; stop against waiters |
| `common` threads and locks | pthread objects | lock, wait, notify, join, count down | everything | used by their pthread meaning |
| `common` utilities | none | encodings, hashes, zip, ini files, time, daemon | | sequential |
| `redisAsyn/v1.0` | servers by handle (`asyFd`): single, master/slave or cluster, each in a state INIT, RUNING, EXCEPTION, ERROR, INVALID; IO threads with order deques; connections with pending commands and their deadlines; result queue | add server, command, state callback, reconnect, per-second timer, exit | application through the result and state callbacks; hiredis, libevent | command timeout against late reply; reconnect; slot table of a cluster that moves; the result queue's thread |
| `redisAsyn/v2.0` | nearly v1.0 | | | |
| `speedcontrol` | counters of a period and a limit | count, test, report | | a report read and stored in two steps while calls are counted, unsigned difference cast to int |
| `remainFile` | per flag and folder: the file being written and the list of files to read, in a share and a local directory | write, read, per-second roll by count and time | file system | crash between write, rename and read; order of files |
| `msgFile` | queue of records, current file, names `current`, `bak`, `ok` | write, roll | file system | rolling against writing |
| `zookafka` | producer or consumer, broker list, topic list | produce, pop, watch callback, reconnect | zookeeper, librdkafka | watch callback against use |
| `zookconfig` | `configMap`, watched nodes | get, `configCb`, `serverCb` | zookeeper | a watch fires once and must be set again before the read |
| `rediscluster` | slot table, node pools | command, move, node refresh | hiredis | slot table replaced during use |
| `redislibevent`, `redisSync`, `redisClusterAsyn` | one connection | | | early versions, and a stub |
| third party, build files | | | | not part of the program's logic |

What makes each of the modelled components correct:

* **libeventcpcli**: the application hears of the beginning and of the end of a
  connection at most once, in order as far as one thread reports them; a
  connection reported as gone is closed; nobody uses or frees a connection that
  another thread owns; an order that was queued is served; calls return; exit
  stops the IO threads.
* **curlHttpCli**: each request is answered exactly once; the count that exit
  waits on is exact; nothing is left in a queue with nobody to take it; a caller
  that blocks has something to wait for; exit returns after the last callback.
* **ThreadPool**: tasks run in the order they were accepted, none lost or run
  twice; no lost notify; stop returns, with nothing still running.
* **redisAsyn**: a command is answered once, by its reply, a refusal or its
  timeout; a lost connection is tried again, by exactly one attempt at a time;
  changes of the state are handed to the callback threads in order; exit returns
  after the last callback.
* **remainFile**: a record whose write returned 0 is kept, in one copy, until it
  is delivered, through failing file operations, a crash, and the loss of the
  share; none is stranded in a file that nobody will publish or read.
* **speedcontrol**: the speeds reported add up to the calls counted, though calls
  go on between the read and the store of a report.
* **zookconfig**: a registration is the process's own; the list of servers
  of a follower that found the path catches up with the registrations; until a change
  is announced the configuration is the one in zookeeper.
* **zookafka**: a message polled is given to a caller, at least once; the list of topics
  is what is subscribed to; the brokers known catch up with zookeeper's unless a read failed;
  when the producer is destroyed every message has had its
  callback; no poll and no callback meets a closed handle; calls return although `pop` waits
  without a limit under the lock.

## 2. Modules

| module | models |
|---|---|
| `LibeventTcpCli` | `libeventcpcli`: `LibeventTcpCli.cpp`, `LibeventIo.cpp`, `TcpClient.cpp`, `OrderInfo.h` |
| `CurlHttpCli` | `curlHttpCli`: `CurlHttpCli.cpp`, `AsyncCurlHttp.cpp`, `HttpCliQueue.h`, `ConnInfo.h`, `HttpReqSession.h` |
| `TaskQueue` | what a pool promises: the abstract specification of `ThreadPool` |
| `AnswerService` | what an asynchronous client promises: the abstract specification of `CurlHttpCli`, `RedisAsync` and `KafkaPush` |
| `ThreadPool` | `common/ThreadPool.cpp` |
| `RedisAsync` | `redisAsyn/v1.0`, single server: `RedisAsync.cpp`, `PartRedisAsync.cpp`, `LibeventIo.cpp`, `RedisClient.cpp`, `OrderInfo.h` |
| `RemainFile` | `remainFile`: `RemainMgr.cpp`, `WriteFileMgr.cpp`, `ReadDirMgr.cpp`, `ReadFileMgr.cpp` |
| `SpeedControl` | `speedcontrol`: `ControlData.h`, `SpeedControl.cpp` |
| `ZookConfig` | `zookconfig/ZookConfig.cpp` |
| `KafkaPop`, `KafkaPush` | `zookafka`: `ZooKfkTopicsPop.cpp`, `ZooKfkTopicsPush.cpp` |
| `MC...` | one instance for TLC of each of these |
| `LibeventTcpCliProofs` | proofs: types, references, wake-ups, what is reported is reported once, lifetimes |
| `CurlHttpCliProofs` | proofs: one answer, the count of open requests, wake-ups, the pools of connections, exit, the refinement |
| `RedisAsyncProofs` | proofs: one answer, one driver of the connection, the order of the state tasks, exit, the refinement |
| `RemainFileProofs` | proofs: one copy of a record, what is acknowledged is kept, nothing is stranded |
| `ThreadPoolProofs` | proofs: queue order, wake-ups, stop, the refinement |
| `SpeedControlProofs`, `KafkaPushProofs` | proofs of these modules' safety, and of the producer's refinement |
| `ZookeeperProofs` | proofs about the two followers of zookeeper: the consumer `KafkaPop`, and `ZookConfig` |

Threads have a program counter; a step is what the
code does between two points at which another thread can interfere: a critical
section, an unlocked read or write of something shared, a read or write of an
eventfd, a file operation, a call of zookeeper, a callback. `PROJECT.json` maps
each definition to its lines.
Definitions whose names end in what they do wrong (`NotifyKeepsEntry`,
`TakeNoNotify`, ...) stand before the definition they vary; they are not part of
the model but the plausible mistakes that the properties are tested against.

### 2.1 LibeventTcpCli

Threads: the application's `Users`, the expiry thread `Expirer`, the IO threads
`0 .. IoNum - 1`.

* *Calls.* `Call` is the entry and the check of `isExit`; `WaitReady` the spin on
  `readyIothread`; then `AddOrder`, `Wakeup`, `Insert` for `libeventAddConnect`;
  `Lookup`, `SendOrder`, `Wakeup` for a send; `Lookup`, `DiscOrder`, `Wakeup`,
  `ReadState`, `Notify`, `Callback` for a disconnect. A send on an expired
  connection goes on as a disconnect (`CallAgain`), as in the code.
* *`tcpServerConnect`* is `Notify` (look-up and erase under `mutex_`) and
  `Callback` (`connCb`, after the unlock). `delivered[u]` records what the
  application was told, and by which thread.
* *IO threads.* `IoCreate`, `IoReady` or `IoReadyFail`, the loop (`HandleRead`
  reads the eventfd, `DealConnect`, `DealConnectFail`, `DealSend` drain the
  deque, `DrainEnd` tests the parity of the value read for an exit), `IoLeave`,
  `IoCheckExit`.
* *libevent callbacks.* `OnConnected`, `OnClosed`, `ConnectTimeout`,
  `OnMessageExpired`, `OnMessage` and `OnMessageEnd` (the part after `msgCb`).
* *Lifetime.* A `TcpClientPtr` is held by the map, by an order, or by a local
  variable (`held`). `Clients(c)` applies the destructor to the clients that no
  one holds any more: whoever drops the last reference frees the bufferevent.
* *Expiry.* `ExpireTop` samples the second, `ExpireScan` compares it under the
  lock, modulo `UMod`, `ExpireNext` makes the disconnect calls.

Abstractions: addresses and payloads are left out; a message only is or is not
a disconnect order. Connection numbers are distinct (`LibeventTcpCli.h` asks the
application not to add the same one twice). `libeventTcpCliInit` is called once.

### 2.2 CurlHttpCli

Threads: `Users`, the IO threads, the callback thread `Caller`, the wake thread
`Waker`. A request stands for its session and then for its `ConnInfo`: a pooled
connection is never used for a second request in this code.

* *Calls.* `Call`, `WaitReady`, `Count` (`asyncReq` and the look-up of the URL's
  pool), `Pop` or the waits in it, `AddUrl` and `Insert` for a new URL, `Slot`,
  `Push` or the wait in it, `Wakeup`.
* *IO threads.* `HandleRead` reads the eventfd into `queueSize`; `Deal`, `Launch`,
  `SetupFail`, `SetupFailed`, `PullNothing` take requests and hand them to curl;
  `EachAged`, `EachEnd` are the 180 second scan; `MultiEvent` is a socket or timer
  event of curl, after which `CheckDone`, `CheckEnd`, `ReturnConn` collect what is
  over. Whether transfers end is free; `still` is what the last
  `curl_multi_socket_action` said. `curl_multi_add_handle` calls the timer callback, which
  may run a `socket_action` of its own: `SocketAction` inside `Launch`.
* *Callbacks.* `CallerTake`, `CallerSleep`, `CallerRsp`, `CallerCall`.
* *Exit.* `ExitCall`, `ExitPoll`, `ExitJoinWake`, `ExitWrite`, `ExitResp`,
  `ExitNotify`, `ExitJoinCall`, `ExitSpin`.
* `WakeUnasked` lets a wait on a condition variable return with no notify, as
  POSIX allows and as the loops around the waits are for.

Undefined behaviour is a choice: `queueSize_` of a new pool holds any value of
`Garbage`; of two overlapping inserts into the unlocked URL map one may be lost;
a use of a slot that exit has emptied is the end state `crashed`.

### 2.3 ThreadPool and TaskQueue

`Start`, `Run`, `RunAgain` (after a wait for room), `TryRun`, `Push`; `Check`,
`Take`, `TakeNothing`, `Exec` of a worker; `Stop`, `Join`; `WakeUnasked`. The pool
is started with at least one worker before tasks are given to it, as all
callers in the repository do.

`TaskQueue` says what that amounts to for the application, with no mutex, no
condition variable and no thread: `Open`, `Accept` a task if there is room,
`Begin` the oldest, `End` one, and `Close`, which needs that none is half done and
after which none begins. `ThreadPool` instantiates it with the mapping `Queue`,
`Doing` (the tasks that workers execute) and `Phase`; `IsTaskQueue` is its
specification. The waits, the notifies, the unasked wake-ups and a worker's look
at an empty queue are stuttering steps of it.

### 2.4 RedisAsync

Threads: `Users` in `redisAsyncCommand`, the IO thread of the connection, the
timer thread, the threads `Cbs` of the callback pool, and `redisAsyncExit`.

* *A command*: `Command` (tests, count, deadline), `Push` (the deque), `Wake` (the
  eventfd).
* *IO thread*: `HandleRead`, then one order a step: `DealConnect`,
  `DealConnectFail`, `DealCommand`, `DealCommandFail`, `DealAnswer` (an order whose
  deadline has passed or whose connection is not up); `CheckOutSecond` (the scan of
  pending commands once a second), `DrainEnd` or, after an exit, `DrainLeave`;
  hiredis' callbacks `OnConnected`, `ConnectFailed`, `Disconnected`, `Reply`.
* *Timer*: `TimerTick`; `TimerDeal` queues the delayed connect orders that are due;
  `TimerWake` wakes the loops after it has queued for all; `TimerEnd`.
* *Callback pool*: `Take`, then `CbReply` and `CbCall` for a result (count down, then
  call), `CbState` and `CbTell` for a state, `CbLeave`.
* *The server's state*: `OnSuccess`, `OnReset` (delayed reconnect), `OnDisconn`
  (reconnect at once) are what the IO thread's callbacks do to it.
* *Exit*: `ExitCall`, `ExitPoll`, `ExitReset`, `ExitWrite`, `ExitReturn`.

A command that is pending when the connection is lost becomes an *orphan*: the
code answers it and leaves it in `cmdSeqOrderMap_`; the model does the same and
the properties name it as the exception. A post to the callback pool after its
reset ends the program (`crashed`). Where one step answers several commands
(`CheckOutSecond`, a lost connection) they are posted in the order the code's map
gives them, which `InOrder` says of the posted sequence.

### 2.5 RemainFile

Gateways (processes) with `Writers` and one reader each; a file system of files with a
directory, an extension (`tmp`, `ok`, `bak`, `err`), records and the number in the name.

* *Write*: `Call`, `Look` (which managers exist), `Make` one, `WriteDone` or
  `WriteFails` or `FlushFails`, `Drop` of a manager, `Return`. `Target` and `SwitchToNewFile` choose
  and open the file, `CloseCurFile` publishes it by a rename.
* *Read*: `ReadCall`, `Claim` by a rename, `Empty`, `ReadFile` or `ReadFails`, `ScanEnd`,
  `ReadReturn`.
* *Every second*: `Check`. *Exit*: `ExitCall`, `ExitClose` (one side after the other),
  `ExitDrop` and `ExitSwap`: the map is emptied, and if no call holds the `WriteFileMgr`
  its destructor closes what a call has made again since `ExitClose`; otherwise the last
  such call does (`Drop`).
* *Faults*, from the set `Events`: a file operation fails, a process is killed and
  restarted (`Crash`, `Restart`), the share is unmounted and mounted (`ShareDown`,
  `ShareUp`). A use of a deleted manager or a closed `FILE` (`Misuse`) is undefined
  behaviour: any outcome, among them the end of the process.

### 2.6 SpeedControl

`IndexInit` is the set-up, in any order of indices; `ControlAdd` is a call counted
against a limit, one step since `incrementAndGet` is its only access to shared
state; `DataAdd` counts a call, `SpeedGet` and `SpeedStore` are the two halves of a
report, between which calls may be counted. Counters are modulo `Word` (2^64); a
negative `maxSpeed` becomes a very large limit (`Limit`), and a difference is cut down
to an int (`Cast`), which makes it negative from `IntMax` (2^31) on; `overrun`
remembers that this happened.

`ControlSpeed::everySeondReset` is not an action. The comments ask for it to be called
every period (`SpeedControl.h`, `ControlData.h:46`), but nothing calls it and
`controlSpeedVec` is private with no accessor (`SpeedControl.h:93`), so that no
application can: `lastCounNum_` of a limit stays 0 and the limit counts every call
ever made (`LimitComesBack`, further deviations).

### 2.7 ZookConfig

Server processes register (`ExistsParent`, `CreateParent`, `Exists`, `Set`, `Create`,
each a call of zookeeper whose answer may be `Lost`, carried out or not), `Crash` and
start again with a new session while the old one `Expire`s later. The follower's
application thread loads the configuration (`LoadGet`, `LoadInsert`) and the list
(`GetList`, `Begin`, `Children`, `GetChild`, `Loaded`), and zookeeper's thread runs `watcher`:
`WatchChild`, `CallServerCb`, `WatchChanged`, `UpdateConfig`. Without the path `Children` sets no
watch (`missing`); the read of `WatchChanged` may fail, and its empty buffer is stored
like a value (the code also writes a zero one byte past that buffer). Zookeeper itself (nodes,
sessions, one-shot watches, their events in order) is external.

### 2.8 KafkaPop and KafkaPush

*Pop.* `ZookInit` and the watch `WatchRead` read the brokers in several steps: `ListBrokers`
(`zoo_get_children`, which sets the watch, or `ListFails`), a `GetBroker` (`zoo_get`) for each, which leaves out
one that is gone or cannot be read, and, when all are read, `KfkInit` or `ChangeKafkaBrokers`. `failed`
remembers that the last such read failed in whole or in part, `initFailed` that `zookInit` did not return 0;
nothing in the code looks at either, so the calls go on in these states too. `Call`, `PopEnter` (takes
`listLock` and keeps it through the poll), `PollGets`,
`PollGetsNone`, `Flags` (the test of `switchFlag` and `destroy` after each poll), `Give`; `Change`,
`StartTopic`, `StopTopic` with `Resubscribe`; `DestroyCall`, `Destroy`, `DestroyClose`, by the application or by
zookeeper's thread through `downcb_`. `DestroyClose` is `zookeeper_close`, which waits with `listLock` held until
zookeeper's thread has ended the callback it is in.

Offsets are librdkafka's: each topic has a `position`, unset by every `Subscribe` and set again by
`Assign` to the offset the group has `committed` or, without one, to the end
(`auto.offset.reset = largest`, `ZooKfkTopicsPop.cpp:267`); `Commit` may come at any time
(`auto.commit.enable`) or not at all. So a change of topics can bring messages a second time, as
the comment at `ZooKfkTopicsPop.cpp:397` says, and can pass others over. `Stored` are the topics
with an offset from an earlier run of the group.

*Push.* `PushCall`, `PushEnter`, `Produce`, `ProduceFull` (poll and try again), the flush
`FlushCall` to `FlushEnd`, `AddTopic`, `AddInsert`; `Deliver` by librdkafka; `CallbackStart` and
`CallbackEnd` by any thread that polls; `ChangeKafkaBrokers` and `WatchPollEnd`; `DestroyCall`,
`DestroyEnter`, `DestroyClose` (the queue is empty, librdkafka is closed) and `DestroyReturn`
(`zookeeper_close`, with `topicMapLock` held, has waited for zookeeper's thread).

librdkafka and zookeeper are external: a queue of messages with a limit, a
subscription, a handle that is open or null. A call with a null handle sets
`misuse`.

## 3. Runs

| run | instance | checks |
|---|---|---|
| `tcp_lifetime` | 2 callers, expiry, 1 IO thread, 1 connection, 2 calls, 2 seconds, fair | `MsgCbClientAlive`, `ReportedOnce`, `FreedByIoThread`, `ReportedGoneIsClosed`, `CallsReturn` |
| `tcp_exit` | 1 caller, expiry, 2 IO threads, a failed start, connecting may fail at once, 2 calls, 1 exit, fair | `NoLostWakeup`, `ReadyMeansAll`, `ExitStopsIo` |
| `curl_pool` | 2 callers, 3 requests, 1 URL, 1 connection, `queueSize_` uninitialised | `BlockedIsOwed`, `NoLostConnNotify` |
| `curl_reports` | 2 callers, 2 requests, 2 URLs, queue of 1, redirects, requests given up, a failed start, an exit at any time | `AsyncNumExact`, `AnsweredOnce`, `NoStrandedRequest` |
| `curl_liveness` | 2 callers, 2 requests, queue of 1, 1 connection, `queueSize_` at the limit from the start, an exit, fair | `AllAnswered`, and `IsAnswerService` |
| `pool` | 2 workers, 3 callers, 4 tasks, queue of 2, stop at any time, fair | `NoSleepingWorker`, `NoSleepingProducer`, `StopReturns`, and `IsTaskQueue` |
| `redis` | 1 caller, 2 commands, 1 callback thread, 3 seconds, 1 lost connection, 1 failed attempt, an exit, fair | `AnsweredOnce`, `OneDriver`, `StateTasksInOrder`, `ExitMeansAllAnswered`, `AllAnswered`, `ExitReturns` |
| `remain` | 2 gateways with a writer and a reader each, 2 records, 1 record a file, 1 fault of any kind, fair | `OneCopy`, `AckedIsKept`, `NothingStranded`, `Delivered` |
| `zook` | 2 servers, 2 starts, a fresh tree, 2 lost answers, 1 change of the configuration, fair | `RegisteredIsOurs`, `ConfigIsCurrent`, `ListCatchesUp` |
| `speed` | 4 calls; three indices, with limit 1, without, with a negative limit; an int of 2 bits | `SpeedsAddUp` |
| `kafka_pop` | 1 consuming thread, 1 that changes topics (1 call), 2 topics with 1 message each, one with a stored offset, 1 broker, 2 changes of it, calls that fail, `downcb_`, fair | `NoMessageLost`, `ChangeReturns`, `MessagesCome`, `BrokersCatchUp` |
| `kafka_push` | 2 callers with 2 calls each, 2 topics, queue of 2, 1 change of the brokers, calls that fail, `kfkDestroy` at any time by two threads, fair | `CallbackOnOpenHandle`, `CallsReturn`, and `IsAnswerService` |

The modules state a few more formulas that hold on the same instances and that no run
lists, because a theorem establishes them for all instances (section 4) or another
property covers what they say: the type invariants, `FirstInFirstOut`, `StopMeansQuiet` and
`TasksRun` of the pool, `NoLostWakeup` and `AsyncNumExact` of the redis client, `InitialisedIsInRange`, `SubscriptionMatches`, `PollIsSafe`,
`BrokersAreCurrent` and `DestroyMeansAllAnswered` of the Kafka clients,
`ExitMeansAllAnswered` of the HTTP client, `IsAnswerService` of the redis client (if no connection is lost),
`ListIsCurrent` of `ZookConfig`.

**Why the bounds are enough.** The protocols treat connections, requests,
tasks, records and messages alike and independently, so what matters is how many *actors* meet at one
of them. One connection is met by its IO thread, the expiry thread, a caller
that adds it and another that disconnects or uses it. A pool of one connection needs a caller that uses
it, one that waits, and a third request that comes between notify and wake-up.
The thread pool needs a sleeper, one that is awake and a newcomer on either
side, with more tasks than places. Two IO threads are enough to see that one
stops and the other does not. In the redis client the caller and the timer
thread are the two that queue orders and wake the IO thread crosswise; two
commands give one that is answered by its reply while the other times out;
three seconds hold a deadline, a delayed reconnect and the scan after them. A
file of one record is switched at every write; two gateways give two claimants
of one file, and a fault falls between any two steps of either. Two servers give
one that comes while the other goes during a load, two starts a node left by an
earlier life. Four calls to an int of 2 bits reach the cut of a reported speed. A consumer
comes back to the lock after each poll as a second one would (the safety part is proved
for any number of them); a topic with a stored offset and one without begin at either end, and one
change of topics falls before or after a commit; a queue of two
places with four messages fills up again while it is flushed.

Counters are bounded by `MaxCalls`, `MaxExits`, `MaxReadyFail`, `MaxStarts`, `MaxSets`,
`MaxLosses`, `MaxChanges`, `MaxMsgs`, `MaxFiles`, `MaxDrops`, `MaxFails`, faults by `MaxEvents`, the clock by
`MaxTime` (it starts at 1), wake-ups that pile up
unread by `MaxCredit`. `UMod` and `Word` are the moduli of the unsigned arithmetic;
they only have to be larger
than every value that does not wrap.

**Conditions that a run sets, and why.**

* `ConnectMayFail = FALSE` in `tcp_lifetime`. When `connectServer` fails at once
  it leaves no socket, and `handleRead` takes every order about a connection
  without a socket for a connect order. The disconnect order of a caller then
  starts the connection a second time: add; the connect fails at once; before
  the IO thread has reported it, another thread queues its disconnect order; it
  erases the entry and reports the end; the order is served as a connect, and
  the connection that was reported as gone is open, held by nobody but the order, and
  freed with it. `ReportedOnce` survives this (the proof
  includes it); `ReportedGoneIsClosed` and `FreedByIoThread` do not, nor, with four calls,
  `MsgCbClientAlive`: the connection comes up, and the order that held it is gone.
* `ExitWhenReady = TRUE`: exit is called after start-up. An exit that finds the slot
  of an IO thread empty writes nothing to it, and the thread never stops; two
  exits at the same time add 2 to the eventfd, which reads as an order.
* `QuietExit = TRUE` in `curl_liveness` and `redis`: no other call is in progress.
* `Redirect = FALSE`, `SetupMayFail = FALSE` in `curl_pool` and `curl_liveness`: a
  redirected connection, and one given up before curl has it, do not come back
  to the pool their callers wait on.
* `Unasked = FALSE` in `curl_liveness` only: an endless series of unasked
  wake-ups of the callback thread could keep the response mutex from the IO
  thread for ever under weak fairness.
* One callback thread in `redis`, one writer per gateway in `remain`, one thread that
  changes topics in `kafka_pop`, and there `EarlyChange = FALSE` (brokers do not change
  while `zookInit` runs) and `QuietDestroy = TRUE` (no change of topics or brokers meets
  a `kfkDestroy`); `LoadMayGiveUp = FALSE` in `zook` (a load does not lose its connection
  `colonyNum` times in a row). What happens without each of these conditions is among
  the further deviations.
* `CHECK_DEADLOCK FALSE` where the program may stop: after an exit, a stop or a
  destroy, or
  when the bounded calls are used up and all threads sleep.
* Symmetry of callers and requests is used in the two HTTP runs without
  temporal properties.

**Fairness.** Every thread that can go on does (weak fairness): the operating
system schedules it.
In the TCP client the eventfd (`HandleRead`) and the connect timer
(`ConnectTimeout`) are strongly fair: each pass of a libevent loop serves every
descriptor that is ready and every timer that is due, so neither is passed over
for ever because of others. The network owes nothing: no fairness for
`OnConnected`, `OnClosed`, `OnMessage`, `MultiEvent`, nor for hiredis' replies. In the HTTP client time
passes (`Age`), so the 180 second limit comes; in the redis client the timer
thread ticks (to `MaxTime`). The application owes no call of a client library,
with these exceptions, which the libraries' headers ask for: gateways read
and check every second (`remain`), and consumers go on calling `pop` (`kafka_pop`). There the poll is strongly fair per
topic: librdkafka serves the partitions it is subscribed to in turn; and a subscription takes effect
(`Assign`). Nothing is asked of commits. Sessions of
dead processes expire (`zook`), and librdkafka delivers or gives up what was
produced (`kafka_push`), both by timeouts of their own. Tasks of the thread pool end.

### Further deviations

The following configurations, used by none of the runs above, show where the
code does not do what its headers or comments say. TLC finds the property in each
violated, most within seconds. Where a run is named instead, it is enough to check
the property in that run's configuration.

| configuration | property | what happens |
|---|---|---|
| `TcpCliUnreported.cfg` | `ConnectIsReported` | the client is handed to the IO thread before it is in the map (`LibeventTcpCli.cpp:158`, `161`); if it connects in between, the application never hears of it (`LibeventTcpCli.h:25`) |
| `TcpCliFreshExpired.cfg` | `ExpiredWereIdle` | the expiry thread samples the second before it waits for the lock; a connection used meanwhile has a later second, the unsigned difference wraps, and the connection is given up as idle (`LibeventTcpCli.h:58`) |
| `TcpCliLateReport.cfg` | `DisconnectAfterSuccess` | `connCb` is called after the unlock: state 2 can overtake state 1 (`LibeventTcpCli.h:24`) |
| `TcpCliReadyFail.cfg` | `AddReturns` | one failure of `libeventIoReady` is taken off a counter it was never added to; every later call spins (`LibeventTcpCli.h:60`) |
| `TcpCliExitHang.cfg` | `ExitReturns` | the expiry thread, inside a disconnect when the IO threads leave, spins for ever and exit waits for it (`LibeventTcpCli.h:44`) |
| `CurlRedirect.cfg` | `BlockedIsOwed` | a connection goes back to the pool under its effective URL; after a redirect, callers of the requested URL wait for ever (`CurlHttpCli.h:25`) |
| `CurlStaleRunning.cfg` | `StoppedIoLeaves` | the 180 second scan removes a transfer without telling `still_running`; an IO thread told to stop then never leaves its loop (`CurlHttpCli.h:31`) |
| run `curl_pool` | `WithinMaxConns` | only connections that have come back count towards the maximum (`CurlHttpCli.h:25`) |
| `CurlBlocksEarly.cfg` | `BlocksOnlyWhenFull` | and they count for ever, so calls block with connections to spare (`CurlHttpCli.h:51`) |
| `CurlLostNotify.cfg` | `CallbackThreadEnds` | `httpResponseExit` notifies without the mutex; the callback thread can miss it (`CurlHttpCli.h:46`) |
| `CurlLateRequest.cfg` | `ExitMeansAllAnswered` | a call between its check of `isExit` and `asyncReq` is not waited for (`CurlHttpCli.h:30`) |
| run `redis` | `AnsweredAtMostOnce` | a command pending when the connection is lost is answered and left in `cmdSeqOrderMap_`, from which it is answered again |
| `RedisToldLate.cfg` | `ToldIsState` | with two callback threads, as `TestMain.cpp` starts, an older state can be told last |
| run `redis` | `NoUseAfterReset` | the IO thread still posts to the callback pool that exit has reset |
| `RedisLateCommand.cfg` | `ExitMeansAllAnswered` | a command past its check of `isExit` is not waited for |
| `RemainFirstWrite.cfg` | `NoUseAfterFree` | two first writes at once each make a manager, and one uses the one the other deleted |
| run `remain` | `ExitStrandsNothing` | `remainMgrExit` deletes a manager while a call is inside it; the process may die of it, and what earlier calls wrote stays in a `.tmp` file nobody reads |
| run `remain` | `ShareGoneIsNoticed` | with no file open the missing root of the share is made by `mkdirs`, and records are written below the mount point |
| run `speed` | `SpeedsAlwaysAddUp` | a difference of 2^31 calls or more is no int and is reported as something else |
| run `speed` | `LimitComesBack` | nothing resets a limit, so that it lets through `maxSpeed` calls in all and none after them |
| `ZookStale.cfg` | `ConfigCatchesUp` | the update reads the value without setting the watch again: the second change is never followed; a change announced before the first load has inserted its key is dropped (`ZookConfig.cpp:503`) and the older value inserted, so that even the first can be missed |
| run `zook` | `ConfigWasSet` | the update does not look at the result of its read: after a lost connection `configMap` has the empty string (`ZookConfig.cpp:503`, `515`) |
| run `zook` | `ListAlwaysCatchesUp` | a follower that starts before the first server has made the path gets `ZNONODE` and no watch (`ZookConfig.cpp:775`), and a second call is refused (`145`): it never sees a server |
| `ZookFreshTree.cfg` | `Registers` | of two servers that make the parent at the same time one gives up; so does one restarted before its old session has expired |
| `ZookShortList.cfg` | `ListCatchesUp` | a load that gives up leaves a short list and no watch |
| `KafkaPopTwoChanges.cfg` | `ChangeReturns` | one `switchFlag` for all: the first of two changes to finish clears it and the other waits for a poll without end |
| run `kafka_pop` | `DestroyReturns` | `zookeeper_close` waits for zookeeper's thread with `listLock` held (`ZooKfkTopicsPop.cpp:713`), and that thread may wait for the lock in a `kfkDestroy` of its own (`671`): both wait for ever |
| run `kafka_pop` | `HandleIsOpen` | no call looks whether `zookInit` failed: the start of a topic then uses a null handle |
| run `kafka_pop` | `SubscriptionAlwaysMatches` | a `kfkInit` whose subscribe is refused leaves `topics_` filled (`ZooKfkTopicsPop.cpp:315`): the start of one of these topics is taken as done |
| run `kafka_pop` | `NoneSkipped` | a message that comes while the topics change before the first commit is passed over: the subscription begins anew at the end (`ZooKfkTopicsPop.cpp:267`) |
| run `kafka_pop` | `BrokersAlwaysCatchUp` | a list of brokers that cannot be read leaves no watch (`ZooKfkTopicsPop.cpp:33`), a broker that cannot be read is left out (`59`), and neither is read again |
| `KafkaPopLateChange.cfg` | `HandleStaysOpen` | topics or brokers that change in a `kfkDestroy`, and with `EarlyChange = TRUE` brokers that change while `zookInit` runs, meet a null handle |
| run `kafka_push` | `HandleIsOpen` | a flush, a new topic or a list of brokers can meet a `kfkDestroy` |
| run `kafka_push` | `AllCallsReturn` | `zookeeper_close` waits with `topicMapLock` held (`ZooKfkTopicsPush.cpp:532`) for a thread that may wait for it in its own `kfkDestroy` (`553`): then no call returns |
| run `kafka_push` | `CallbacksCome` | callbacks run in polls only, and there is none before a full queue, a flush or the end (`ZooKfkTopicsPush.h:78`) |

Seen while modelling and not stated as properties: a delivery callback that
pushes again blocks on the lock its own thread holds; `producerAddTopic` of a
topic that exists leaks its handle; `pop` reads `message->err` after the message was
destroyed; `consume` returns code 0 with the text of its own errors;
a `zoo_get` of a broker that fails leaves `len` at 1024 and the zero goes one byte past the buffer
(`ZooKfkTopicsPop.cpp:63`), and when all of them fail the empty list counts as no brokers, which
without a `downcb_` is a `kfkDestroy`.

## 4. Proofs

The theorems hold for every value of the constants that satisfies the named
assumptions: `IoNumAssumption` (at least one IO thread), `UidAssumption`,
`ThreadAssumption` (the kinds of thread are disjoint), `BoundAssumption` (bounds are
numbers, the modulus is larger than the number of IO threads), `PoolAssumption` (finitely
many workers and callers), `SpeedAssumption` (counts fit the word),
`PopAssumption`, `PushAssumption` and `ZookAssumption` (finitely many servers; threads and topics are distinct from the
values that stand for none, bounds are numbers), `CurlAssumption` (the kinds of thread
are disjoint, there are finitely many callers and requests, and the modulus of
`readyIothread` leaves room for all IO threads and all failures of `asyncCurlReady`, as 2^32
does), `RedisAssumption` and `RemainAssumption` (finitely many commands, records and
threads, a time limit or a file size above zero). The bounds on calls, exits,
failures and time are
constants too, so the theorems hold for all of them.

**TCP client.**

* `TypeCorrect` (`TypeOK`). Not inductive alone: a step reads `cli[cur[t]].io`, so
  the uid that a thread, an order or the map names must be one that was made.
  That is `Refs`, and `TypeOK /\ Refs` is inductive.
* `NoLostWakeupHolds`. `NoLostWakeup` speaks of threads in their loop; `WakeInv`
  also covers a thread about to enter it and says that a draining thread has
  read a value above zero, which is what tells it from a thread in its loop.
  `TypeOK /\ Refs /\ WakeInv` is inductive. Most actions neither queue nor read the
  eventfd (lemma `WakeQuiet`).
* `ReportedOnceHolds`. Looking at the reports alone says nothing about those
  still to come. `EndInv` follows the *right to report the end* of a connection:
  it lies with the caller about to make the map entry, then in the entry, then
  with the one thread that erased it, and is used up by that thread's report.
  `BeginInv` follows the beginning: it is reported by the thread that saw the
  connection come up, which happens once because the socket, once set, is never
  cleared and `state_` never goes back. Steps that concern neither are disposed
  of by `CalmStep`; the five that do have a lemma each.
* `ReadyMeansAllHolds`: the wait of a call for `readyIothread` is what keeps its order
  from a thread that is not there. The counter is unsigned and is also taken down by attempts
  it never counted. `ReadyInv` says what it holds: the number of the threads that run (`Up`)
  less the failures so far, modulo `UMod`. So it equals the number of IO threads only when all run and none has
  failed (`ReadyIsAll`), unless the failures have gone once around: the hypothesis
  `MaxReadyFail + IoNum < UMod`, for 2^32. And what a call has once found stays so: since a
  thread that runs does not fail any more, every call past its wait finds the threads
  `Settled`.
* `MsgCbClientAliveHolds` and `FreedByIoThreadHolds`, about lifetimes. That a client is
  referenced while `msgCb` runs is not inductive: the map entry that holds it may go at any
  moment. `CareInv` says what takes its place: a client that is not closed is *kept*, by
  the map, by the caller that is adding it, or by an order to close it (`Closing`), which
  stands behind the order that connects it as long as there is no socket, since `handleRead`
  takes the first order for the connect. A caller past its disconnect order (`Past`) and an IO
  thread about to report an end may therefore erase the entry. `OrdersLast`, `ClientsLast`,
  `EntriesLast` and `ThreadsLast` say what a step may do to each of these; `CareKeeps` draws
  the conclusion once, and `CareQuiet` disposes of the steps that touch neither deques nor
  map. `ServeInv` is about the IO threads: a deque is dropped by `IoCreate` only when nothing
  is in it, and by `libeventTcpCliExit` only when `exitIothread`, which is the number of
  threads that have ended, says that all have; a thread that has left its loop did so for an
  exit or because an attempt failed. Hypotheses: `connectServer` does not fail at
  once (without it both are false, section 3), and fewer than 2^32 attempts of
  `libeventIoReady` fail (`MaxReadyFail + IoNum < UMod`).
  `MsgCbClientAliveHolds` allows exits at any moment; `FreedByIoThreadHolds` does not
  (`MaxExits = 0`), for `libeventTcpCliExit` destroys the deques and the clients in them in
  the caller's thread, after the IO threads are gone.

**HTTP client.** `Inductive`: `IInv` is preserved by every step, with exits at any
moment, calls that come late, and failures of `asyncCurlReady`. Its parts:

* `TypeInv` (`Types`) and `ThreadInv`: what the place of a thread says of the request, the
  index and the flags it has in hand; `exitIothread` is the number of IO threads that are done.
* `ReadyInv`: `readyIothread` is, modulo `UMod`, the number of IO threads that run less the
  failures counted down. So a call that passes the wait of
  `curlHttpRequest` finds every IO thread settled, and the queue it pushes to has a reader.
* `StageInv`: a request is in one stage at a time: in the hands of its caller, with one IO
  thread (queued, in the multi handle, given up), in the queue of responses, with the
  callback thread, or answered. This is `AnsweredOnceAlways`: the counter alone says nothing
  of the answers still to come.
* `CountInv`: `asyncNum` is the cardinality of the requests that are counted and not yet
  called back, unless the program has crashed (`AsyncNumExactAlways`).
* `NoStrandedRequest`: the requests an IO thread has queued are no more than the wake-ups
  it has read, that lie in the eventfd, or that a caller past its push is about to
  write (`NoStrandedRequestAlways`).

`NoLostConnNotifyAlways` is, as in the thread pool, a fact about cardinalities: a
connection put back adds one to the queue and wakes one caller if any sleeps; a
caller sleeps only on an empty queue.

`ExitMeansAllAnsweredAlways` has the hypothesis `QuietExit` (nobody calls
during or after the exit); its invariant `QuietInv` says that no call is in progress
once `isExit` is set, that every request accepted is in some stage, and in which order
the parts are joined (`QuietAlways`). Without the hypothesis it is false (`CurlLateRequest.cfg`).
`CurlIsAnswerService` is below.
`BlockedIsOwedAlways`
(a caller blocked on a pool of connections is owed one) has the hypotheses
`QuietExit`, no redirection and no failure of the set-up: `PoolInv` follows the
*debt* of a pool, which lies in its queue, with a caller past `httpcliConnPop`, or with a
request an IO thread has. A request that changes its URL takes the
debt to another pool (`CurlRedirect.cfg`).

**Redis client.** `Inductive` has, beside the types, two parts. `MoveInv`: a command is in one stage at a
time (with its caller, queued, pending, a result in the pool, being called), which gives
`AnsweredOnceAlways`; orphans are excepted from the stages after the loss of the
connection, as in the property. `DriverInv`: exactly one of an order to connect,
a delayed one, and an attempt or a live connection exists, and the states of
client and server agree with it, which gives `OneDriverAlways`. All of it holds until a post meets
the pool after its reset (`crashed`). `StateTasksInOrderAlways` follows the last state task that
waits in the pool (`ToldInv`), for any number of callback threads; what two threads
tell can still come in the wrong order (`RedisToldLate.cfg`). `ExitMeansAllAnsweredAlways` ties
`asyncCmdNum` to the commands that are open (`ExitInv`) and has the hypothesis
`QuietExit` (`RedisLateCommand.cfg` shows why).

**Files.** `IInv` is `TypeInv` (`Types`), `FileInv` (an open `.tmp` file has one manager, a
claimed `.bak` file one reader, whichever gateways race for it), `ReaderInv`, `RecInv` (a
record is in one file; once read, nobody reads that file any more), `WriterInv` (the
record of a call in progress is nowhere yet) and `KeptInv` (what is acknowledged is in a
file, with a reader or delivered, unless it died with the process that had read it). All hold
with crashes, failing writes and a share that goes away. They give `OneCopyAlways` and
`AckedIsKeptAlways`. The operations of a manager (open, publish, write) share what the
predicate `Good` says of their outcome. `NothingStrandedAlways` speaks of runs in which nothing
has failed so far; `CalmInv` says that then files are where their managers and
readers look for them and that every record written is in one that is open,
published or claimed. `GoneInv` says that an exit that is over and that no call
outlives has left no manager, so an open file has one that somebody will close.

**Thread pool.** One inductive invariant `Inv`: `TypeOK`, `Kinds` (each thread
runs its own kind of step), `Phases` (nothing runs before start, all workers are
done after stop), `Holding` (who waits or executes holds a task), `ExecInv` (a task
given out has run or is in a worker's hands), and the properties
`FirstInFirstOut`, `NoSleepingWorker`, `NoSleepingProducer`. From it: `PoolTypeCorrect`,
`PoolIsQueue`, `PoolStopsQuiet`, `PoolWakesWorkers`, `PoolWakesCallers`. The last two are about
cardinalities: a push adds one task and, if anyone sleeps, one awake worker; a
worker may only go to sleep on an empty queue. They hold with unasked wake-ups.

`PoolImplementsQueue` (`IsTaskQueue`): the first state maps to `TaskQueue`'s, and each
action to one of its actions or to a stutter (`Push` and the running disjuncts of
`Run`, `RunAgain`, `TryRun` to `Accept`, `Take` to `Begin`, `Exec` to `End`, `Start` to `Open`, `Join` to
`Close`). `Close` needs that no worker executes when all have been joined, which is
`Phases` and `ExecInv` of `Inv`.

**Speed control.** `IInv` adds to the properties that the count a report has read
lies between the last one reported and the counter. `CastInt` and `Difference` are the
arithmetic of the unsigned difference and its cast. `ReportsAddUp`, `IndicesInRange`
and `TypeCorrect` follow from `IInv`.

**Kafka consumer.** `IInv` is `TypeInv`, `OffsetInv` (positions and commits are offsets of messages, and what was
polled or given is a message), `LockInv` (who is in the poll or after it
holds the lock, and so does a `kfkDestroy` that closes), `SafeInv` (the handle and the subscription only
change under the lock, so that they are as they were when the poll began; `topics` is what is
subscribed to, unless `kfkInit` failed or a `kfkDestroy` has begun) and `MsgInv` (only a pop past its poll has a
message in hand, and what was polled is given or in hand). It gives
`PollsAreSafe`, `SubscriptionsAgree`, `MessagesAreKept`, for reads, calls and a `zookInit` that may fail. That a message is
given only once is not claimed: a change of topics may bring it again. `PopTypeCorrect` adds where the owner and zookeeper's
thread can be, with `destroy`, which both set and add to, at most one more than the `kfkDestroy`s that
have got in (`WhereInv`), and the flags (`FlagInv`).

`BrokersAreCurrentAlways` is about the brokers, which change without the lock. A
watch fires once and does not say what changed, and the addresses are read one by one after the list, so `KnownInv` says of every list
that is being read that, with what is still to be read, it is zookeeper's (`Reads`), and of the one that was given to the
handle that it is zookeeper's, *and* that the watch is set; or an event
is on its way, or the read failed. Hypothesis: `~EarlyChange`.

**zookconfig.** `ConfTypeCorrect`, and three facts.
`RegisteredIsOursAlways`: `SessionInv` says that a process that is up has a session of its own, and
once registered the node is that session's, whatever calls were lost or repeated and
whoever was restarted. `ListIsCurrentAlways` is the safety part of `ListCatchesUp`: a
follower at rest has the list right. Two threads load, each by several reads, while servers come and go. `FollowInv` has
`PlaceInv` (which thread loads, and what it begins with) and `ListInv`: a list that is
being read, was given to `serverCb` or was returned is right when what is still to be
read is added (`Loading`) and the watch of the children is set, or a later load is
owed (`Owed`). Conditions: the path was there when the application asked (`~missing`), and no load
gives up (`~LoadMayGiveUp`, `ZookShortList.cfg`). `ConfigIsCurrentAlways`: while the watch
of the value has not fired, `configMap` has zookeeper's value (`ValueInv`); only an announced change can be missed
(`ZookStale.cfg` shows that it can).

**Kafka producer.** `IInv` is `TypeInv`, `LockInv`, `OpenInv` (a push past the lock finds the handle open, and a
closed handle has an empty queue), `ClosedInv` (`destroy` is above 1 only when the
first `kfkDestroy` drains or has closed, although the others set it back to 1; who waits in `zookeeper_close` has closed the handle and has the lock),
`CallInv`, `OneCallInv` and `FreshInv` (a callback is for a message that is delivered
and not yet told, in one thread; the message of a push that has not produced yet is new). It
gives `DestroyAnswersAll` and `CallbacksAreSafe`. `TypeCorrect` also needs that the
queue keeps its limit (`NumInv`) and that each destroyer adds to `destroy` once (`CountInv`).

**The clients as services.** `AnswerService` has four variables: which requests were asked, which are in their
callback, which have been told, and whether the service is closed. A request is asked once and
only before the close, its callback begins once and only before the close, and the close needs that
all that were asked have been told. Three theorems show that the clients' threads, queues and counters
implement it; each maps every action to `Ask`, `Begin`, `End`, `Close` or a stutter.

* `PushIsAnswerService`, without a hypothesis: `Produce` is `Ask`, `CallbackStart` and `CallbackEnd`
  in any thread that polls are `Begin` and `End`, and the first `kfkDestroy` to return is
  `Close`, whichever of the two it is and although the other may be still in it. From `IInv`: `OpenInv` and `ClosedInv`
  give the guards about the close, `OneCallInv` and `CallInv` those about the callback.
* `CurlIsAnswerService`, with `QuietExit`: `Call` is `Ask`, `CallerRsp` and `CallerCall` are
  `Begin` and `End`, `ExitSpin` of the first exit is `Close`. From `StageInv` and `QuietInv`: past the poll of `asyncQueNum`
  a request has been told or is in its callback (`NoneInFlight`), and the join of the callback
  thread excludes the latter.
* `RedisIsAnswerService`, with `QuietExit`, in every behaviour in which no connection is lost with
  commands pending (`[]NoneLost`; the others are answered twice, section 3): `Command`, `CbReply`, `CbCall`
  and `ExitReturn`. From `MoveInv` and `ExitInv`.

**Only model-checked**: the liveness properties (fairness and leads-to are out of
the prover's reach): `CallsReturn`, `ReportedGoneIsClosed` and `ExitStopsIo` of the TCP client, `AllAnswered` of the HTTP and redis
clients, `ExitReturns`, `StopReturns`, `Delivered`, `ListCatchesUp`, and those of the Kafka clients. Every
invariant that a run checks is proved, under the hypotheses named above.

## 5. Not modelled, and plan

Not modelled, and why:

* `redisAsyn/v1.0` master/slave and cluster servers: state machines over several
  connections, each of which is what `RedisAsync` models. v2.0 is v1.0 in progress,
  with changes in the cluster part.
* `rediscluster`: the synchronous cluster client, next in the plan.
* `msgFile`: the file protocol of `remainFile` without the share; the rest is the
  layout of records. `RemainObjMgr.cpp`: encoding and decoding of records, sequential.
* `zookafka`: of the classes beside the two modelled only `ZooKafBrokers` is built, a
  read of the brokers as in `KafkaPop`'s watch; the others are older variants that no build file
  names.
* `zookconfig`: the expiry of a live process's session, for which `watcher` has no branch.
* `curlHttpCli/V1.0.0.0`, `redislibevent`, `redisSync`, `redisClusterAsyn`: superseded versions
  and a stub.
* `common` locks and utilities: pthread wrappers, which the modules use by their
  pthread meaning, and sequential code for which tests are the better tool.
* Headers of libevent, libcurl, hiredis, openssl, rapidjson, zookeeper and
  librdkafka, which are most of the repository's lines.

Plan:

1. `rediscluster`: the slot table against redirections; the master/slave server of
   `redisAsyn` on top of `RedisAsync`.
2. An abstract *store* (written, kept, delivered) for `RemainFile`, beside `TaskQueue` and
   `AnswerService`, and an abstract *connection* (added, up, gone) for the TCP client.
