----------------------------- MODULE CurlHttpCli -----------------------------
(***************************************************************************)
(* The asynchronous HTTP client library src/curlHttpCli: the manager       *)
(* CurlHttpCli, its IO threads AsyncCurlHttp (an eventfd, a request queue  *)
(* and a libevent loop driving a curl multi handle each), the per-URL pool *)
(* of connections HttpUrlConnInfo, the response queue and the thread that  *)
(* runs the application's callbacks.                                       *)
(*                                                                         *)
(* A request stands for its HttpReqSession and, once an IO thread has      *)
(* taken it, for the ConnInfo made for it: setHttpConnInfo has no caller,  *)
(* so every request gets a new ConnInfo, and of a pooled one only the      *)
(* index of its IO thread is ever read.                                    *)
(***************************************************************************)
EXTENDS Integers, Sequences, FiniteSets

CONSTANTS
  Users,          \* application threads that call the library
  Caller,         \* the thread of httpRspCallBackThread
  Waker,          \* the thread of httpIoWakeThread
  IoNum,          \* threadNum given to curlHttpCliInit
  Reqs, NoReq,    \* the requests, and "no request"
  Urls, NoUrl,    \* the URLs they are for, and "no URL"
  MaxQueue,       \* maxQueue given to curlHttpCliInit, 0 for no limit
  MaxConns,       \* httpUrlmaxConns() of every request, 0 for no limit
  Garbage,        \* what the uninitialised queueSize_ may hold
  UMod,           \* modulus of the unsigned arithmetic (2^32 in C++)
  Redirect,       \* may the effective URL differ from the requested one?
  Unasked,        \* may a wait on a condition variable return unasked?
  SetupMayFail,   \* may requetHttpServer give a request up before curl gets it?
  QuietExit,      \* is curlHttpCliExit called only after start-up and while
                  \* no other call is in progress?
  MaxExits,       \* bound on the calls of curlHttpCliExit
  MaxReadyFail,   \* bound on the failures of asyncCurlReady
  MaxCredit       \* bound on the wake-ups that pile up unread for an IO thread

Ios == 0 .. IoNum - 1
Threads == Users \cup Ios \cup {Caller, Waker}

\* The modulus leaves room for every IO thread and every failure of
\* asyncCurlReady, as 2^32 does.
ASSUME CurlAssumption ==
  /\ IoNum \in Nat \ {0}
  /\ NoReq \notin Reqs /\ NoUrl \notin Urls
  /\ Caller # Waker /\ {Caller, Waker} \cap (Users \cup Ios) = {}
  /\ Users \cap Ios = {}
  /\ {MaxQueue, MaxConns, MaxExits, MaxReadyFail, MaxCredit} \subseteq Nat
  /\ Garbage \subseteq Nat /\ Garbage # {}
  /\ UMod \in Nat /\ UMod > IoNum + MaxReadyFail
  /\ IsFiniteSet(Users) /\ IsFiniteSet(Reqs)
  /\ {Redirect, Unasked, SetupMayFail, QuietExit} \subseteq BOOLEAN

UserPcs == {"idle", "init", "wait", "count", "pop", "popWait", "addUrl", "insert",
            "slot", "push", "pushWait", "wake", "crashed", "exPoll", "exJoinWake",
            "exWrite", "exResp", "exJoinCall", "exSpin", "exDone"}
IoPcs == {"off", "new", "loop", "pull", "each", "check", "return", "left", "test", "done"}
CallerPcs == {"take", "sleep", "asleep", "rsp", "call", "done"}
WakerPcs == {"write", "done"}

VARIABLES
  isExit, threadExit, started, ioThreadNum, lastIndex, readyIothread, exitIothread,
  slots,          \* asyncCurlHttpPtrVect: which slots hold an AsyncCurlHttp
  wakeupFd,       \* [Ios -> Nat], the eventfd counters
  queueSize,      \* [Ios -> Nat], wake-ups read and not yet used
  reqQueue,       \* [Ios -> Seq(Reqs)]
  running, done,  \* [Ios -> SUBSET Reqs]: transfers of the multi handle that
                  \* run, and that are over with the message not yet read
  still,          \* [Ios -> Nat], gInfo_->still_running
  stopped,        \* [Ios -> BOOLEAN], gInfo_->stopped
  aged,           \* requests 180 seconds past their outSecond
  pool,           \* urlMap_: [Urls -> [in, max, size, queue]]
  respQueue, respExit,
  asyncNum,       \* AsyncQueueNum
  pc, cur,        \* per thread: where it is, and with which request
  num,            \* per thread: loop index or count, IO index of a call
  odd,            \* per IO thread: did the last read see an exit order?
  back,           \* per IO thread: the loop a connection is returned from
  url,            \* the URL of each request, NoUrl while it is not made
  answered,       \* [Reqs -> Nat], callbacks that have returned
  exits, readyFails

mgrVars == <<isExit, threadExit, started, ioThreadNum, lastIndex, readyIothread, exitIothread>>
ioVars == <<slots, wakeupFd, queueSize, reqQueue, stopped, odd, back>>
multiVars == <<running, done, still, aged>>
respVars == <<respQueue, respExit, asyncNum, answered>>
boundVars == <<exits, readyFails>>
vars == <<mgrVars, ioVars, multiVars, pool, respVars, pc, cur, num, url, boundVars>>

Pool == [in : BOOLEAN, max : Nat, size : Nat, queue : Seq(Ios)]

Init ==
  /\ isExit = FALSE /\ threadExit = FALSE /\ started = FALSE
  /\ ioThreadNum = 0 /\ lastIndex = 0 /\ readyIothread = 0 /\ exitIothread = 0
  /\ slots = {}
  /\ wakeupFd = [i \in Ios |-> 0]
  /\ queueSize = [i \in Ios |-> 0]
  /\ reqQueue = [i \in Ios |-> <<>>]
  /\ running = [i \in Ios |-> {}] /\ done = [i \in Ios |-> {}]
  /\ still = [i \in Ios |-> 0]
  /\ stopped = [i \in Ios |-> FALSE]
  /\ aged = {}
  /\ pool = [u \in Urls |-> [in |-> FALSE, max |-> 0, size |-> 0, queue |-> <<>>]]
  /\ respQueue = <<>> /\ respExit = FALSE /\ asyncNum = 0
  /\ pc = [t \in Threads |-> IF t \in Ios THEN "off"
                             ELSE IF t = Caller THEN "take"
                             ELSE IF t = Waker THEN "write" ELSE "idle"]
  /\ cur = [t \in Threads |-> NoReq]
  /\ num = [t \in Threads |-> 0]
  /\ odd = [i \in Ios |-> FALSE]
  /\ back = [i \in Ios |-> "each"]
  /\ url = [r \in Reqs |-> NoUrl]
  /\ answered = [r \in Reqs |-> 0]
  /\ exits = 0 /\ readyFails = 0

-----------------------------------------------------------------------------
(* Helpers.                                                                 *)

Goto(t, p) == pc' = [pc EXCEPT ![t] = p]

\* The threads a condition variable's notify may pick from are W: one of them
\* wakes and goes to w, if there is one; thread t goes to p.
NotifyOne(t, p, W, w) ==
  \/ W = {} /\ Goto(t, p)
  \/ \E s \in W : pc' = [pc EXCEPT ![t] = p, ![s] = w]

\* HttpConnInfoQueue::isFull
PoolFull(q) == q.max > 0 /\ q.size >= q.max

\* HttpRequestQueue::isFull
QueueFull(i) == MaxQueue > 0 /\ Len(reqQueue[i]) >= MaxQueue

\* readyIothread--, on unsigned int
Decremented(n) == IF n = 0 THEN UMod - 1 ELSE n - 1

\* May the response queue's mutex be taken? The callback thread holds it from
\* its look at isExit_ to pthread_cond_wait.
RespUnlocked == pc[Caller] # "sleep"

\* httpResponse(r) by IO thread i, which goes to p: append and notify.
Respond(i, r, p) ==
  /\ RespUnlocked
  /\ respQueue' = Append(respQueue, r)
  /\ NotifyOne(i, p, {s \in {Caller} : pc[s] = "asleep"}, "take")

-----------------------------------------------------------------------------
(* Start-up: curlHttpCliInit.                                               *)

\* The callback thread, the wake thread and the pool of IO threads start ...
InitStart(t) ==
  /\ t \in Users /\ pc[t] = "idle"
  /\ ~started /\ ioThreadNum = 0
  /\ started' = TRUE
  /\ Goto(t, "init")
  /\ UNCHANGED <<isExit, threadExit, ioThreadNum, lastIndex, readyIothread, exitIothread,
                 ioVars, multiVars, pool, respVars, cur, num, url, boundVars>>

\* ... and then ioThreadNum is set.
InitDone(t) ==
  /\ pc[t] = "init"
  /\ ioThreadNum' = IoNum
  /\ Goto(t, "idle")
  /\ UNCHANGED <<isExit, threadExit, started, lastIndex, readyIothread, exitIothread,
                 ioVars, multiVars, pool, respVars, cur, num, url, boundVars>>

-----------------------------------------------------------------------------
(* curlHttpRequest.                                                         *)

\* With isExit set the call returns -2 at once.
Call(t, r, u) ==
  /\ t \in Users /\ pc[t] = "idle"
  /\ started /\ url[r] = NoUrl
  /\ ~isExit
  /\ url' = [url EXCEPT ![r] = u]
  /\ cur' = [cur EXCEPT ![t] = r]
  /\ Goto(t, "wait")
  /\ UNCHANGED <<mgrVars, ioVars, multiVars, pool, respVars, num, boundVars>>

\* while(ioThreadNum == 0 || readyIothread != ioThreadNum) sleep(1)
WaitReady(t) ==
  /\ pc[t] = "wait"
  /\ ioThreadNum # 0 /\ readyIothread = ioThreadNum
  /\ Goto(t, "count")
  /\ UNCHANGED <<mgrVars, ioVars, multiVars, pool, respVars, cur, num, url, boundVars>>

\* asyncReq(), and connInfoFromUrl's look for the URL's queue. num is the
\* ioIndex of curlHttpClientWakeup: IoNum stands for "any IO thread".
Count(t) ==
  /\ pc[t] = "count"
  /\ asyncNum' = asyncNum + 1
  /\ num' = [num EXCEPT ![t] = IoNum]
  /\ Goto(t, IF pool[url[cur[t]]].in THEN "pop" ELSE "addUrl")
  /\ UNCHANGED <<mgrVars, ioVars, multiVars, pool, respQueue, respExit, answered,
                 cur, url, boundVars>>

\* httpcliConnPop: take a connection of the URL, wait for one if the queue is
\* empty and full by its count, or go on without one.
Pop(t) ==
  LET u == url[cur[t]]
      q == pool[u]
  IN /\ pc[t] = "pop"
     /\ IF q.queue # <<>>
          THEN /\ pool' = [pool EXCEPT ![u].queue = Tail(@)]
               /\ num' = [num EXCEPT ![t] = Head(q.queue)]
               /\ Goto(t, "slot")
          ELSE /\ Goto(t, IF PoolFull(q) THEN "popWait" ELSE "addUrl")
               /\ UNCHANGED <<pool, num>>
     /\ UNCHANGED <<mgrVars, ioVars, multiVars, respVars, cur, url, boundVars>>

\* addUrlConnInfo: the look under the mutex
AddUrl(t) ==
  /\ pc[t] = "addUrl"
  /\ Goto(t, IF pool[url[cur[t]]].in THEN "slot" ELSE "insert")
  /\ UNCHANGED <<mgrVars, ioVars, multiVars, pool, respVars, cur, num, url, boundVars>>

\* addUrlConnInfo: the insert without the mutex. std::map keeps an entry that
\* is there already; queueSize_ is uninitialised. Two inserts that overlap
\* race on the tree: one of them may be lost.
Insert(t) ==
  LET u == url[cur[t]]
  IN /\ pc[t] = "insert"
     /\ \/ /\ ~pool[u].in
           /\ \E g \in Garbage :
                pool' = [pool EXCEPT ![u] = [in |-> TRUE, max |-> MaxConns, size |-> g, queue |-> <<>>]]
        \/ /\ pool[u].in \/ \E s \in Users \ {t} : pc[s] = "insert"
           /\ UNCHANGED pool
     /\ Goto(t, "slot")
     /\ UNCHANGED <<mgrVars, ioVars, multiVars, respVars, cur, num, url, boundVars>>

\* A call of curlHttpRequest returns.
Return(t) ==
  /\ Goto(t, "idle")
  /\ cur' = [cur EXCEPT ![t] = NoReq]

\* The IO thread a call is for: its connection's, or the next one in turn
Target(t) == IF num[t] = IoNum THEN lastIndex ELSE num[t]
NextIndex(t) == lastIndex' = IF num[t] = IoNum THEN (lastIndex + 1) % IoNum ELSE lastIndex

\* Mutation: an empty slot is reported without asyncRsp.
SlotKeepsCount(t) ==
  /\ pc[t] = "slot" /\ NextIndex(t)
  /\ IF Target(t) \in slots
       THEN /\ Goto(t, "push") /\ num' = [num EXCEPT ![t] = Target(t)]
            /\ UNCHANGED cur
       ELSE Return(t) /\ num' = [num EXCEPT ![t] = 0]
  /\ UNCHANGED <<isExit, threadExit, started, ioThreadNum, readyIothread, exitIothread,
                 ioVars, multiVars, pool, respVars, url, boundVars>>

\* curlHttpClientWakeup: the IO thread is chosen and its slot's pointer tested.
\* With none the call returns -1 after asyncRsp.
Slot(t) ==
  /\ pc[t] = "slot" /\ NextIndex(t)
  /\ IF Target(t) \in slots
       THEN /\ Goto(t, "push") /\ num' = [num EXCEPT ![t] = Target(t)]
            /\ UNCHANGED <<asyncNum, cur>>
       ELSE /\ asyncNum' = asyncNum - 1
            /\ Return(t) /\ num' = [num EXCEPT ![t] = 0]
  /\ UNCHANGED <<isExit, threadExit, started, ioThreadNum, readyIothread, exitIothread,
                 ioVars, multiVars, pool, respQueue, respExit, answered, url, boundVars>>

\* curlhttpRequest: push, or wait while the queue is full. The pointer is read
\* again: curlHttpCliExit may have reset it.
Push(t) ==
  LET i == num[t]
  IN /\ pc[t] = "push"
     /\ IF i \notin slots
          THEN Goto(t, "crashed") /\ UNCHANGED reqQueue
          ELSE IF QueueFull(i)
            THEN Goto(t, "pushWait") /\ UNCHANGED reqQueue
            ELSE /\ reqQueue' = [reqQueue EXCEPT ![i] = Append(@, cur[t])]
                 /\ Goto(t, "wake")
     /\ UNCHANGED <<mgrVars, slots, wakeupFd, queueSize, stopped, odd, back, multiVars,
                    pool, respVars, cur, num, url, boundVars>>

\* Is wakeupFd_ of IO thread i open?
FdOpen(i) == pc[i] \notin {"off", "left", "test", "done"}

\* Mutation: wakeup() writes 1, as asyncCurlExit does.
WakeupByOne(t) ==
  LET i == num[t]
  IN /\ pc[t] = "wake"
     /\ Goto(t, IF i \in slots THEN "idle" ELSE "crashed")
     /\ num' = [num EXCEPT ![t] = 0]
     /\ wakeupFd' = [wakeupFd EXCEPT ![i] = IF i \in slots /\ FdOpen(i) THEN @ + 1 ELSE @]
     /\ cur' = [cur EXCEPT ![t] = NoReq]
     /\ UNCHANGED <<mgrVars, slots, queueSize, reqQueue, stopped, odd, back, multiVars,
                    pool, respVars, url, boundVars>>

\* wakeup(): write 2, then the call returns
Wakeup(t) ==
  LET i == num[t]
  IN /\ pc[t] = "wake"
     /\ Goto(t, IF i \in slots THEN "idle" ELSE "crashed")
     /\ num' = [num EXCEPT ![t] = 0]
     /\ wakeupFd' = [wakeupFd EXCEPT ![i] = IF i \in slots /\ FdOpen(i) THEN @ + 2 ELSE @]
     /\ cur' = [cur EXCEPT ![t] = NoReq]
     /\ UNCHANGED <<mgrVars, slots, queueSize, reqQueue, stopped, odd, back, multiVars,
                    pool, respVars, url, boundVars>>

-----------------------------------------------------------------------------
(* The IO threads: httpCliIoThread and AsyncCurlHttp.                       *)

\* A new AsyncCurlHttp goes into the slot.
IoCreate(i) ==
  /\ started /\ pc[i] = "off"
  /\ slots' = slots \cup {i}
  /\ wakeupFd' = [wakeupFd EXCEPT ![i] = 0]
  /\ queueSize' = [queueSize EXCEPT ![i] = 0]
  /\ Goto(i, "new")
  /\ UNCHANGED <<mgrVars, reqQueue, stopped, odd, back, multiVars, pool, respVars,
                 cur, num, url, boundVars>>

\* asyncCurlReady up to event_base_dispatch
IoReady(i) ==
  /\ pc[i] = "new"
  /\ reqQueue' = [reqQueue EXCEPT ![i] = <<>>]
  /\ readyIothread' = (readyIothread + 1) % UMod
  /\ Goto(i, "loop")
  /\ UNCHANGED <<isExit, threadExit, started, ioThreadNum, lastIndex, exitIothread, slots,
                 wakeupFd, queueSize, stopped, odd, back, multiVars, pool, respVars,
                 cur, num, url, boundVars>>

\* asyncCurlReady returns -1 before curlHttpThreadReady.
IoReadyFail(i) ==
  /\ pc[i] = "new" /\ readyFails < MaxReadyFail
  /\ readyFails' = readyFails + 1
  /\ Goto(i, "left")
  /\ UNCHANGED <<mgrVars, ioVars, multiVars, pool, respVars, cur, num, url, exits>>

\* requetHttpServer() with n turns of its loop to go
PullPc(n) == IF n > 0 THEN "pull" ELSE "each"

\* handleRead: the counter is read and reset; half of it are requests, the odd
\* one is the exit order. requetHttpServer() then samples queueSize.
HandleRead(i) ==
  /\ pc[i] = "loop" /\ wakeupFd[i] > 0
  /\ wakeupFd' = [wakeupFd EXCEPT ![i] = 0]
  /\ queueSize' = [queueSize EXCEPT ![i] = @ + wakeupFd[i] \div 2]
  /\ num' = [num EXCEPT ![i] = queueSize'[i]]
  /\ odd' = [odd EXCEPT ![i] = wakeupFd[i] % 2 = 1]
  /\ Goto(i, PullPc(queueSize'[i]))
  /\ UNCHANGED <<mgrVars, slots, reqQueue, stopped, back, multiVars, pool, respVars,
                 cur, url, boundVars>>

\* Mutation: dealRequest without notFull_.notify().
DealNoNotify(i, p) ==
  /\ reqQueue' = [reqQueue EXCEPT ![i] = Tail(@)]
  /\ Goto(i, p)

\* dealRequest by IO thread i, which goes to p: the head goes, one caller that
\* waits for room wakes.
Deal(i, p) ==
  /\ reqQueue' = [reqQueue EXCEPT ![i] = Tail(@)]
  /\ IF MaxQueue > 0
       THEN NotifyOne(i, p, {s \in Users : pc[s] = "pushWait" /\ num[s] = i}, "push")
       ELSE Goto(i, p)

\* curl_multi_socket_action with the transfers S alive: the ones of D end.
SocketAction(i, S, D) ==
  /\ running' = [running EXCEPT ![i] = S \ D]
  /\ done' = [done EXCEPT ![i] = @ \cup D]
  /\ still' = [still EXCEPT ![i] = Cardinality(S \ D)]

\* One more turn of requetHttpServer()'s loop is due.
Pulling(i) ==
  /\ pc[i] = "pull"
  /\ queueSize' = [queueSize EXCEPT ![i] = IF @ > 0 THEN @ - 1 ELSE @]

\* The request at the head gets a ConnInfo, which curl_multi_add_handle starts:
\* curl calls back culrMultiTimerCb(0), and so curl_multi_socket_action.
Launch(i) ==
  /\ Pulling(i) /\ reqQueue[i] # <<>>
  /\ Deal(i, PullPc(num[i] - 1))
  /\ \E D \in SUBSET (running[i] \cup {Head(reqQueue[i])}) :
       SocketAction(i, running[i] \cup {Head(reqQueue[i])}, D)
  /\ num' = [num EXCEPT ![i] = @ - 1]
  /\ UNCHANGED <<mgrVars, slots, wakeupFd, stopped, odd, back, aged, pool, respVars,
                 cur, url, boundVars>>

\* requetHttpServer gives the request up: no memory, or no such request type.
\* The new ConnInfo is deleted; the answer goes out in a step of its own.
SetupFail(i) ==
  /\ SetupMayFail
  /\ Pulling(i) /\ reqQueue[i] # <<>>
  /\ Deal(i, "return")
  /\ cur' = [cur EXCEPT ![i] = Head(reqQueue[i])]
  /\ back' = [back EXCEPT ![i] = "pull"]
  /\ num' = [num EXCEPT ![i] = @ - 1]
  /\ UNCHANGED <<mgrVars, slots, wakeupFd, stopped, odd, multiVars, pool, respVars,
                 url, boundVars>>

\* httpResponse of a request that was given up
SetupFailed(i) ==
  /\ pc[i] = "return" /\ back[i] = "pull"
  /\ Respond(i, cur[i], PullPc(num[i]))
  /\ cur' = [cur EXCEPT ![i] = NoReq]
  /\ back' = [back EXCEPT ![i] = "each"]
  /\ UNCHANGED <<mgrVars, slots, wakeupFd, queueSize, reqQueue, stopped, odd, multiVars,
                 pool, respExit, asyncNum, answered, num, url, boundVars>>

\* dealRequest has nothing: the loop is left.
PullNothing(i) ==
  /\ Pulling(i) /\ reqQueue[i] = <<>>
  /\ num' = [num EXCEPT ![i] = 0]
  /\ Goto(i, "each")
  /\ UNCHANGED <<mgrVars, slots, wakeupFd, reqQueue, stopped, odd, back, multiVars, pool,
                 respVars, cur, url, boundVars>>

\* The requests of i that have a ConnInfo in use
Held(i) == running[i] \cup done[i]

\* Mutation: httpcliConnForEach answers without connInfoReinit.
EachAgedKeeps(i, r) ==
  /\ pc[i] = "each" /\ r \in Held(i) \cap aged
  /\ Respond(i, r, "return")
  /\ cur' = [cur EXCEPT ![i] = r]
  /\ back' = [back EXCEPT ![i] = "each"]
  /\ UNCHANGED <<mgrVars, slots, wakeupFd, queueSize, reqQueue, stopped, odd, multiVars,
                 pool, respExit, asyncNum, answered, num, url, boundVars>>

\* Mutation: httpcliConnForEach does not return the connection to its pool.
EachAgedNoReturn(i, r) ==
  /\ pc[i] = "each" /\ r \in Held(i) \cap aged
  /\ Respond(i, r, "each")
  /\ running' = [running EXCEPT ![i] = @ \ {r}]
  /\ done' = [done EXCEPT ![i] = @ \ {r}]
  /\ aged' = aged \ {r}
  /\ UNCHANGED <<mgrVars, ioVars, still, pool, respExit, asyncNum, answered, cur, num,
                 url, boundVars>>

\* httpcliConnForEach: a connection 180 seconds old leaves the multi handle
\* (still_running is not told), its request is answered, it is cleared.
EachAged(i, r) ==
  /\ pc[i] = "each" /\ r \in Held(i) \cap aged
  /\ Respond(i, r, "return")
  /\ running' = [running EXCEPT ![i] = @ \ {r}]
  /\ done' = [done EXCEPT ![i] = @ \ {r}]
  /\ aged' = aged \ {r}
  /\ cur' = [cur EXCEPT ![i] = r]
  /\ back' = [back EXCEPT ![i] = "each"]
  /\ UNCHANGED <<mgrVars, slots, wakeupFd, queueSize, reqQueue, stopped, odd, still, pool,
                 respExit, asyncNum, answered, num, url, boundVars>>

\* The end of handleRead and of check_multi_info: once stopped, and with
\* nothing running by curl's last count, the loop is broken.
EachEnd(i) ==
  /\ pc[i] = "each" /\ Held(i) \cap aged = {}
  /\ stopped' = [stopped EXCEPT ![i] = @ \/ odd[i]]
  /\ odd' = [odd EXCEPT ![i] = FALSE]
  /\ Goto(i, IF stopped'[i] /\ still[i] = 0 THEN "left" ELSE "loop")
  /\ UNCHANGED <<mgrVars, slots, wakeupFd, queueSize, reqQueue, back, multiVars, pool,
                 respVars, cur, num, url, boundVars>>

\* A socket or timer event of the transfers: curlEventFdcb, timeExpireCb
MultiEvent(i) ==
  /\ pc[i] = "loop" /\ running[i] # {}
  /\ \E D \in SUBSET running[i] : SocketAction(i, running[i], D)
  /\ Goto(i, "check")
  /\ UNCHANGED <<mgrVars, ioVars, aged, pool, respVars, cur, num, url, boundVars>>

\* check_multi_info: a finished transfer is answered and its connection cleared.
CheckDone(i, r) ==
  /\ pc[i] = "check" /\ r \in done[i]
  /\ Respond(i, r, "return")
  /\ done' = [done EXCEPT ![i] = @ \ {r}]
  /\ aged' = aged \ {r}
  /\ cur' = [cur EXCEPT ![i] = r]
  /\ back' = [back EXCEPT ![i] = "check"]
  /\ UNCHANGED <<mgrVars, slots, wakeupFd, queueSize, reqQueue, stopped, odd, running, still,
                 pool, respExit, asyncNum, answered, num, url, boundVars>>

\* No message is left: requetHttpServer() is called.
CheckEnd(i) ==
  /\ pc[i] = "check" /\ done[i] = {}
  /\ num' = [num EXCEPT ![i] = queueSize[i]]
  /\ Goto(i, PullPc(queueSize[i]))
  /\ UNCHANGED <<mgrVars, ioVars, multiVars, pool, respVars, cur, url, boundVars>>

\* The pool with the connection of IO thread i put into u's queue. A queue
\* made here has no limit. The connection is always new: it is never reused.
Returned(i, u) ==
  LET q == pool[u]
  IN [pool EXCEPT ![u] =
        IF q.in THEN [in |-> TRUE, max |-> q.max, size |-> q.size + 1, queue |-> Append(q.queue, i)]
        ELSE [in |-> TRUE, max |-> 0, size |-> 1, queue |-> <<i>>]]

\* The callers that wait for a connection of u
PoolWaiters(u) == {s \in Users : pc[s] = "popWait" /\ url[cur[s]] = u}

\* Mutation: httpcliConnInsert without notEmpty_.notify().
ReturnConnNoNotify(i, u) ==
  /\ pc[i] = "return" /\ back[i] # "pull"
  /\ u = url[cur[i]] \/ (Redirect /\ back[i] = "check")
  /\ pool' = Returned(i, u)
  /\ Goto(i, back[i])
  /\ cur' = [cur EXCEPT ![i] = NoReq]
  /\ back' = [back EXCEPT ![i] = "each"]
  /\ UNCHANGED <<mgrVars, slots, wakeupFd, queueSize, reqQueue, stopped, odd, multiVars,
                 respVars, num, url, boundVars>>

\* returnUrlConnInfo: after a transfer under its effective URL, after a
\* timeout under the requested one.
ReturnConn(i, u) ==
  /\ pc[i] = "return" /\ back[i] # "pull"
  /\ u = url[cur[i]] \/ (Redirect /\ back[i] = "check")
  /\ pool' = Returned(i, u)
  /\ NotifyOne(i, back[i], PoolWaiters(u), "pop")
  /\ cur' = [cur EXCEPT ![i] = NoReq]
  /\ back' = [back EXCEPT ![i] = "each"]
  /\ UNCHANGED <<mgrVars, slots, wakeupFd, queueSize, reqQueue, stopped, odd, multiVars,
                 respVars, num, url, boundVars>>

\* asyncCurlReady has returned: readyIothread--
IoLeave(i) ==
  /\ pc[i] = "left"
  /\ readyIothread' = Decremented(readyIothread)
  /\ Goto(i, "test")
  /\ UNCHANGED <<isExit, threadExit, started, ioThreadNum, lastIndex, exitIothread, ioVars,
                 multiVars, pool, respVars, cur, num, url, boundVars>>

\* if(isExit) break, and exitIothread++; else from the top
IoTest(i) ==
  /\ pc[i] = "test"
  /\ exitIothread' = IF isExit THEN exitIothread + 1 ELSE exitIothread
  /\ Goto(i, IF isExit THEN "done" ELSE "off")
  /\ UNCHANGED <<isExit, threadExit, started, ioThreadNum, lastIndex, readyIothread, ioVars,
                 multiVars, pool, respVars, cur, num, url, boundVars>>

\* 180 seconds pass for a request with a ConnInfo.
Age(r) ==
  /\ r \notin aged
  /\ \E i \in Ios : r \in Held(i)
  /\ aged' = aged \cup {r}
  /\ UNCHANGED <<mgrVars, ioVars, running, done, still, pool, respVars, pc, cur, num, url,
                 boundVars>>

-----------------------------------------------------------------------------
(* The callback thread: httpRspCallBackThread and dealResponse.             *)

\* if(threadExit) break, at the end of a turn
NextTurn == IF threadExit THEN "done" ELSE "take"

\* dealResponse, mutex held: the head of the queue, NULL on exit, or ...
CallerTake ==
  /\ started /\ pc[Caller] = "take"
  /\ IF respQueue # <<>>
       THEN /\ cur' = [cur EXCEPT ![Caller] = Head(respQueue)]
            /\ respQueue' = Tail(respQueue)
            /\ Goto(Caller, "rsp")
       ELSE /\ Goto(Caller, IF respExit THEN NextTurn ELSE "sleep")
            /\ UNCHANGED <<cur, respQueue>>
  /\ UNCHANGED <<mgrVars, ioVars, multiVars, pool, respExit, asyncNum, answered, num, url,
                 boundVars>>

\* ... pthread_cond_wait, which lets the mutex go.
CallerSleep ==
  /\ pc[Caller] = "sleep"
  /\ Goto(Caller, "asleep")
  /\ UNCHANGED <<mgrVars, ioVars, multiVars, pool, respVars, cur, num, url, boundVars>>

\* asyncRsp() comes before the callback ...
CallerRsp ==
  /\ pc[Caller] = "rsp"
  /\ asyncNum' = asyncNum - 1
  /\ Goto(Caller, "call")
  /\ UNCHANGED <<mgrVars, ioVars, multiVars, pool, respQueue, respExit, answered, cur, num,
                 url, boundVars>>

\* ... which runs and deletes the session.
CallerCall ==
  /\ pc[Caller] = "call"
  /\ answered' = [answered EXCEPT ![cur[Caller]] = @ + 1]
  /\ cur' = [cur EXCEPT ![Caller] = NoReq]
  /\ Goto(Caller, NextTurn)
  /\ UNCHANGED <<mgrVars, ioVars, multiVars, pool, respQueue, respExit, asyncNum, num, url,
                 boundVars>>

-----------------------------------------------------------------------------
(* The wake thread: httpIoWakeThread.                                       *)

\* wakeup() of one IO thread. Beyond MaxCredit unread wake-ups do not pile up.
WakerWrite ==
  LET i == num[Waker]
  IN /\ pc[Waker] = "write" /\ i < ioThreadNum
     /\ wakeupFd[i] = 0 \/ queueSize[i] + wakeupFd[i] \div 2 < MaxCredit
     /\ wakeupFd' = [wakeupFd EXCEPT ![i] = IF i \in slots /\ FdOpen(i) THEN @ + 2 ELSE @]
     /\ num' = [num EXCEPT ![Waker] = i + 1]
     /\ UNCHANGED <<mgrVars, slots, queueSize, reqQueue, stopped, odd, back, multiVars, pool,
                    respVars, pc, cur, url, boundVars>>

\* if(threadExit) break; else sleep(1) and from the first IO thread again
WakerEnd ==
  /\ started /\ pc[Waker] = "write" /\ num[Waker] >= ioThreadNum
  /\ Goto(Waker, IF threadExit THEN "done" ELSE "write")
  /\ num' = [num EXCEPT ![Waker] = 0]
  /\ UNCHANGED <<mgrVars, ioVars, multiVars, pool, respVars, cur, url, boundVars>>

-----------------------------------------------------------------------------
(* curlHttpCliExit.                                                         *)

\* isExit = 1
ExitCall(t) ==
  /\ t \in Users /\ pc[t] = "idle"
  /\ started /\ exits < MaxExits
  /\ QuietExit => /\ ioThreadNum # 0 /\ readyIothread = ioThreadNum
                  /\ \A s \in Users : pc[s] = "idle"
  /\ exits' = exits + 1
  /\ isExit' = TRUE
  /\ Goto(t, "exPoll")
  /\ UNCHANGED <<threadExit, started, ioThreadNum, lastIndex, readyIothread, exitIothread,
                 ioVars, multiVars, pool, respVars, cur, num, url, readyFails>>

\* Mutation: the exit does not wait for the answers.
ExitPollNoWait(t) ==
  /\ pc[t] = "exPoll" /\ ioThreadNum # 0
  /\ threadExit' = TRUE
  /\ Goto(t, "exJoinWake")
  /\ UNCHANGED <<isExit, started, ioThreadNum, lastIndex, readyIothread, exitIothread, ioVars,
                 multiVars, pool, respVars, cur, num, url, boundVars>>

\* while(ioThreadNum == 0); then asyncQueNum() is polled until none is left;
\* threadExit = 1.
ExitPoll(t) ==
  /\ pc[t] = "exPoll" /\ ioThreadNum # 0
  /\ asyncNum <= 0
  /\ threadExit' = TRUE
  /\ Goto(t, "exJoinWake")
  /\ UNCHANGED <<isExit, started, ioThreadNum, lastIndex, readyIothread, exitIothread, ioVars,
                 multiVars, pool, respVars, cur, num, url, boundVars>>

\* httpIoWakePtr->join()
ExitJoinWake(t) ==
  /\ pc[t] = "exJoinWake" /\ pc[Waker] = "done"
  /\ num' = [num EXCEPT ![t] = 0]
  /\ Goto(t, "exWrite")
  /\ UNCHANGED <<mgrVars, ioVars, multiVars, pool, respVars, cur, url, boundVars>>

\* asyncCurlExit() of one IO thread: write 1
ExitWrite(t) ==
  LET i == num[t]
  IN /\ pc[t] = "exWrite" /\ i < ioThreadNum
     /\ wakeupFd' = [wakeupFd EXCEPT ![i] = IF i \in slots /\ FdOpen(i) THEN @ + 1 ELSE @]
     /\ num' = [num EXCEPT ![t] = i + 1]
     /\ UNCHANGED <<mgrVars, slots, queueSize, reqQueue, stopped, odd, back, multiVars, pool,
                    respVars, pc, cur, url, boundVars>>

\* httpResponseExit(): isExit_ = 1 ...
ExitResp(t) ==
  /\ pc[t] = "exWrite" /\ num[t] >= ioThreadNum
  /\ respExit' = TRUE
  /\ Goto(t, "exResp")
  /\ UNCHANGED <<mgrVars, ioVars, multiVars, pool, respQueue, asyncNum, answered, cur, num,
                 url, boundVars>>

\* ... and notifyAll(), without the mutex
ExitNotify(t) ==
  /\ pc[t] = "exResp"
  /\ pc' = [pc EXCEPT ![t] = "exJoinCall",
                      ![Caller] = IF @ = "asleep" THEN "take" ELSE @]
  /\ UNCHANGED <<mgrVars, ioVars, multiVars, pool, respVars, cur, num, url, boundVars>>

\* httpCliCallPtr->join()
ExitJoinCall(t) ==
  /\ pc[t] = "exJoinCall" /\ pc[Caller] = "done"
  /\ Goto(t, "exSpin")
  /\ UNCHANGED <<mgrVars, ioVars, multiVars, pool, respVars, cur, num, url, boundVars>>

\* while(exitIothread != ioThreadNum); the slots are reset, the pool stopped.
ExitSpin(t) ==
  /\ pc[t] = "exSpin" /\ exitIothread = ioThreadNum
  /\ slots' = {}
  /\ Goto(t, "exDone")
  /\ UNCHANGED <<mgrVars, wakeupFd, queueSize, reqQueue, stopped, odd, back, multiVars, pool,
                 respVars, cur, num, url, boundVars>>

-----------------------------------------------------------------------------

\* pthread_cond_wait may return without a notify.
WakeUnasked(t) ==
  /\ Unasked
  /\ pc[t] \in {"popWait", "pushWait", "asleep"}
  /\ Goto(t, CASE pc[t] = "popWait" -> "pop" [] pc[t] = "pushWait" -> "push"
               [] pc[t] = "asleep" -> "take")
  /\ UNCHANGED <<mgrVars, ioVars, multiVars, pool, respVars, cur, num, url, boundVars>>

\* The steps of a call of curlHttpRequest that has begun
RequestStep(t) ==
  \/ WaitReady(t) \/ Count(t) \/ Pop(t) \/ AddUrl(t) \/ Insert(t)
  \/ Slot(t) \/ Push(t) \/ Wakeup(t)

ExitStep(t) ==
  \/ ExitPoll(t) \/ ExitJoinWake(t) \/ ExitWrite(t) \/ ExitResp(t)
  \/ ExitNotify(t) \/ ExitJoinCall(t) \/ ExitSpin(t)

UserStep(t) ==
  \/ InitStart(t) \/ InitDone(t)
  \/ \E r \in Reqs, u \in Urls : Call(t, r, u)
  \/ RequestStep(t)
  \/ ExitCall(t) \/ ExitStep(t)

\* What an IO thread does by itself, once it has something to do
IoStep(i) ==
  \/ IoCreate(i) \/ IoReady(i) \/ HandleRead(i)
  \/ Launch(i) \/ SetupFail(i) \/ SetupFailed(i) \/ PullNothing(i)
  \/ \E r \in Reqs : EachAged(i, r) \/ CheckDone(i, r)
  \/ EachEnd(i) \/ CheckEnd(i)
  \/ \E u \in Urls : ReturnConn(i, u)
  \/ IoLeave(i) \/ IoTest(i)

CallerStep == CallerTake \/ CallerSleep \/ CallerRsp \/ CallerCall
WakerStep == WakerWrite \/ WakerEnd

Next ==
  \/ \E t \in Users : UserStep(t)
  \/ \E i \in Ios : IoStep(i) \/ IoReadyFail(i) \/ MultiEvent(i)
  \/ CallerStep \/ WakerStep
  \/ \E r \in Reqs : Age(r)
  \/ \E t \in Users \cup {Caller} : WakeUnasked(t)

Spec == Init /\ [][Next]_vars

\* Every thread that can go on does: the operating system schedules it. The
\* network owes nothing, so MultiEvent has no fairness, but time passes.
Fairness ==
  /\ \A t \in Users : WF_vars(InitDone(t) \/ RequestStep(t)) /\ WF_vars(ExitStep(t))
  /\ \A i \in Ios : WF_vars(IoStep(i))
  /\ WF_vars(CallerStep) /\ WF_vars(WakerStep)
  /\ \A r \in Reqs : WF_vars(Age(r))

FairSpec == Spec /\ Fairness

-----------------------------------------------------------------------------
(* Properties.                                                              *)

\* Every variable has its type; in particular the unsigned readyIothread stays
\* in its range when asyncCurlReady fails before it has been counted.
TypeOK ==
  /\ {isExit, threadExit, started, respExit} \subseteq BOOLEAN
  /\ ioThreadNum \in {0, IoNum} /\ lastIndex \in Ios
  /\ readyIothread \in 0 .. UMod - 1 /\ exitIothread \in Nat
  /\ slots \subseteq Ios
  /\ wakeupFd \in [Ios -> Nat] /\ queueSize \in [Ios -> Nat]
  /\ reqQueue \in [Ios -> Seq(Reqs)]
  /\ running \in [Ios -> SUBSET Reqs] /\ done \in [Ios -> SUBSET Reqs]
  /\ still \in [Ios -> Nat] /\ stopped \in [Ios -> BOOLEAN]
  /\ aged \subseteq Reqs
  /\ pool \in [Urls -> Pool]
  /\ respQueue \in Seq(Reqs) /\ asyncNum \in Int
  /\ pc \in [Threads -> UserPcs \cup IoPcs \cup CallerPcs \cup WakerPcs]
  /\ cur \in [Threads -> Reqs \cup {NoReq}]
  /\ num \in [Threads -> Nat]
  /\ odd \in [Ios -> BOOLEAN] /\ back \in [Ios -> {"each", "check", "pull"}]
  /\ url \in [Reqs -> Urls \cup {NoUrl}]
  /\ answered \in [Reqs -> Nat]
  /\ exits \in 0 .. MaxExits /\ readyFails \in 0 .. MaxReadyFail

\* The requests of a call between asyncReq and the return
Calling == {cur[t] : t \in {s \in Users : pc[s] \in {"pop", "popWait", "addUrl", "insert",
                                                    "slot", "push", "pushWait"}}}
Queued == UNION {{reqQueue[i][k] : k \in 1 .. Len(reqQueue[i])} : i \in Ios}
InMulti == UNION {Held(i) : i \in Ios}
GivenUp == {cur[i] : i \in {j \in Ios : pc[j] = "return" /\ back[j] = "pull"}}
Responded == {respQueue[k] : k \in 1 .. Len(respQueue)}
InHand == IF pc[Caller] = "rsp" THEN {cur[Caller]} ELSE {}
Crashed == \E t \in Users : pc[t] = "crashed"

\* AsyncQueueNum, on which curlHttpCliExit waits, is exactly the number of
\* requests on their way from asyncReq to asyncRsp, whatever path they take:
\* refused, given up, finished, timed out. None is counted twice or lost.
AsyncNumExact ==
  Crashed \/ asyncNum = Cardinality(Calling \cup Queued \cup InMulti \cup GivenUp
                                      \cup Responded \cup InHand)

\* A request is answered at most once and is in at most one place on its way:
\* httpRespondCallBack deletes the session, so a second answer, or a transfer
\* that goes on after the answer, would use it after it is freed.
AnsweredOnce ==
  /\ \A r \in Reqs : answered[r] <= 1
  /\ \A r \in Responded \cup InHand :
       r \notin InMulti \cup Queued \cup Calling /\ answered[r] = 0
  /\ \A k, l \in 1 .. Len(respQueue) : k # l => respQueue[k] # respQueue[l]

\* No request stays in an IO thread's queue unnoticed: the wake-ups read
\* (queueSize), unread (the eventfd) or about to be written by the caller that
\* has pushed are at least as many as the requests queued.
NoStrandedRequest ==
  \A i \in Ios : FdOpen(i) =>
    Len(reqQueue[i]) <= queueSize[i] + wakeupFd[i] \div 2
                          + Cardinality({t \in Users : pc[t] = "wake" /\ num[t] = i})

\* The other requests for u that have passed httpcliConnPop and whose
\* connection is not back in the pool
Admitted(u, t) ==
  {s \in Users : s # t /\ pc[s] \in {"addUrl", "insert", "slot", "push", "pushWait"}
                   /\ url[cur[s]] = u}
InFlight(u) == {r \in Queued \cup InMulti \cup {cur[i] : i \in {j \in Ios : pc[j] = "return"}} :
                  url[r] = u}

\* A call blocked in httpcliConnPop has someone to wait for: a connection of
\* its URL that will come back, or one back whose notify has woken a caller.
\* (Without redirects and without requests given up: both lose connections.)
BlockedIsOwed ==
  \A u \in Urls : \A t \in PoolWaiters(u) :
    \/ Admitted(u, t) # {} \/ InFlight(u) # {}
    \/ \E s \in Users \ {t} : pc[s] = "pop" /\ url[cur[s]] = u /\ pool[u].queue # <<>>

\* httpcliConnInsert's notify is never lost: while callers wait, each pooled
\* connection has a caller awake to take it.
NoLostConnNotify ==
  \A u \in Urls : PoolWaiters(u) # {} =>
    Len(pool[u].queue) <= Cardinality({s \in Users : pc[s] = "pop" /\ url[cur[s]] = u})

\* curlHttpCliExit has returned: every request that was accepted has had its
\* callback, and no thread of the library runs.
ExitMeansAllAnswered ==
  (\E t \in Users : pc[t] = "exDone") =>
    /\ \A r \in Reqs : url[r] # NoUrl => answered[r] = 1
    /\ pc[Caller] = "done" /\ pc[Waker] = "done" /\ \A i \in Ios : pc[i] = "done"

(* The client as a service: a request is asked for from the entry of         *)
(* curlHttpRequest, and the client is closed when curlHttpCliExit returns.   *)
Asked == {r \in Reqs : url[r] # NoUrl}
InCallback == {r \in Reqs : pc[Caller] = "call" /\ cur[Caller] = r}
Told == {r \in Reqs : answered[r] # 0}
Closed == \E t \in Users : pc[t] = "exDone"

Service == INSTANCE AnswerService WITH
  Requests <- Reqs, asked <- Asked, inCallback <- InCallback, told <- Told, closed <- Closed

\* Every behaviour of the callers, the IO threads, the callback thread and the
\* exit is one of the service AnswerService describes: each request has one
\* callback, and when curlHttpCliExit returns all have had theirs. (QuietExit:
\* a call past its check of isExit is not waited for.)
IsAnswerService == Service!Spec

\* Every request made is answered in the end, by curl or by the 180 second
\* limit. (Same conditions as BlockedIsOwed.)
AllAnswered == \A r \in Reqs : url[r] # NoUrl ~> answered[r] = 1

\* What CurlHttpCli.h says of the maximum number of connections: the transfers
\* of a URL stay within it.
WithinMaxConns ==
  \A u \in Urls : pool[u].in /\ pool[u].max > 0 =>
    Cardinality({r \in InMulti : url[r] = u}) <= pool[u].max

\* What CurlHttpCli.h says of blocking calls: httpcliConnPop blocks a call only
\* when the connections of its URL are at the limit.
BlocksOnlyWhenFull ==
  \A u \in Urls : PoolWaiters(u) # {} /\ pool[u].queue = <<>> =>
    Cardinality(InFlight(u)) + Cardinality(UNION {Admitted(u, t) : t \in PoolWaiters(u)})
      >= pool[u].max

\* The callback thread, told to exit by httpResponseExit, ends.
CallbackThreadEnds == respExit ~> pc[Caller] = "done"

\* An IO thread that handleRead has told to stop, and that has no transfer
\* left, leaves its loop, as curlHttpCliExit waits for it to do.
StoppedIoLeaves == \A i \in Ios : (stopped[i] /\ Held(i) = {}) ~> pc[i] = "done"
=============================================================================
