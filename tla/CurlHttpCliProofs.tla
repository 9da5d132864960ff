-------------------------- MODULE CurlHttpCliProofs --------------------------
(***************************************************************************)
(* Proofs about CurlHttpCli, for any numbers of callers, IO threads, URLs  *)
(* and requests and any limits.                                            *)
(***************************************************************************)
EXTENDS CurlHttpCli, FiniteSetTheorems, TLAPS

\* r is in the sequence s, and not twice
Has(s, r) == \E k \in 1 .. Len(s) : s[k] = r
Once(s, r) == \A j, k \in 1 .. Len(s) : s[j] = r /\ s[k] = r => j = k

-----------------------------------------------------------------------------
(* The inductive invariant                                                  *)

\* Where a call of curlHttpRequest is, before and after asyncReq, and an exit
Before == {"wait", "count"}
Counted == {"pop", "popWait", "addUrl", "insert", "slot", "push", "pushWait"}
InCall == Before \cup Counted
Exiting == {"exPoll", "exJoinWake", "exWrite", "exResp", "exJoinCall", "exSpin", "exDone"}

\* The IO threads that readyIothread counts
OnPcs == {"loop", "pull", "each", "check", "return", "left"}
On == {i \in Ios : pc[i] \in OnPcs}

\* Every thread is at a place of its kind.
PlaceOK ==
  /\ \A t \in Users : pc[t] \in UserPcs
  /\ \A i \in Ios : pc[i] \in IoPcs
  /\ pc[Caller] \in CallerPcs /\ pc[Waker] \in WakerPcs
TypeInv == TypeOK /\ PlaceOK

\* What the place of a thread says of its request and its count
UserInv(t) ==
  /\ pc[t] \in InCall \cup {"wake"} => cur[t] \in Reqs /\ url[cur[t]] \in Urls
  /\ pc[t] \in Counted => num[t] \in 0 .. IoNum
  /\ pc[t] \in {"push", "pushWait", "wake"} => num[t] \in Ios
  /\ pc[t] \in Exiting => isExit
  /\ pc[t] \in Exiting \ {"exPoll"} => ioThreadNum = IoNum
  /\ pc[t] = "exDone" => \A i \in Ios : pc[i] = "done"
IoInv(i) ==
  /\ pc[i] = "return" => cur[i] \in Reqs /\ url[cur[i]] \in Urls
  /\ pc[i] = "pull" => num[i] > 0
  /\ pc[i] \notin {"off", "done"} => i \in slots
  /\ pc[i] = "done" => isExit
  /\ wakeupFd[i] % 2 = 1 \/ odd[i] \/ stopped[i] => isExit
CallerInv == pc[Caller] \in {"rsp", "call"} => cur[Caller] \in Reqs
IosDone == {i \in Ios : pc[i] = "done"}
ThreadInv ==
  /\ \A t \in Users : UserInv(t)
  /\ \A i \in Ios : IoInv(i)
  /\ CallerInv
  /\ exitIothread = Cardinality(IosDone)

\* readyIothread is the number of IO threads that are on, less the failures of
\* asyncCurlReady, modulo UMod. So a call that finds it right finds all ready,
\* and from then on they leave for an exit only.
Settled == \A i \in Ios : pc[i] \notin {"off", "new"} /\ (pc[i] \in {"left", "test"} => isExit)
ReadyCount ==
  \/ readyIothread = Cardinality(On) - readyFails
  \/ readyIothread = Cardinality(On) - readyFails + UMod
ReadyInv ==
  /\ ReadyCount
  /\ \A i \in Ios : pc[i] = "left" /\ readyFails = 0 => isExit
  /\ (\E t \in Users : pc[t] \in Counted \cup {"count", "wake"}) => Settled
  /\ (\E i \in Ios : reqQueue[i] # <<>>) => Settled

\* The stages of a request: in the hands of its caller, with IO thread i
\* (queued, in the multi handle, given up), responded, with the callback thread
OnHand(t, r) == pc[t] \in InCall /\ cur[t] = r
Hand(r) == \E t \in Users : OnHand(t, r)
OneHand(r) == \A s, t \in Users : OnHand(s, r) /\ OnHand(t, r) => s = t
GaveUp(i, r) == pc[i] = "return" /\ back[i] = "pull" /\ cur[i] = r
IoHas(i, r) == Has(reqQueue[i], r) \/ r \in Held(i) \/ GaveUp(i, r)
Io(r) == \E i \in Ios : IoHas(i, r)
OneIo(r) == \A i, j \in Ios : IoHas(i, r) /\ IoHas(j, r) => i = j
Inner(i, r) ==
  /\ Once(reqQueue[i], r)
  /\ ~(r \in running[i] /\ r \in done[i])
  /\ ~(Has(reqQueue[i], r) /\ r \in Held(i))
  /\ ~(Has(reqQueue[i], r) /\ GaveUp(i, r))
  /\ ~(r \in Held(i) /\ GaveUp(i, r))
Resp(r) == Has(respQueue, r)
Called(r) == pc[Caller] \in {"rsp", "call"} /\ cur[Caller] = r

\* A request is in one stage at a time.
OneStage(r) ==
  /\ url[r] = NoUrl => ~Hand(r) /\ ~Io(r) /\ ~Resp(r) /\ ~Called(r) /\ answered[r] = 0
  /\ OneHand(r) /\ OneIo(r) /\ (\A i \in Ios : Inner(i, r)) /\ Once(respQueue, r)
  /\ Hand(r) => ~Io(r) /\ ~Resp(r) /\ ~Called(r) /\ answered[r] = 0
  /\ Io(r) => ~Resp(r) /\ ~Called(r) /\ answered[r] = 0
  /\ Resp(r) => ~Called(r) /\ answered[r] = 0
  /\ Called(r) => answered[r] = 0
  /\ answered[r] \in {0, 1}
StageInv == \A r \in Reqs : OneStage(r)

\* The requests asyncQueNum counts
HandCounted(r) == \E t \in Users : pc[t] \in Counted /\ cur[t] = r
InRsp(r) == pc[Caller] = "rsp" /\ cur[Caller] = r
Open == {r \in Reqs : HandCounted(r) \/ Io(r) \/ Resp(r) \/ InRsp(r)}
CountInv == Crashed \/ asyncNum = Cardinality(Open)

\* With a quiet exit, no call is in progress once isExit is set, and no
\* request is lost from sight.
InSight(r) ==
  url[r] # NoUrl => Hand(r) \/ Io(r) \/ Resp(r) \/ Called(r) \/ answered[r] = 1
ExitOrder(t) ==
  /\ pc[t] \in Exiting \ {"exPoll"} => Open = {}
  /\ pc[t] \in Exiting \ {"exPoll", "exJoinWake"} => pc[Waker] = "done"
  /\ pc[t] \in {"exSpin", "exDone"} => pc[Caller] = "done"
QuietInv ==
  /\ ~Crashed
  /\ isExit => \A t \in Users : pc[t] \notin InCall \cup {"wake"}
  /\ \A r \in Reqs : InSight(r)
  /\ \A t \in Users : ExitOrder(t)

\* A pool in use has a connection in it, or a request that will bring one: in
\* the hands of a caller past httpcliConnPop, or with an IO thread.
Passed(t, u) == pc[t] \in {"addUrl", "insert", "slot", "push", "pushWait"} /\ url[cur[t]] = u
Carried(i, r) == IoHas(i, r) \/ (pc[i] = "return" /\ cur[i] = r)
Flying(r) == \E i \in Ios : Carried(i, r)
Owed(u) ==
  \/ pool[u].queue # <<>>
  \/ \E t \in Users : Passed(t, u)
  \/ \E r \in Reqs : url[r] = u /\ Flying(r)
PoolInv ==
  /\ \A u \in Urls : pool[u].in => Owed(u)
  /\ \A t \in Users : pc[t] \in {"pop", "popWait"} => pool[url[cur[t]]].in
  /\ \A i \in Ios : back[i] # "pull"

-----------------------------------------------------------------------------
(* Sequences                                                                *)

\* What Append adds
LEMMA AppendHas ==
  ASSUME NEW S, NEW s \in Seq(S), NEW e \in S, NEW c
  PROVE  /\ Append(s, e) \in Seq(S)
         /\ Has(Append(s, e), c) <=> Has(s, c) \/ e = c
         /\ Once(s, c) /\ (e = c => ~Has(s, c)) => Once(Append(s, e), c)
<1>1. Len(s) \in Nat /\ Len(Append(s, e)) = Len(s) + 1 /\ Append(s, e) \in Seq(S)
      /\ Append(s, e)[Len(s) + 1] = e /\ \A k \in 1 .. Len(s) : Append(s, e)[k] = s[k]
  OBVIOUS
<1>2. \A k \in 1 .. Len(s) + 1 : k = Len(s) + 1 \/ k \in 1 .. Len(s)
  BY <1>1
<1>3. Len(s) + 1 \in 1 .. Len(s) + 1 /\ \A k \in 1 .. Len(s) : k \in 1 .. Len(s) + 1
  BY <1>1
<1>4. Has(Append(s, e), c) <=> Has(s, c) \/ e = c
  BY <1>1, <1>2, <1>3 DEF Has
<1>5. Once(s, c) /\ (e = c => ~Has(s, c)) => Once(Append(s, e), c)
  BY <1>1, <1>2, <1>3 DEF Has, Once
<1> QED BY <1>1, <1>4, <1>5

\* The elements of a tail are those at the indices after the first.
LEMMA TailElements ==
  ASSUME NEW S, NEW s \in Seq(S), s # <<>>
  PROVE  /\ Head(s) \in S /\ Tail(s) \in Seq(S) /\ Head(s) = s[1]
         /\ Len(s) \in Nat \ {0} /\ Len(Tail(s)) = Len(s) - 1
         /\ \A k \in 1 .. Len(s) - 1 : Tail(s)[k] = s[k + 1] /\ k + 1 \in 1 .. Len(s)
         /\ \A k \in 1 .. Len(s) : k = 1 \/ (k - 1 \in 1 .. Len(s) - 1 /\ s[k] = Tail(s)[k - 1])
<1>1. Head(s) \in S /\ Tail(s) \in Seq(S) /\ Head(s) = s[1] /\ Len(s) \in Nat \ {0}
      /\ Len(Tail(s)) = Len(s) - 1
  OBVIOUS
<1>2. \A k \in 1 .. Len(s) - 1 : Tail(s)[k] = s[k + 1] /\ k + 1 \in 1 .. Len(s)
  BY <1>1
<1>3. ASSUME NEW k \in 1 .. Len(s), k # 1
      PROVE  k - 1 \in 1 .. Len(s) - 1 /\ (k - 1) + 1 = k
  BY <1>1, <1>3
<1>4. ASSUME NEW k \in 1 .. Len(s), k # 1
      PROVE  k - 1 \in 1 .. Len(s) - 1 /\ s[k] = Tail(s)[k - 1]
  BY <1>2, <1>3, <1>4
<1> QED BY <1>1, <1>2, <1>4

\* What Tail takes away
LEMMA TailHas ==
  ASSUME NEW S, NEW s \in Seq(S), s # <<>>, NEW c
  PROVE  /\ Head(s) \in S /\ Tail(s) \in Seq(S)
         /\ Has(s, c) <=> Has(Tail(s), c) \/ Head(s) = c
         /\ Once(s, c) => Once(Tail(s), c) /\ (Head(s) = c => ~Has(Tail(s), c))
<1>1. /\ Head(s) \in S /\ Tail(s) \in Seq(S) /\ Head(s) = s[1]
      /\ Len(s) \in Nat \ {0} /\ Len(Tail(s)) = Len(s) - 1
      /\ \A k \in 1 .. Len(s) - 1 : Tail(s)[k] = s[k + 1] /\ k + 1 \in 1 .. Len(s)
      /\ \A k \in 1 .. Len(s) : k = 1 \/ (k - 1 \in 1 .. Len(s) - 1 /\ s[k] = Tail(s)[k - 1])
  BY TailElements
<1>2. 1 \in 1 .. Len(s) /\ \A j, k \in 1 .. Len(s) - 1 : k + 1 # 1 /\ (j + 1 = k + 1 => j = k)
  BY <1>1
<1>a. Has(s, c) => Has(Tail(s), c) \/ Head(s) = c
  BY <1>1 DEF Has
<1>b. Has(Tail(s), c) \/ Head(s) = c => Has(s, c)
  BY <1>1, <1>2 DEF Has
<1>3. Has(s, c) <=> Has(Tail(s), c) \/ Head(s) = c
  BY <1>a, <1>b
<1>4. Once(s, c) => Once(Tail(s), c)
  BY <1>1, <1>2 DEF Once
<1>5. Once(s, c) /\ Head(s) = c => ~Has(Tail(s), c)
  BY <1>1, <1>2 DEF Once, Has
<1> QED BY <1>1, <1>3, <1>4, <1>5

-----------------------------------------------------------------------------
(* Threads                                                                  *)

Pcs == UserPcs \cup IoPcs \cup CallerPcs \cup WakerPcs

\* Thread t goes to p, and a thread that waits on a condition variable may wake.
Wakes(t, p) ==
  /\ pc' \in [Threads -> Pcs] /\ pc'[t] = p
  /\ \A s \in Users \ {t} : \/ pc'[s] = pc[s]
                            \/ pc[s] = "popWait" /\ pc'[s] = "pop"
                            \/ pc[s] = "pushWait" /\ pc'[s] = "push"
  /\ \A s \in (Ios \cup {Waker}) \ {t} : pc'[s] = pc[s]
  /\ t # Caller => pc'[Caller] = pc[Caller] \/ (pc[Caller] = "asleep" /\ pc'[Caller] = "take")

\* The kinds of threads are disjoint.
LEMMA ThreadKinds ==
  /\ \A t \in Users : t \in Threads /\ t \notin Ios /\ t # Caller /\ t # Waker
  /\ \A i \in Ios : i \in Threads /\ i \notin Users /\ i # Caller /\ i # Waker /\ i \in Nat /\ i < IoNum
  /\ Caller \in Threads /\ Waker \in Threads /\ Caller # Waker
  /\ Caller \notin Users /\ Caller \notin Ios /\ Waker \notin Users /\ Waker \notin Ios
  /\ Threads = Users \cup Ios \cup {Caller, Waker}
<1>1. \A i \in Ios : i \in Nat /\ i < IoNum
  BY CurlAssumption DEF Ios
<1> QED BY <1>1, CurlAssumption DEF Threads

\* The IO threads are finitely many.
LEMMA IosFinite ==
  IsFiniteSet(Ios) /\ Cardinality(Ios) = IoNum /\ IoNum \in Nat
<1>1. IoNum \in Nat /\ 0 \in Int /\ IoNum - 1 \in Int
  BY CurlAssumption
<1>2. IsFiniteSet(0 .. IoNum - 1) /\ Cardinality(0 .. IoNum - 1)
                                      = IF 0 > IoNum - 1 THEN 0 ELSE (IoNum - 1) - 0 + 1
  BY <1>1, FS_Interval
<1> QED BY <1>1, <1>2, CurlAssumption DEF Ios

\* Goto moves one thread.
LEMMA GotoWakes ==
  ASSUME TypeInv, NEW t \in Threads, NEW p \in Pcs, Goto(t, p)
  PROVE  Wakes(t, p) /\ \A s \in Threads \ {t} : pc'[s] = pc[s]
<1>1. pc \in [Threads -> Pcs]
  BY DEF TypeInv, TypeOK, Pcs
<1>2. pc' = [pc EXCEPT ![t] = p]
  BY DEF Goto
<1> QED BY <1>1, <1>2, ThreadKinds DEF Wakes

\* s waits for what continues at w.
Sleeps(s, w) == \/ s \in Users /\ pc[s] = "popWait" /\ w = "pop"
                \/ s \in Users /\ pc[s] = "pushWait" /\ w = "push"
                \/ s = Caller /\ pc[s] = "asleep" /\ w = "take"

\* A notify wakes one of the threads that wait, if there is one.
LEMMA NotifyWakes ==
  ASSUME TypeInv, NEW t \in Threads, NEW p \in Pcs, NEW W \in SUBSET (Threads \ {t}), NEW w \in Pcs,
         NotifyOne(t, p, W, w), \A s \in W : Sleeps(s, w)
  PROVE  /\ Wakes(t, p)
         /\ \A s \in Threads \ (W \cup {t}) : pc'[s] = pc[s]
         /\ W # {} => \E s \in W : pc'[s] = w /\ \A v \in Threads \ {s, t} : pc'[v] = pc[v]
<1>1. pc \in [Threads -> Pcs]
  BY DEF TypeInv, TypeOK, Pcs
<1>2. CASE W = {} /\ Goto(t, p)
  BY <1>2, GotoWakes
<1>3. ASSUME NEW s \in W, pc' = [pc EXCEPT ![t] = p, ![s] = w]
      PROVE  /\ Wakes(t, p)
             /\ pc'[s] = w /\ \A v \in Threads \ {s, t} : pc'[v] = pc[v]
  <2>1. s # t /\ s \in Threads
    OBVIOUS
  <2>2. pc' \in [Threads -> Pcs] /\ pc'[t] = p /\ pc'[s] = w
    BY <1>1, <1>3, <2>1
  <2>3. \A v \in Threads \ {s, t} : pc'[v] = pc[v]
    BY <1>1, <1>3, <2>1
  <2>4. CASE s \in Users
    BY <2>1, <2>2, <2>3, <2>4, ThreadKinds DEF Wakes, Sleeps
  <2>5. CASE s = Caller
    BY <2>1, <2>2, <2>3, <2>5, ThreadKinds DEF Wakes, Sleeps
  <2> QED BY <2>2, <2>3, <2>4, <2>5 DEF Sleeps
<1> QED BY <1>2, <1>3 DEF NotifyOne

\* The places of the threads after a move of t
LEMMA WakesTypes ==
  ASSUME TypeInv, NEW t \in Threads, NEW p, Wakes(t, p),
         t \in Users => p \in UserPcs, t \in Ios => p \in IoPcs, t = Caller => p \in CallerPcs,
         t = Waker => p \in WakerPcs
  PROVE  pc' \in [Threads -> UserPcs \cup IoPcs \cup CallerPcs \cup WakerPcs] /\ PlaceOK'
<1>1. "pop" \in UserPcs /\ "push" \in UserPcs /\ "take" \in CallerPcs
  BY DEF UserPcs, CallerPcs
<1>2. /\ \A s \in Users : pc[s] \in UserPcs
      /\ \A i \in Ios : pc[i] \in IoPcs
      /\ pc[Caller] \in CallerPcs /\ pc[Waker] \in WakerPcs
  BY DEF TypeInv, PlaceOK
<1>3. pc' \in [Threads -> UserPcs \cup IoPcs \cup CallerPcs \cup WakerPcs]
  BY DEF Wakes, Pcs
<1>4. \A s \in Users : pc'[s] \in UserPcs
  BY <1>1, <1>2 DEF Wakes
<1>5. \A i \in Ios : pc'[i] \in IoPcs
  BY <1>2 DEF Wakes
<1>6. pc'[Caller] \in CallerPcs
  BY <1>1, <1>2 DEF Wakes
<1>7. pc'[Waker] \in WakerPcs
  BY <1>2 DEF Wakes
<1> QED BY <1>3, <1>4, <1>5, <1>6, <1>7 DEF PlaceOK

\* notifyAll wakes the callback thread if it waits.
LEMMA ExitNotifyWakes ==
  ASSUME TypeInv, NEW t \in Users, ExitNotify(t)
  PROVE  Wakes(t, "exJoinCall") /\ \A s \in Threads \ {t, Caller} : pc'[s] = pc[s]
<1>1. pc \in [Threads -> Pcs] /\ "exJoinCall" \in Pcs /\ "take" \in Pcs
  BY DEF TypeInv, TypeOK, Pcs, UserPcs, CallerPcs
<1>2. t # Caller /\ t \in Threads /\ Caller \in Threads /\ t # Waker
  BY ThreadKinds
<1>3. pc' = [pc EXCEPT ![t] = "exJoinCall", ![Caller] = IF @ = "asleep" THEN "take" ELSE @]
  BY DEF ExitNotify
<1>4. pc' \in [Threads -> Pcs] /\ pc'[t] = "exJoinCall"
      /\ pc'[Caller] = (IF pc[Caller] = "asleep" THEN "take" ELSE pc[Caller])
      /\ \A s \in Threads \ {t, Caller} : pc'[s] = pc[s]
  BY <1>1, <1>2, <1>3
<1> QED BY <1>4, <1>2, ThreadKinds DEF Wakes

-----------------------------------------------------------------------------
(* Types                                                                    *)

\* Counts of wake-ups
LEMMA Halves ==
  \A n \in Nat : /\ n \div 2 \in Nat /\ (n + 2) \div 2 = n \div 2 + 1 /\ (n + 1) \div 2 >= n \div 2
                 /\ (n + 2) % 2 = n % 2 /\ n % 2 \in {0, 1}
  OBVIOUS

\* Counters stay numbers.
LEMMA Numbers ==
  /\ \A n \in Nat : n + 1 \in Nat /\ (n > 0 => n - 1 \in Nat)
  /\ \A m, n \in Nat : m + n \in Nat
  OBVIOUS

\* The index of the next IO thread is one.
LEMMA NextIsIo ==
  ASSUME NEW n \in Ios
  PROVE  (n + 1) % IoNum \in Ios
<1>1. n \in Nat /\ IoNum \in Nat \ {0}
  BY CurlAssumption DEF Ios
<1>2. (n + 1) % IoNum \in 0 .. IoNum - 1
  BY <1>1
<1> QED BY <1>2 DEF Ios

\* A queue that had enough wake-ups has enough with more of them.
LEMMA MoreIsEnough ==
  ASSUME NEW l \in Nat, NEW q \in Nat, NEW w \in Nat, NEW v \in Nat, NEW c \in Nat,
         l <= q + w + c, v >= w
  PROVE  l <= q + v + c
  OBVIOUS

\* A write to an eventfd does not lower the count of wake-ups.
LEMMA HalvesGrow ==
  ASSUME NEW n \in Nat, NEW m \in {n, n + 1, n + 2}
  PROVE  m \div 2 \in Nat /\ m \div 2 >= n \div 2
<1>1. m \in Nat /\ m >= n
  OBVIOUS
<1>2. m \div 2 \in Nat /\ n \div 2 \in Nat
  BY <1>1
<1> QED BY <1>1, <1>2

\* Every step of a caller keeps the types.
LEMMA TypeUser ==
  ASSUME TypeInv, ThreadInv, NEW t \in Users, UserStep(t)
  PROVE  TypeInv'
<1> USE CurlAssumption, ThreadKinds DEF mgrVars, ioVars, multiVars, respVars, boundVars
<1>0. TypeOK /\ t \in Threads
  BY DEF TypeInv
<1>a. ASSUME NEW p \in UserPcs, Goto(t, p)
      PROVE  pc' \in [Threads -> UserPcs \cup IoPcs \cup CallerPcs \cup WakerPcs] /\ PlaceOK'
  <2>1. p \in Pcs
    BY DEF Pcs
  <2> QED BY <1>a, <2>1, GotoWakes, WakesTypes
<1>b. {"idle", "init", "wait", "count", "pop", "popWait", "addUrl", "insert", "slot", "push",
       "pushWait", "wake", "crashed", "exPoll", "exJoinWake", "exWrite", "exResp", "exJoinCall",
       "exSpin", "exDone"} \subseteq UserPcs
  BY DEF UserPcs
<1>c. IoNum \in Nat /\ 0 \in Nat
  OBVIOUS
<1>1. CASE InitStart(t)
  <2>1. Goto(t, "init")
    BY <1>1 DEF InitStart
  <2> QED BY <1>0, <1>1, <1>a, <1>b, <2>1 DEF InitStart, TypeOK, TypeInv
<1>2. CASE InitDone(t)
  <2>1. Goto(t, "idle")
    BY <1>2 DEF InitDone
  <2> QED BY <1>0, <1>2, <1>a, <1>b, <2>1 DEF InitDone, TypeOK, TypeInv
<1>3. ASSUME NEW r \in Reqs, NEW u \in Urls, Call(t, r, u) PROVE TypeInv'
  <2>1. Goto(t, "wait")
    BY <1>3 DEF Call
  <2>2. url' \in [Reqs -> Urls \cup {NoUrl}] /\ cur' \in [Threads -> Reqs \cup {NoReq}]
    BY <1>0, <1>3 DEF Call, TypeOK
  <2> QED BY <1>0, <1>3, <1>a, <1>b, <2>1, <2>2 DEF Call, TypeOK, TypeInv
<1>4. CASE WaitReady(t)
  <2>1. Goto(t, "count")
    BY <1>4 DEF WaitReady
  <2> QED BY <1>0, <1>4, <1>a, <1>b, <2>1 DEF WaitReady, TypeOK, TypeInv
<1>5. CASE Count(t)
  <2>1. Goto(t, "pop") \/ Goto(t, "addUrl")
    BY <1>5 DEF Count
  <2>2. num' \in [Threads -> Nat]
    BY <1>0, <1>5, <1>c DEF Count, TypeOK
  <2>3. asyncNum' \in Int
    BY <1>0, <1>5 DEF Count, TypeOK
  <2> QED BY <1>0, <1>5, <1>a, <1>b, <2>1, <2>2, <2>3 DEF Count, TypeOK, TypeInv
<1>6. CASE Pop(t)
  <2> DEFINE u == url[cur[t]]
  <2>1. pc[t] \in InCall
    BY <1>6 DEF Pop, InCall, Counted
  <2>2. u \in Urls /\ pool[u] \in Pool
    BY <2>1, <1>0 DEF ThreadInv, UserInv, TypeOK
  <2>3. CASE pool[u].queue # <<>>
    <3>1. /\ pool' = [pool EXCEPT ![u].queue = Tail(pool[u].queue)]
          /\ num' = [num EXCEPT ![t] = Head(pool[u].queue)] /\ Goto(t, "slot")
      BY <1>6, <2>3 DEF Pop
    <3>2. Head(pool[u].queue) \in Ios /\ Tail(pool[u].queue) \in Seq(Ios)
      BY <2>2, <2>3 DEF Pool
    <3>3. num' \in [Threads -> Nat]
      BY <1>0, <3>1, <3>2 DEF TypeOK
    <3>4. [pool[u] EXCEPT !.queue = Tail(pool[u].queue)] \in Pool
      BY <2>2, <3>2 DEF Pool
    <3>5. pool' = [pool EXCEPT ![u] = [pool[u] EXCEPT !.queue = Tail(pool[u].queue)]]
      BY <3>1, <2>2, <1>0 DEF TypeOK
    <3>6. pool' \in [Urls -> Pool]
      BY <1>0, <2>2, <3>4, <3>5 DEF TypeOK
    <3> QED BY <1>0, <1>6, <1>a, <1>b, <3>1, <3>3, <3>6 DEF Pop, TypeOK, TypeInv
  <2>4. CASE pool[u].queue = <<>>
    <3>1. (Goto(t, "popWait") \/ Goto(t, "addUrl")) /\ UNCHANGED <<pool, num>>
      BY <1>6, <2>4 DEF Pop
    <3> QED BY <1>0, <1>6, <1>a, <1>b, <3>1 DEF Pop, TypeOK, TypeInv
  <2> QED BY <2>3, <2>4
<1>7. CASE AddUrl(t)
  <2>1. Goto(t, "slot") \/ Goto(t, "insert")
    BY <1>7 DEF AddUrl
  <2> QED BY <1>0, <1>7, <1>a, <1>b, <2>1 DEF AddUrl, TypeOK, TypeInv
<1>8. CASE Insert(t)
  <2>1. Goto(t, "slot")
    BY <1>8 DEF Insert
  <2>2. pool' \in [Urls -> Pool]
    <3>1. CASE pool' = pool
      BY <1>0, <3>1 DEF TypeOK
    <3>2. ASSUME NEW g \in Garbage,
                 pool' = [pool EXCEPT ![url[cur[t]]] = [in |-> TRUE, max |-> MaxConns, size |-> g, queue |-> <<>>]]
          PROVE  pool' \in [Urls -> Pool]
      <4>1. [in |-> TRUE, max |-> MaxConns, size |-> g, queue |-> <<>>] \in Pool
        BY DEF Pool
      <4> QED BY <1>0, <3>2, <4>1 DEF TypeOK
    <3> QED BY <1>8, <3>1, <3>2 DEF Insert
  <2> QED BY <1>0, <1>8, <1>a, <1>b, <2>1, <2>2 DEF Insert, TypeOK, TypeInv
<1>9. CASE Slot(t)
  <2>1. Goto(t, "push") \/ Goto(t, "idle")
    BY <1>9 DEF Slot, Return
  <2>2. num' \in [Threads -> Nat] /\ cur' \in [Threads -> Reqs \cup {NoReq}] /\ asyncNum' \in Int
    <3>a. CASE Target(t) \in slots
      <4>1. cur' = cur /\ asyncNum' = asyncNum /\ num' = [num EXCEPT ![t] = Target(t)]
        BY <1>9, <3>a DEF Slot
      <4>2. Target(t) \in Nat
        BY <1>0, <3>a DEF TypeOK
      <4>3. num' \in [Threads -> Nat]
        BY <1>0, <4>1, <4>2 DEF TypeOK
      <4> QED BY <1>0, <4>1, <4>3 DEF TypeOK
    <3>b. CASE Target(t) \notin slots
      <4>1. cur' = [cur EXCEPT ![t] = NoReq] /\ asyncNum' = asyncNum - 1 /\ num' = [num EXCEPT ![t] = 0]
        BY <1>9, <3>b DEF Slot, Return
      <4>2. num' \in [Threads -> Nat]
        BY <1>0, <1>c, <4>1 DEF TypeOK
      <4>3. asyncNum' \in Int
        BY <1>0, <4>1 DEF TypeOK
      <4>4. cur' \in [Threads -> Reqs \cup {NoReq}]
        BY <1>0, <4>1 DEF TypeOK
      <4> QED BY <4>2, <4>3, <4>4
    <3> QED BY <3>a, <3>b
  <2>5. lastIndex' \in Ios
    <3>1. lastIndex \in Ios
      BY <1>0 DEF TypeOK
    <3>2. (lastIndex + 1) % IoNum \in Ios
      BY <3>1, NextIsIo
    <3> QED BY <3>1, <3>2, <1>9 DEF Slot, NextIndex
  <2> QED BY <1>0, <1>9, <1>a, <1>b, <2>1, <2>2, <2>5 DEF Slot, TypeOK, TypeInv
<1>10. CASE Push(t)
  <2>1. Goto(t, "crashed") \/ Goto(t, "pushWait") \/ Goto(t, "wake")
    BY <1>10 DEF Push
  <2>2. pc[t] \in InCall /\ pc[t] \in {"push", "pushWait", "wake"}
    BY <1>10 DEF Push, InCall, Counted
  <2>3. cur[t] \in Reqs /\ num[t] \in Ios
    BY <2>2 DEF ThreadInv, UserInv
  <2>4. reqQueue' \in [Ios -> Seq(Reqs)]
    <3>1. Append(reqQueue[num[t]], cur[t]) \in Seq(Reqs)
      BY <1>0, <2>3 DEF TypeOK
    <3>2. reqQueue' = reqQueue \/ reqQueue' = [reqQueue EXCEPT ![num[t]] = Append(reqQueue[num[t]], cur[t])]
      BY <1>10 DEF Push
    <3>3. CASE reqQueue' = reqQueue
      BY <1>0, <3>3 DEF TypeOK
    <3>4. CASE reqQueue' = [reqQueue EXCEPT ![num[t]] = Append(reqQueue[num[t]], cur[t])]
      <4>1. reqQueue \in [Ios -> Seq(Reqs)]
        BY <1>0 DEF TypeOK
      <4> QED BY <4>1, <2>3, <3>1, <3>4
    <3> QED BY <3>2, <3>3, <3>4
  <2> QED BY <1>0, <1>10, <1>a, <1>b, <2>1, <2>4 DEF Push, TypeOK, TypeInv
<1>d. ASSUME NEW i, NEW n \in Nat, wakeupFd' = [wakeupFd EXCEPT ![i] = IF i \in slots /\ FdOpen(i) THEN @ + n ELSE @]
      PROVE  wakeupFd' \in [Ios -> Nat]
  <2>1. wakeupFd \in [Ios -> Nat]
    BY <1>0 DEF TypeOK
  <2>2. i \in Ios => wakeupFd[i] + n \in Nat
    BY <2>1
  <2> QED BY <1>d, <2>1, <2>2
<1>11. CASE Wakeup(t)
  <2>1. Goto(t, "crashed") \/ Goto(t, "idle")
    BY <1>11 DEF Wakeup
  <2>2. cur' \in [Threads -> Reqs \cup {NoReq}] /\ num' \in [Threads -> Nat]
    BY <1>0, <1>11 DEF Wakeup, TypeOK
  <2>3. wakeupFd' \in [Ios -> Nat]
    BY <1>11, <1>d DEF Wakeup
  <2> QED BY <1>0, <1>11, <1>a, <1>b, <2>1, <2>2, <2>3 DEF Wakeup, TypeOK, TypeInv
<1>12. CASE ExitCall(t)
  <2>1. Goto(t, "exPoll")
    BY <1>12 DEF ExitCall
  <2>2. exits' \in 0 .. MaxExits
    BY <1>0, <1>12 DEF ExitCall, TypeOK
  <2> QED BY <1>0, <1>12, <1>a, <1>b, <2>1, <2>2 DEF ExitCall, TypeOK, TypeInv
<1>13. CASE ExitPoll(t)
  <2>1. Goto(t, "exJoinWake")
    BY <1>13 DEF ExitPoll
  <2> QED BY <1>0, <1>13, <1>a, <1>b, <2>1 DEF ExitPoll, TypeOK, TypeInv
<1>14. CASE ExitJoinWake(t)
  <2>1. Goto(t, "exWrite")
    BY <1>14 DEF ExitJoinWake
  <2>2. num' \in [Threads -> Nat]
    BY <1>0, <1>14 DEF ExitJoinWake, TypeOK
  <2> QED BY <1>0, <1>14, <1>a, <1>b, <2>1, <2>2 DEF ExitJoinWake, TypeOK, TypeInv
<1>15. CASE ExitWrite(t)
  <2>1. pc' = pc
    BY <1>15 DEF ExitWrite
  <2>2. num' \in [Threads -> Nat]
    <3>1. num[t] \in Nat
      BY <1>0 DEF TypeOK
    <3>2. num[t] + 1 \in Nat
      BY <3>1, Numbers
    <3> QED BY <1>0, <1>15, <3>2 DEF ExitWrite, TypeOK
  <2>3. wakeupFd' \in [Ios -> Nat]
    BY <1>15, <1>d DEF ExitWrite
  <2>4. PlaceOK'
    BY <2>1 DEF TypeInv, PlaceOK
  <2> QED BY <1>0, <1>15, <2>1, <2>2, <2>3, <2>4 DEF ExitWrite, TypeOK, TypeInv
<1>16. CASE ExitResp(t)
  <2>1. Goto(t, "exResp")
    BY <1>16 DEF ExitResp
  <2> QED BY <1>0, <1>16, <1>a, <1>b, <2>1 DEF ExitResp, TypeOK, TypeInv
<1>17. CASE ExitNotify(t)
  <2>1. Wakes(t, "exJoinCall")
    BY <1>0, <1>17, ExitNotifyWakes
  <2>2. pc' \in [Threads -> UserPcs \cup IoPcs \cup CallerPcs \cup WakerPcs] /\ PlaceOK'
    BY <1>b, <2>1, WakesTypes
  <2> QED BY <1>0, <1>17, <2>2 DEF ExitNotify, TypeOK, TypeInv
<1>18. CASE ExitJoinCall(t)
  <2>1. Goto(t, "exSpin")
    BY <1>18 DEF ExitJoinCall
  <2> QED BY <1>0, <1>18, <1>a, <1>b, <2>1 DEF ExitJoinCall, TypeOK, TypeInv
<1>19. CASE ExitSpin(t)
  <2>1. Goto(t, "exDone")
    BY <1>19 DEF ExitSpin
  <2> QED BY <1>0, <1>19, <1>a, <1>b, <2>1 DEF ExitSpin, TypeOK, TypeInv
<1> QED
  BY <1>1, <1>2, <1>3, <1>4, <1>5, <1>6, <1>7, <1>8, <1>9, <1>10, <1>11, <1>12, <1>13, <1>14, <1>15,
     <1>16, <1>17, <1>18, <1>19
  DEF UserStep, RequestStep, ExitStep
-----------------------------------------------------------------------------
(* How the steps of an IO thread move the others                            *)

\* dealRequest may wake a caller that waits for room in the queue of i.
LEMMA DealMoves ==
  ASSUME TypeInv, NEW i \in Ios, NEW p \in IoPcs, Deal(i, p)
  PROVE  /\ Wakes(i, p) /\ pc'[Caller] = pc[Caller]
         /\ \A s \in Users : pc'[s] = pc[s] \/ (pc[s] = "pushWait" /\ num[s] = i /\ pc'[s] = "push")
<1>1. i \in Threads /\ p \in Pcs /\ "push" \in Pcs /\ i \notin Users /\ Caller \notin Users
      /\ Caller \in Threads /\ Caller # i /\ Users \subseteq Threads
  BY ThreadKinds DEF Pcs, UserPcs
<1>2. CASE Goto(i, p)
  BY <1>1, <1>2, GotoWakes
<1>3. CASE NotifyOne(i, p, {s \in Users : pc[s] = "pushWait" /\ num[s] = i}, "push")
  <2> DEFINE W == {s \in Users : pc[s] = "pushWait" /\ num[s] = i}
  <2>1. W \in SUBSET (Threads \ {i}) /\ Caller \notin W
    BY <1>1
  <2>2. \A s \in W : s \in Users /\ pc[s] = "pushWait" /\ num[s] = i
    OBVIOUS
  <2>3. NotifyOne(i, p, W, "push")
    BY <1>3
  <2> HIDE DEF W
  <2>4. /\ Wakes(i, p)
        /\ \A s \in Threads \ (W \cup {i}) : pc'[s] = pc[s]
        /\ W # {} => \E s \in W : pc'[s] = "push" /\ \A v \in Threads \ {s, i} : pc'[v] = pc[v]
    <3>1. \A s \in W : Sleeps(s, "push")
      BY <2>2 DEF Sleeps
    <3> QED BY <1>1, <2>1, <2>3, <3>1, NotifyWakes
  <2>5. pc'[Caller] = pc[Caller]
    BY <1>1, <2>1, <2>4
  <2>6. ASSUME NEW s \in Users
        PROVE  pc'[s] = pc[s] \/ (pc[s] = "pushWait" /\ num[s] = i /\ pc'[s] = "push")
    <3>1. CASE s \notin W
      BY <1>1, <2>4, <3>1
    <3>2. CASE s \in W
      BY <1>1, <2>2, <2>4, <3>2
    <3> QED BY <3>1, <3>2
  <2> QED BY <2>4, <2>5, <2>6
<1> QED BY <1>2, <1>3 DEF Deal

\* httpResponse may wake the callback thread.
LEMMA RespondMoves ==
  ASSUME TypeInv, NEW i \in Ios, NEW r, NEW p \in IoPcs, Respond(i, r, p)
  PROVE  Wakes(i, p) /\ \A s \in Users : pc'[s] = pc[s]
<1>1. i \in Threads /\ p \in Pcs /\ "take" \in Pcs /\ i \notin Users /\ Caller \notin Users
      /\ Caller \in Threads /\ Caller # i /\ Users \subseteq Threads
  BY ThreadKinds DEF Pcs, CallerPcs
<1> DEFINE W == {s \in {Caller} : pc[s] = "asleep"}
<1>2. W \in SUBSET (Threads \ {i}) /\ \A s \in W : s = Caller /\ pc[s] = "asleep"
  BY <1>1
<1>3. NotifyOne(i, p, W, "take")
  BY DEF Respond
<1> HIDE DEF W
<1>a. \A s \in W : Sleeps(s, "take")
  BY <1>2 DEF Sleeps
<1>4. Wakes(i, p) /\ \A s \in Threads \ (W \cup {i}) : pc'[s] = pc[s]
  BY <1>1, <1>2, <1>3, <1>a, NotifyWakes
<1> QED BY <1>1, <1>2, <1>4

\* httpcliConnInsert wakes a caller that waits for a connection of u, if one does.
LEMMA ReturnMoves ==
  ASSUME TypeInv, NEW i \in Ios, NEW p \in IoPcs, NEW u, NotifyOne(i, p, PoolWaiters(u), "pop")
  PROVE  /\ Wakes(i, p) /\ pc'[Caller] = pc[Caller]
         /\ \A s \in Users : pc'[s] = pc[s] \/ (s \in PoolWaiters(u) /\ pc[s] = "popWait" /\ pc'[s] = "pop")
         /\ PoolWaiters(u) # {} => \E s \in PoolWaiters(u) : pc'[s] = "pop"
<1>1. i \in Threads /\ p \in Pcs /\ "pop" \in Pcs /\ i \notin Users /\ Caller \notin Users
      /\ Caller \in Threads /\ Caller # i /\ Users \subseteq Threads
  BY ThreadKinds DEF Pcs, UserPcs
<1>2. PoolWaiters(u) \in SUBSET (Threads \ {i}) /\ Caller \notin PoolWaiters(u)
  BY <1>1 DEF PoolWaiters
<1>3. \A s \in PoolWaiters(u) : s \in Users /\ pc[s] = "popWait"
  BY DEF PoolWaiters
<1>a. \A s \in PoolWaiters(u) : Sleeps(s, "pop")
  BY <1>3 DEF Sleeps
<1>4. /\ Wakes(i, p)
      /\ \A s \in Threads \ (PoolWaiters(u) \cup {i}) : pc'[s] = pc[s]
      /\ PoolWaiters(u) # {} => \E s \in PoolWaiters(u) : pc'[s] = "pop" /\ \A v \in Threads \ {s, i} : pc'[v] = pc[v]
  BY <1>1, <1>2, <1>a, NotifyWakes
<1>5. pc'[Caller] = pc[Caller]
  BY <1>1, <1>2, <1>4
<1>6. ASSUME NEW s \in Users
      PROVE  pc'[s] = pc[s] \/ (s \in PoolWaiters(u) /\ pc[s] = "popWait" /\ pc'[s] = "pop")
  <2>1. CASE s \notin PoolWaiters(u)
    BY <1>1, <1>4, <2>1
  <2>2. CASE s \in PoolWaiters(u)
    BY <1>1, <1>3, <1>4, <2>2
  <2> QED BY <2>1, <2>2
<1> QED BY <1>4, <1>5, <1>6
\* What httpcliConnInsert makes of the pools
LEMMA ReturnedPool ==
  ASSUME pool \in [Urls -> Pool], NEW i \in Ios, NEW u \in Urls
  PROVE  /\ Returned(i, u) \in [Urls -> Pool] /\ Returned(i, u)[u].in
         /\ Returned(i, u)[u].queue = IF pool[u].in THEN Append(pool[u].queue, i) ELSE <<i>>
         /\ \A v \in Urls \ {u} : Returned(i, u)[v] = pool[v]
<1> DEFINE q == pool[u]
           a == [in |-> TRUE, max |-> q.max, size |-> q.size + 1, queue |-> Append(q.queue, i)]
           b == [in |-> TRUE, max |-> 0, size |-> 1, queue |-> <<i>>]
<1>1. q \in Pool
  OBVIOUS
<1>2. Append(q.queue, i) \in Seq(Ios) /\ q.size + 1 \in Nat /\ <<i>> \in Seq(Ios)
  BY <1>1 DEF Pool
<1>3. b \in Pool /\ b.queue = <<i>> /\ b.in
  BY <1>2 DEF Pool
<1>4. a \in Pool /\ a.queue = Append(q.queue, i) /\ a.in
  BY <1>1, <1>2 DEF Pool
<1>5. Returned(i, u) = [pool EXCEPT ![u] = IF q.in THEN a ELSE b]
  BY DEF Returned
<1> HIDE DEF a, b
<1> QED BY <1>3, <1>4, <1>5

\* Every step of an IO thread keeps the types.
LEMMA TypeIo ==
  ASSUME TypeInv, ThreadInv, NEW i \in Ios, IoStep(i) \/ IoReadyFail(i) \/ MultiEvent(i)
  PROVE  TypeInv'
<1> USE CurlAssumption, ThreadKinds DEF mgrVars, ioVars, multiVars, respVars, boundVars
<1>0. TypeOK /\ i \in Threads /\ i \in Ios
  BY DEF TypeInv
<1>a. ASSUME NEW p \in IoPcs, Wakes(i, p)
      PROVE  pc' \in [Threads -> UserPcs \cup IoPcs \cup CallerPcs \cup WakerPcs] /\ PlaceOK'
  BY <1>0, <1>a, WakesTypes
<1>b. {"off", "new", "loop", "pull", "each", "check", "return", "left", "test", "done"} \subseteq IoPcs
  BY DEF IoPcs
<1>g. ASSUME NEW p \in IoPcs, Goto(i, p) PROVE Wakes(i, p)
  <2>1. p \in Pcs
    BY DEF Pcs
  <2> QED BY <1>0, <1>g, <2>1, GotoWakes
<1>c. /\ wakeupFd[i] \in Nat /\ queueSize[i] \in Nat /\ num[i] \in Nat /\ reqQueue[i] \in Seq(Reqs)
      /\ wakeupFd[i] \div 2 \in Nat /\ cur[i] \in Reqs \cup {NoReq} /\ running[i] \subseteq Reqs
      /\ done[i] \subseteq Reqs
  BY <1>0, Halves DEF TypeOK
<1>d. \A n : PullPc(n) \in IoPcs
  BY <1>b DEF PullPc
<1>e. ASSUME NEW S \in SUBSET Reqs, NEW D \in SUBSET S, SocketAction(i, S, D)
      PROVE  /\ running' \in [Ios -> SUBSET Reqs] /\ done' \in [Ios -> SUBSET Reqs]
             /\ still' \in [Ios -> Nat]
  <2>1. running' = [running EXCEPT ![i] = S \ D] /\ done' = [done EXCEPT ![i] = done[i] \cup D]
        /\ still' = [still EXCEPT ![i] = Cardinality(S \ D)]
    BY <1>e DEF SocketAction
  <2>2. S \ D \in SUBSET Reqs /\ done[i] \cup D \in SUBSET Reqs
    BY <1>c
  <2>3. IsFiniteSet(S \ D)
    BY <2>2, FS_Subset
  <2>4. Cardinality(S \ D) \in Nat
    BY <2>3, FS_CardinalityType
  <2>5. running \in [Ios -> SUBSET Reqs] /\ done \in [Ios -> SUBSET Reqs] /\ still \in [Ios -> Nat]
    BY <1>0 DEF TypeOK
  <2>6. running' \in [Ios -> SUBSET Reqs]
    BY <2>1, <2>2, <2>5
  <2>7. done' \in [Ios -> SUBSET Reqs]
    BY <2>1, <2>2, <2>5
  <2>8. still' \in [Ios -> Nat]
    BY <2>1, <2>4, <2>5
  <2> QED BY <2>6, <2>7, <2>8
<1>f. ASSUME Pulling(i)
      PROVE  queueSize' \in [Ios -> Nat] /\ num[i] - 1 \in Nat
  <2>1. queueSize' = [queueSize EXCEPT ![i] = IF queueSize[i] > 0 THEN queueSize[i] - 1 ELSE queueSize[i]]
    BY <1>f DEF Pulling
  <2>2. (IF queueSize[i] > 0 THEN queueSize[i] - 1 ELSE queueSize[i]) \in Nat
    BY <1>c, Numbers
  <2>3. num[i] > 0
    BY <1>f DEF Pulling, ThreadInv, IoInv
  <2>4. num[i] - 1 \in Nat
    BY <1>c, <2>3, Numbers
  <2>5. queueSize \in [Ios -> Nat]
    BY <1>0 DEF TypeOK
  <2> QED BY <2>1, <2>2, <2>4, <2>5
<1>h. ASSUME NEW p \in IoPcs, Deal(i, p), reqQueue[i] # <<>>
      PROVE  Wakes(i, p) /\ reqQueue' \in [Ios -> Seq(Reqs)] /\ Head(reqQueue[i]) \in Reqs
  <2>1. reqQueue' = [reqQueue EXCEPT ![i] = Tail(reqQueue[i])]
    BY <1>h DEF Deal
  <2>2. Tail(reqQueue[i]) \in Seq(Reqs) /\ Head(reqQueue[i]) \in Reqs
    BY <1>c, <1>h
  <2>3. reqQueue \in [Ios -> Seq(Reqs)]
    BY <1>0 DEF TypeOK
  <2>4. Wakes(i, p)
    BY <1>h, DealMoves
  <2> QED BY <2>1, <2>2, <2>3, <2>4
<1>k. ASSUME NEW r \in Reqs, NEW p \in IoPcs, Respond(i, r, p)
      PROVE  Wakes(i, p) /\ respQueue' \in Seq(Reqs)
  <2>1. respQueue' = Append(respQueue, r) /\ respQueue \in Seq(Reqs)
    BY <1>0, <1>k DEF Respond, TypeOK
  <2>2. respQueue' \in Seq(Reqs)
    BY <2>1
  <2> QED BY <1>k, <2>2, RespondMoves
<1>1. CASE IoCreate(i)
  <2>1. Goto(i, "new")
    BY <1>1 DEF IoCreate
  <2>2. wakeupFd' \in [Ios -> Nat] /\ queueSize' \in [Ios -> Nat]
    BY <1>0, <1>1 DEF IoCreate, TypeOK
  <2>3. slots' \subseteq Ios
    BY <1>0, <1>1 DEF IoCreate, TypeOK
  <2> QED BY <1>0, <1>1, <1>a, <1>b, <1>g, <2>1, <2>2, <2>3 DEF IoCreate, TypeOK, TypeInv
<1>2. CASE IoReady(i)
  <2>1. Goto(i, "loop")
    BY <1>2 DEF IoReady
  <2>2. readyIothread' \in 0 .. UMod - 1
    <3>1. readyIothread \in Nat /\ UMod \in Nat \ {0} /\ readyIothread' = (readyIothread + 1) % UMod
      BY <1>0, <1>2 DEF IoReady, TypeOK
    <3> QED BY <3>1
  <2>3. reqQueue' \in [Ios -> Seq(Reqs)]
    <3>1. <<>> \in Seq(Reqs)
      OBVIOUS
    <3>2. reqQueue \in [Ios -> Seq(Reqs)] /\ reqQueue' = [reqQueue EXCEPT ![i] = <<>>]
      BY <1>0, <1>2 DEF IoReady, TypeOK
    <3> QED BY <3>1, <3>2
  <2> QED BY <1>0, <1>2, <1>a, <1>b, <1>g, <2>1, <2>2, <2>3 DEF IoReady, TypeOK, TypeInv
<1>3. CASE IoReadyFail(i)
  <2>1. Goto(i, "left")
    BY <1>3 DEF IoReadyFail
  <2>2. readyFails' \in 0 .. MaxReadyFail
    <3>1. MaxReadyFail \in Nat
      OBVIOUS
    <3>2. readyFails \in 0 .. MaxReadyFail /\ readyFails < MaxReadyFail /\ readyFails' = readyFails + 1
      BY <1>0, <1>3 DEF IoReadyFail, TypeOK
    <3> QED BY <3>1, <3>2
  <2> QED BY <1>0, <1>3, <1>a, <1>b, <1>g, <2>1, <2>2 DEF IoReadyFail, TypeOK, TypeInv
<1>4. CASE HandleRead(i)
  <2>1. Goto(i, PullPc(queueSize'[i]))
    BY <1>4 DEF HandleRead
  <2>2. wakeupFd' \in [Ios -> Nat]
    BY <1>0, <1>4 DEF HandleRead, TypeOK
  <2>3. queueSize' \in [Ios -> Nat] /\ queueSize'[i] \in Nat
    <3>1. queueSize' = [queueSize EXCEPT ![i] = queueSize[i] + wakeupFd[i] \div 2]
      BY <1>4 DEF HandleRead
    <3>2. queueSize[i] + wakeupFd[i] \div 2 \in Nat
      BY <1>c, Numbers
    <3>3. queueSize \in [Ios -> Nat]
      BY <1>0 DEF TypeOK
    <3> QED BY <3>1, <3>2, <3>3
  <2>4. num' \in [Threads -> Nat]
    BY <1>0, <1>4, <2>3 DEF HandleRead, TypeOK
  <2>5. odd' \in [Ios -> BOOLEAN]
    <3>1. odd' = [odd EXCEPT ![i] = (wakeupFd[i] % 2 = 1)] /\ odd \in [Ios -> BOOLEAN]
      BY <1>0, <1>4 DEF HandleRead, TypeOK
    <3> QED BY <3>1
  <2> QED BY <1>0, <1>4, <1>a, <1>d, <1>g, <2>1, <2>2, <2>3, <2>4, <2>5 DEF HandleRead, TypeOK, TypeInv
<1>5. CASE Launch(i)
  <2>1. Pulling(i) /\ Deal(i, PullPc(num[i] - 1)) /\ reqQueue[i] # <<>>
    BY <1>5 DEF Launch
  <2>2. Wakes(i, PullPc(num[i] - 1)) /\ reqQueue' \in [Ios -> Seq(Reqs)] /\ Head(reqQueue[i]) \in Reqs
    BY <1>d, <1>h, <2>1
  <2>3. queueSize' \in [Ios -> Nat] /\ num' \in [Threads -> Nat]
    BY <1>0, <1>5, <1>f, <2>1 DEF Launch, TypeOK
  <2>4. running[i] \cup {Head(reqQueue[i])} \in SUBSET Reqs
    BY <1>c, <2>2
  <2>5. PICK D \in SUBSET (running[i] \cup {Head(reqQueue[i])}) :
          SocketAction(i, running[i] \cup {Head(reqQueue[i])}, D)
    BY <1>5 DEF Launch
  <2>6. /\ running' \in [Ios -> SUBSET Reqs] /\ done' \in [Ios -> SUBSET Reqs]
        /\ still' \in [Ios -> Nat]
    BY <1>e, <2>4, <2>5
  <2> QED BY <1>0, <1>5, <1>a, <1>d, <2>2, <2>3, <2>6 DEF Launch, TypeOK, TypeInv
<1>6. CASE SetupFail(i)
  <2>1. Pulling(i) /\ Deal(i, "return") /\ reqQueue[i] # <<>>
    BY <1>6 DEF SetupFail
  <2>2. Wakes(i, "return") /\ reqQueue' \in [Ios -> Seq(Reqs)] /\ Head(reqQueue[i]) \in Reqs
    BY <1>b, <1>h, <2>1
  <2>3. queueSize' \in [Ios -> Nat] /\ num' \in [Threads -> Nat]
    BY <1>0, <1>6, <1>f, <2>1 DEF SetupFail, TypeOK
  <2>4. cur' \in [Threads -> Reqs \cup {NoReq}]
    BY <1>0, <1>6, <2>2 DEF SetupFail, TypeOK
  <2>5. back' \in [Ios -> {"each", "check", "pull"}]
    BY <1>0, <1>6 DEF SetupFail, TypeOK
  <2> QED BY <1>0, <1>6, <1>a, <1>b, <2>2, <2>3, <2>4, <2>5 DEF SetupFail, TypeOK, TypeInv
<1>7. CASE SetupFailed(i)
  <2>1. Respond(i, cur[i], PullPc(num[i])) /\ cur[i] \in Reqs
    BY <1>7 DEF SetupFailed, ThreadInv, IoInv
  <2>2. Wakes(i, PullPc(num[i])) /\ respQueue' \in Seq(Reqs)
    BY <1>d, <1>k, <2>1
  <2>3. cur' \in [Threads -> Reqs \cup {NoReq}]
    BY <1>0, <1>7 DEF SetupFailed, TypeOK
  <2>4. back' \in [Ios -> {"each", "check", "pull"}]
    BY <1>0, <1>7 DEF SetupFailed, TypeOK
  <2> QED BY <1>0, <1>7, <1>a, <1>d, <2>2, <2>3, <2>4 DEF SetupFailed, TypeOK, TypeInv
<1>8. CASE PullNothing(i)
  <2>1. Pulling(i) /\ Goto(i, "each")
    BY <1>8 DEF PullNothing
  <2>2. num' \in [Threads -> Nat]
    BY <1>0, <1>8 DEF PullNothing, TypeOK
  <2> QED BY <1>0, <1>8, <1>a, <1>b, <1>f, <1>g, <2>1, <2>2 DEF PullNothing, TypeOK, TypeInv
<1>9. ASSUME NEW r \in Reqs, EachAged(i, r) PROVE TypeInv'
  <2>1. Respond(i, r, "return")
    BY <1>9 DEF EachAged
  <2>2. Wakes(i, "return") /\ respQueue' \in Seq(Reqs)
    BY <1>b, <1>k, <2>1
  <2>3. cur' \in [Threads -> Reqs \cup {NoReq}]
    BY <1>0, <1>9 DEF EachAged, TypeOK
  <2>4. back' \in [Ios -> {"each", "check", "pull"}]
    BY <1>0, <1>9 DEF EachAged, TypeOK
  <2>5. running' \in [Ios -> SUBSET Reqs]
    BY <1>0, <1>9 DEF EachAged, TypeOK
  <2>6. done' \in [Ios -> SUBSET Reqs]
    BY <1>0, <1>9 DEF EachAged, TypeOK
  <2>7. aged' \subseteq Reqs
    BY <1>0, <1>9 DEF EachAged, TypeOK
  <2> QED BY <1>0, <1>9, <1>a, <1>b, <2>2, <2>3, <2>4, <2>5, <2>6, <2>7 DEF EachAged, TypeOK, TypeInv
<1>10. ASSUME NEW r \in Reqs, CheckDone(i, r) PROVE TypeInv'
  <2>1. Respond(i, r, "return")
    BY <1>10 DEF CheckDone
  <2>2. Wakes(i, "return") /\ respQueue' \in Seq(Reqs)
    BY <1>b, <1>k, <2>1
  <2>3. cur' \in [Threads -> Reqs \cup {NoReq}]
    BY <1>0, <1>10 DEF CheckDone, TypeOK
  <2>4. back' \in [Ios -> {"each", "check", "pull"}]
    BY <1>0, <1>10 DEF CheckDone, TypeOK
  <2>5. done' \in [Ios -> SUBSET Reqs]
    BY <1>0, <1>10 DEF CheckDone, TypeOK
  <2>6. aged' \subseteq Reqs
    BY <1>0, <1>10 DEF CheckDone, TypeOK
  <2> QED BY <1>0, <1>10, <1>a, <1>b, <2>2, <2>3, <2>4, <2>5, <2>6 DEF CheckDone, TypeOK, TypeInv
<1>11. CASE EachEnd(i)
  <2>1. Goto(i, "left") \/ Goto(i, "loop")
    BY <1>11 DEF EachEnd
  <2>2. stopped' \in [Ios -> BOOLEAN] /\ odd' \in [Ios -> BOOLEAN]
    BY <1>0, <1>11 DEF EachEnd, TypeOK
  <2> QED BY <1>0, <1>11, <1>a, <1>b, <1>g, <2>1, <2>2 DEF EachEnd, TypeOK, TypeInv
<1>12. CASE CheckEnd(i)
  <2>1. Goto(i, PullPc(queueSize[i]))
    BY <1>12 DEF CheckEnd
  <2>2. num' \in [Threads -> Nat]
    BY <1>0, <1>12, <1>c DEF CheckEnd, TypeOK
  <2> QED BY <1>0, <1>12, <1>a, <1>d, <1>g, <2>1, <2>2 DEF CheckEnd, TypeOK, TypeInv
<1>13. ASSUME NEW u \in Urls, ReturnConn(i, u) PROVE TypeInv'
  <2>1. NotifyOne(i, back[i], PoolWaiters(u), "pop") /\ pool' = Returned(i, u)
    BY <1>13 DEF ReturnConn
  <2>2. back[i] \in IoPcs
    BY <1>0, <1>b DEF TypeOK
  <2>3. Wakes(i, back[i])
    BY <2>1, <2>2, ReturnMoves
  <2>4. cur' \in [Threads -> Reqs \cup {NoReq}]
    BY <1>0, <1>13 DEF ReturnConn, TypeOK
  <2>5. back' \in [Ios -> {"each", "check", "pull"}]
    BY <1>0, <1>13 DEF ReturnConn, TypeOK
  <2>6. pool' \in [Urls -> Pool]
    BY <1>0, <2>1, ReturnedPool DEF TypeOK
  <2> QED BY <1>0, <1>13, <1>a, <2>2, <2>3, <2>4, <2>5, <2>6 DEF ReturnConn, TypeOK, TypeInv
<1>14. CASE IoLeave(i)
  <2>1. Goto(i, "test")
    BY <1>14 DEF IoLeave
  <2>2. readyIothread' \in 0 .. UMod - 1
    BY <1>0, <1>14 DEF IoLeave, Decremented, TypeOK
  <2> QED BY <1>0, <1>14, <1>a, <1>b, <1>g, <2>1, <2>2 DEF IoLeave, TypeOK, TypeInv
<1>15. CASE IoTest(i)
  <2>1. Goto(i, "done") \/ Goto(i, "off")
    BY <1>15 DEF IoTest
  <2>2. exitIothread' \in Nat
    BY <1>0, <1>15 DEF IoTest, TypeOK
  <2> QED BY <1>0, <1>15, <1>a, <1>b, <1>g, <2>1, <2>2 DEF IoTest, TypeOK, TypeInv
<1>16. CASE MultiEvent(i)
  <2>1. Goto(i, "check")
    BY <1>16 DEF MultiEvent
  <2>2. PICK D \in SUBSET running[i] : SocketAction(i, running[i], D)
    BY <1>16 DEF MultiEvent
  <2>3. /\ running' \in [Ios -> SUBSET Reqs] /\ done' \in [Ios -> SUBSET Reqs]
        /\ still' \in [Ios -> Nat]
    BY <1>c, <1>e, <2>2
  <2> QED BY <1>0, <1>16, <1>a, <1>b, <1>g, <2>1, <2>3 DEF MultiEvent, TypeOK, TypeInv
<1> QED
  BY <1>1, <1>2, <1>3, <1>4, <1>5, <1>6, <1>7, <1>8, <1>9, <1>10, <1>11, <1>12, <1>13, <1>14, <1>15, <1>16
  DEF IoStep
\* A wait that returns unasked
LEMMA UnaskedMoves ==
  ASSUME TypeInv, NEW t \in Users \cup {Caller}, WakeUnasked(t)
  PROVE  \E p \in Pcs :
           /\ Goto(t, p)
           /\ \/ t \in Users /\ pc[t] = "popWait" /\ p = "pop"
              \/ t \in Users /\ pc[t] = "pushWait" /\ p = "push"
              \/ t = Caller /\ pc[t] = "asleep" /\ p = "take"
<1>1. (t \in Users => pc[t] # "asleep") /\ (t = Caller => pc[t] \notin {"popWait", "pushWait"})
  BY DEF TypeInv, PlaceOK, UserPcs, CallerPcs
<1>2. "pop" \in Pcs /\ "push" \in Pcs /\ "take" \in Pcs
  BY DEF Pcs, UserPcs, CallerPcs
<1>3. CASE pc[t] = "popWait"
  BY <1>1, <1>2, <1>3 DEF WakeUnasked
<1>4. CASE pc[t] = "pushWait"
  BY <1>1, <1>2, <1>4 DEF WakeUnasked
<1>5. CASE pc[t] = "asleep"
  BY <1>1, <1>2, <1>5 DEF WakeUnasked
<1> QED BY <1>3, <1>4, <1>5 DEF WakeUnasked

\* The other steps
OtherStep ==
  \/ CallerStep \/ WakerStep
  \/ \E r \in Reqs : Age(r)
  \/ \E t \in Users \cup {Caller} : WakeUnasked(t)

\* The other steps keep the types.
LEMMA TypeOther ==
  ASSUME TypeInv, ThreadInv, OtherStep
  PROVE  TypeInv'
<1> USE CurlAssumption, ThreadKinds DEF mgrVars, ioVars, multiVars, respVars, boundVars
<1>0. TypeOK /\ Caller \in Threads /\ Waker \in Threads
  BY DEF TypeInv
<1>a. ASSUME NEW p \in CallerPcs, Goto(Caller, p)
      PROVE  pc' \in [Threads -> UserPcs \cup IoPcs \cup CallerPcs \cup WakerPcs] /\ PlaceOK'
  <2>1. p \in Pcs
    BY DEF Pcs
  <2> QED BY <1>a, <2>1, GotoWakes, WakesTypes
<1>b. {"take", "sleep", "asleep", "rsp", "call", "done"} \subseteq CallerPcs
  BY DEF CallerPcs
<1>c. NextTurn \in CallerPcs
  BY <1>b DEF NextTurn
<1>1. CASE CallerTake
  <2>1. CASE respQueue # <<>>
    <3>1. cur' = [cur EXCEPT ![Caller] = Head(respQueue)] /\ respQueue' = Tail(respQueue) /\ Goto(Caller, "rsp")
      BY <1>1, <2>1 DEF CallerTake
    <3>a. respQueue \in Seq(Reqs)
      BY <1>0 DEF TypeOK
    <3>2. Head(respQueue) \in Reqs /\ respQueue' \in Seq(Reqs)
      BY <2>1, <3>1, <3>a, TailHas
    <3>3. cur' \in [Threads -> Reqs \cup {NoReq}]
      BY <1>0, <3>1, <3>2 DEF TypeOK
    <3> QED BY <1>0, <1>1, <1>a, <1>b, <3>1, <3>2, <3>3 DEF CallerTake, TypeOK, TypeInv
  <2>2. CASE respQueue = <<>>
    <3>1. \E p \in CallerPcs : Goto(Caller, p) /\ UNCHANGED <<cur, respQueue>>
      BY <1>1, <1>b, <1>c, <2>2 DEF CallerTake
    <3> QED BY <1>0, <1>1, <1>a, <3>1 DEF CallerTake, TypeOK, TypeInv
  <2> QED BY <2>1, <2>2
<1>2. CASE CallerSleep
  <2>1. Goto(Caller, "asleep")
    BY <1>2 DEF CallerSleep
  <2> QED BY <1>0, <1>2, <1>a, <1>b, <2>1 DEF CallerSleep, TypeOK, TypeInv
<1>3. CASE CallerRsp
  <2>1. Goto(Caller, "call") /\ asyncNum' \in Int
    BY <1>0, <1>3 DEF CallerRsp, TypeOK
  <2> QED BY <1>0, <1>3, <1>a, <1>b, <2>1 DEF CallerRsp, TypeOK, TypeInv
<1>4. CASE CallerCall
  <2>1. Goto(Caller, NextTurn)
    BY <1>4 DEF CallerCall
  <2>2. cur[Caller] \in Reqs
    BY <1>4 DEF CallerCall, ThreadInv, CallerInv
  <2>a. answered[cur[Caller]] \in Nat
    BY <1>0, <2>2 DEF TypeOK
  <2>3. answered[cur[Caller]] + 1 \in Nat
    BY <2>a, Numbers
  <2>4. answered' = [answered EXCEPT ![cur[Caller]] = answered[cur[Caller]] + 1]
    BY <1>4 DEF CallerCall
  <2>5. answered' \in [Reqs -> Nat]
    BY <1>0, <2>2, <2>3, <2>4 DEF TypeOK
  <2>6. cur' \in [Threads -> Reqs \cup {NoReq}]
    BY <1>0, <1>4 DEF CallerCall, TypeOK
  <2> QED BY <1>0, <1>4, <1>a, <1>c, <2>1, <2>5, <2>6 DEF CallerCall, TypeOK, TypeInv
<1>5. CASE WakerWrite
  <2>1. pc' = pc /\ PlaceOK'
    BY <1>5 DEF WakerWrite, TypeInv, PlaceOK
  <2>2. num' \in [Threads -> Nat]
    <3>1. num[Waker] \in Nat
      BY <1>0 DEF TypeOK
    <3>2. num[Waker] + 1 \in Nat
      BY <3>1, Numbers
    <3> QED BY <1>0, <1>5, <3>2 DEF WakerWrite, TypeOK
  <2>3. wakeupFd' \in [Ios -> Nat]
    <3> DEFINE i == num[Waker]
    <3>1. wakeupFd \in [Ios -> Nat]
      BY <1>0 DEF TypeOK
    <3>2. i \in Ios => wakeupFd[i] + 2 \in Nat
      BY <3>1
    <3>3. wakeupFd' = [wakeupFd EXCEPT ![i] = IF i \in slots /\ FdOpen(i) THEN wakeupFd[i] + 2 ELSE wakeupFd[i]]
      BY <1>5 DEF WakerWrite
    <3> QED BY <3>1, <3>2, <3>3
  <2> QED BY <1>0, <1>5, <2>1, <2>2, <2>3 DEF WakerWrite, TypeOK, TypeInv
<1>6. CASE WakerEnd
  <2>1. PICK p \in {"done", "write"} : Goto(Waker, p)
    BY <1>6 DEF WakerEnd
  <2>2. p \in WakerPcs /\ p \in Pcs
    BY DEF WakerPcs, Pcs
  <2>3. pc' \in [Threads -> UserPcs \cup IoPcs \cup CallerPcs \cup WakerPcs] /\ PlaceOK'
    BY <2>1, <2>2, GotoWakes, WakesTypes
  <2>4. num' \in [Threads -> Nat]
    BY <1>0, <1>6 DEF WakerEnd, TypeOK
  <2> QED BY <1>0, <1>6, <2>3, <2>4 DEF WakerEnd, TypeOK, TypeInv
<1>7. ASSUME NEW r \in Reqs, Age(r) PROVE TypeInv'
  <2>1. pc' = pc /\ PlaceOK' /\ aged' \subseteq Reqs
    BY <1>0, <1>7 DEF Age, TypeInv, PlaceOK, TypeOK
  <2> QED BY <1>0, <1>7, <2>1 DEF Age, TypeOK, TypeInv
<1>8. ASSUME NEW t \in Users \cup {Caller}, WakeUnasked(t) PROVE TypeInv'
  <2>1. PICK p \in Pcs : /\ Goto(t, p)
                         /\ \/ t \in Users /\ p = "pop"
                            \/ t \in Users /\ p = "push"
                            \/ t = Caller /\ p = "take"
    BY <1>8, UnaskedMoves
  <2>2. (t \in Users => p \in UserPcs) /\ (t = Caller => p \in CallerPcs) /\ t \notin Ios /\ t # Waker /\ t \in Threads
    BY <2>1 DEF UserPcs, CallerPcs
  <2>3. pc' \in [Threads -> UserPcs \cup IoPcs \cup CallerPcs \cup WakerPcs] /\ PlaceOK'
    BY <2>1, <2>2, GotoWakes, WakesTypes
  <2> QED BY <1>0, <1>8, <2>3 DEF WakeUnasked, TypeOK, TypeInv
<1> QED BY <1>1, <1>2, <1>3, <1>4, <1>5, <1>6, <1>7, <1>8 DEF OtherStep, CallerStep, WakerStep

\* Every step keeps the types.
LEMMA TypeStep ==
  ASSUME TypeInv, ThreadInv, [Next]_vars
  PROVE  TypeInv'
<1>1. CASE UNCHANGED vars
  BY <1>1 DEF TypeInv, TypeOK, PlaceOK, vars, mgrVars, ioVars, multiVars, respVars, boundVars
<1>2. CASE Next
  BY <1>2, TypeUser, TypeIo, TypeOther DEF Next, OtherStep
<1> QED BY <1>1, <1>2
-----------------------------------------------------------------------------
(* What the place of a thread says                                          *)

\* Once set, the flags and the URL of a request stay; an IO thread that is
\* through stays so.
Onward ==
  /\ isExit => isExit'
  /\ ioThreadNum = IoNum => ioThreadNum' = IoNum
  /\ \A r \in Reqs : url[r] \in Urls => url'[r] \in Urls
  /\ \A i \in Ios : pc[i] = "done" => pc'[i] = "done"

\* A caller that the step does not move, or only wakes
LEMMA UserKeeps ==
  ASSUME Onward, NEW s \in Users, UserInv(s), cur'[s] = cur[s], num'[s] = num[s],
         \/ pc'[s] = pc[s]
         \/ pc[s] = "popWait" /\ pc'[s] = "pop"
         \/ pc[s] = "pushWait" /\ pc'[s] = "push"
  PROVE  UserInv(s)'
<1>1. CASE pc'[s] = pc[s]
  BY <1>1 DEF Onward, UserInv
<1>2. CASE pc[s] = "popWait" /\ pc'[s] = "pop"
  BY <1>2 DEF Onward, UserInv, InCall, Counted, Exiting
<1>3. CASE pc[s] = "pushWait" /\ pc'[s] = "push"
  BY <1>3 DEF Onward, UserInv, InCall, Counted, Exiting
<1> QED BY <1>1, <1>2, <1>3

\* An IO thread that the step does not move
LEMMA IoKeeps ==
  ASSUME Onward, NEW i \in Ios, IoInv(i), pc'[i] = pc[i], cur'[i] = cur[i], num'[i] = num[i],
         i \in slots => i \in slots' \/ pc[i] = "done",
         wakeupFd'[i] % 2 = 1 => wakeupFd[i] % 2 = 1 \/ isExit',
         odd'[i] = odd[i], stopped'[i] = stopped[i]
  PROVE  IoInv(i)'
  BY DEF Onward, IoInv

\* exitIothread counts on.
LEMMA DoneKeeps ==
  ASSUME ThreadInv, exitIothread' = exitIothread, \A i \in Ios : pc'[i] = "done" <=> pc[i] = "done"
  PROVE  exitIothread' = Cardinality(IosDone)'
<1>1. IosDone' = IosDone
  BY DEF IosDone
<1> QED BY <1>1 DEF ThreadInv

\* When exitIothread has come to IoNum, all IO threads are through.
LEMMA AllDone ==
  ASSUME ThreadInv, exitIothread = IoNum
  PROVE  \A i \in Ios : pc[i] = "done"
<1>1. IsFiniteSet(Ios) /\ Cardinality(Ios) = IoNum
  BY IosFinite
<1>2. IosDone \in SUBSET Ios /\ Cardinality(IosDone) = IoNum
  BY DEF IosDone, ThreadInv
<1>3. IosDone = Ios
  BY <1>1, <1>2, FS_Subset
<1> QED BY <1>3 DEF IosDone

\* A write to an eventfd
LEMMA Written ==
  ASSUME wakeupFd \in [Ios -> Nat], NEW i, NEW n \in {1, 2},
         wakeupFd' = [wakeupFd EXCEPT ![i] = IF i \in slots /\ FdOpen(i) THEN @ + n ELSE @]
  PROVE  /\ \A j \in Ios \ {i} : wakeupFd'[j] = wakeupFd[j]
         /\ i \in Ios => wakeupFd'[i] = IF i \in slots /\ FdOpen(i) THEN wakeupFd[i] + n ELSE wakeupFd[i]
         /\ n = 2 => \A j \in Ios : wakeupFd'[j] % 2 = wakeupFd[j] % 2
<1>1. wakeupFd' = [wakeupFd EXCEPT ![i] = IF i \in slots /\ FdOpen(i) THEN wakeupFd[i] + n ELSE wakeupFd[i]]
  OBVIOUS
<1>2. \A j \in Ios \ {i} : wakeupFd'[j] = wakeupFd[j]
  BY <1>1
<1>3. i \in Ios => wakeupFd'[i] = IF i \in slots /\ FdOpen(i) THEN wakeupFd[i] + n ELSE wakeupFd[i]
  BY <1>1
<1>4. ASSUME n = 2, NEW j \in Ios PROVE wakeupFd'[j] % 2 = wakeupFd[j] % 2
  <2>1. wakeupFd[j] \in Nat
    OBVIOUS
  <2>2. (wakeupFd[j] + 2) % 2 = wakeupFd[j] % 2
    BY <2>1, Halves
  <2>3. wakeupFd'[j] = wakeupFd[j] \/ wakeupFd'[j] = wakeupFd[j] + 2
    BY <1>2, <1>3, <1>4
  <2> QED BY <2>2, <2>3
<1> QED BY <1>2, <1>3, <1>4

\* A step of a caller moves it, and may wake the callback thread.
LEMMA UserMoves ==
  ASSUME TypeInv, NEW t \in Users, UserStep(t)
  PROVE  /\ Wakes(t, pc'[t]) /\ pc'[t] \in UserPcs
         /\ \A s \in Users \ {t} : pc'[s] = pc[s]
<1>0. t \in Threads /\ Caller \notin Users /\ Users \subseteq Threads
  BY ThreadKinds
<1>1. {"idle", "init", "wait", "count", "pop", "popWait", "addUrl", "insert", "slot", "push",
       "pushWait", "wake", "crashed", "exPoll", "exJoinWake", "exWrite", "exResp", "exJoinCall",
       "exSpin", "exDone"} \subseteq UserPcs
  BY DEF UserPcs
<1>2. ASSUME NEW p \in UserPcs, Goto(t, p)
      PROVE  Wakes(t, p) /\ \A s \in Users \ {t} : pc'[s] = pc[s]
  BY <1>0, <1>2, GotoWakes DEF Pcs
<1>3. CASE ExitWrite(t)
  <2>1. pc' = pc /\ pc[t] \in UserPcs /\ pc \in [Threads -> Pcs]
    BY <1>3 DEF ExitWrite, TypeInv, TypeOK, PlaceOK, Pcs
  <2> QED BY <2>1 DEF Wakes
<1>4. CASE ExitNotify(t)
  <2>1. Wakes(t, "exJoinCall") /\ \A s \in Threads \ {t, Caller} : pc'[s] = pc[s]
    BY <1>4, ExitNotifyWakes
  <2> QED BY <1>0, <1>1, <2>1 DEF Wakes
<1>5. ASSUME ~ExitWrite(t), ~ExitNotify(t) PROVE \E p \in UserPcs : Goto(t, p)
  <2>1. CASE InitStart(t) \/ InitDone(t) \/ ExitCall(t) \/ \E r \in Reqs, u \in Urls : Call(t, r, u)
    BY <2>1, <1>1 DEF InitStart, InitDone, ExitCall, Call
  <2>2. CASE RequestStep(t)
    BY <2>2, <1>1 DEF RequestStep, WaitReady, Count, Pop, AddUrl, Insert, Slot, Push, Wakeup, Return
  <2>3. CASE ExitStep(t)
    BY <2>3, <1>5, <1>1 DEF ExitStep, ExitPoll, ExitJoinWake, ExitResp, ExitJoinCall, ExitSpin
  <2> QED BY <2>1, <2>2, <2>3 DEF UserStep
<1>6. ASSUME ~ExitWrite(t), ~ExitNotify(t)
      PROVE  Wakes(t, pc'[t]) /\ pc'[t] \in UserPcs /\ \A s \in Users \ {t} : pc'[s] = pc[s]
  BY <1>2, <1>5, <1>6 DEF Wakes
<1> QED BY <1>3, <1>4, <1>6

\* What the steps of caller t leave alone
LEMMA UserFrame ==
  ASSUME TypeInv, NEW t \in Users, UserStep(t)
  PROVE  /\ \A s \in Threads \ {t} : cur'[s] = cur[s] /\ num'[s] = num[s]
         /\ isExit => isExit'
         /\ ioThreadNum = IoNum => ioThreadNum' = IoNum
         /\ slots' = slots \/ ExitSpin(t)
         /\ wakeupFd' = wakeupFd \/ Wakeup(t) \/ ExitWrite(t)
         /\ reqQueue' = reqQueue \/ Push(t)
         /\ UNCHANGED <<readyIothread, exitIothread, queueSize, stopped, odd, back, multiVars,
                        respQueue, answered, readyFails>>
<1> USE DEF mgrVars, ioVars, multiVars, respVars, boundVars
<1>0. cur \in [Threads -> Reqs \cup {NoReq}] /\ num \in [Threads -> Nat] /\ t \in Threads
  BY ThreadKinds DEF TypeInv, TypeOK
<1>1. CASE InitStart(t) \/ InitDone(t) \/ ExitCall(t)
  BY <1>0, <1>1 DEF InitStart, InitDone, ExitCall
<1>2. CASE \E r \in Reqs, u \in Urls : Call(t, r, u)
  BY <1>0, <1>2 DEF Call
<1>3. CASE RequestStep(t)
  BY <1>0, <1>3 DEF RequestStep, WaitReady, Count, Pop, AddUrl, Insert, Slot, Push, Wakeup, Return
<1>4. CASE ExitStep(t)
  BY <1>0, <1>4 DEF ExitStep, ExitPoll, ExitJoinWake, ExitWrite, ExitResp, ExitNotify, ExitJoinCall, ExitSpin
<1> QED BY <1>1, <1>2, <1>3, <1>4 DEF UserStep

\* The steps of a caller
LEMMA ThreadUser ==
  ASSUME TypeInv, ThreadInv, NEW t \in Users, UserStep(t)
  PROVE  ThreadInv' /\ Onward
<1> USE DEF mgrVars, ioVars, multiVars, respVars, boundVars
<1>0. /\ TypeOK /\ t \in Threads /\ t \notin Ios /\ t # Caller /\ t # Waker /\ Users \subseteq Threads
      /\ Ios \subseteq Threads /\ Caller \in Threads
      /\ cur \in [Threads -> Reqs \cup {NoReq}] /\ num \in [Threads -> Nat] /\ IoNum \in Nat
      /\ \A i \in Ios : i \in Nat /\ i < IoNum
  BY CurlAssumption, ThreadKinds DEF TypeInv, TypeOK
<1>1. /\ \A s \in Threads \ {t} : cur'[s] = cur[s] /\ num'[s] = num[s]
      /\ isExit => isExit'
      /\ ioThreadNum = IoNum => ioThreadNum' = IoNum
      /\ odd' = odd /\ stopped' = stopped /\ exitIothread' = exitIothread
  BY UserFrame
<1>2. /\ \A s \in Users \ {t} : pc'[s] = pc[s]
      /\ \A i \in Ios : pc'[i] = pc[i]
      /\ pc'[Caller] = pc[Caller] \/ (pc[Caller] = "asleep" /\ pc'[Caller] = "take")
  BY <1>0, UserMoves DEF Wakes
<1>3. Onward
  <2>1. \A r \in Reqs : url[r] \in Urls => url'[r] \in Urls
    <3>1. ASSUME NEW r \in Reqs, NEW u \in Urls, Call(t, r, u)
          PROVE  \A x \in Reqs : url[x] \in Urls => url'[x] \in Urls
      BY <1>0, <3>1 DEF Call, TypeOK
    <3>2. ASSUME ~\E r \in Reqs, u \in Urls : Call(t, r, u) PROVE url' = url
      BY <3>2 DEF UserStep, RequestStep, ExitStep, InitStart, InitDone, ExitCall, WaitReady, Count, Pop, AddUrl,
             Insert, Slot, Push, Wakeup, ExitPoll, ExitJoinWake, ExitWrite, ExitResp, ExitNotify,
             ExitJoinCall, ExitSpin
    <3> QED BY <3>1, <3>2
  <2> QED BY <1>1, <1>2, <2>1 DEF Onward
<1>4. \A s \in Users \ {t} : UserInv(s)'
  BY <1>0, <1>1, <1>2, <1>3, UserKeeps DEF ThreadInv
<1>5. \A i \in Ios : IoInv(i)'
  <2> SUFFICES ASSUME NEW i \in Ios PROVE IoInv(i)'
    OBVIOUS
  <2>1. i \in slots => i \in slots' \/ pc[i] = "done"
    <3>1. CASE ExitSpin(t)
      <4>1. exitIothread = IoNum
        BY <3>1 DEF ExitSpin, ThreadInv, UserInv, Exiting
      <4> QED BY <4>1, AllDone
    <3>2. CASE ~ExitSpin(t)
      BY <3>2, UserFrame
    <3> QED BY <3>1, <3>2
  <2>2. wakeupFd'[i] % 2 = 1 => wakeupFd[i] % 2 = 1 \/ isExit'
    <3>0. wakeupFd \in [Ios -> Nat]
      BY <1>0 DEF TypeOK
    <3>1. CASE Wakeup(t)
      <4>1. wakeupFd' = [wakeupFd EXCEPT ![num[t]] = IF num[t] \in slots /\ FdOpen(num[t]) THEN @ + 2 ELSE @]
        BY <3>1 DEF Wakeup
      <4> QED BY <3>0, <4>1, Written
    <3>2. CASE ExitWrite(t)
      BY <3>2 DEF ExitWrite, ThreadInv, UserInv, Exiting
    <3>3. CASE ~Wakeup(t) /\ ~ExitWrite(t)
      BY <3>3, UserFrame
    <3> QED BY <3>1, <3>2, <3>3
  <2> QED BY <1>0, <1>1, <1>2, <1>3, <2>1, <2>2, IoKeeps DEF ThreadInv
<1>6. CallerInv'
  BY <1>0, <1>1, <1>2 DEF ThreadInv, CallerInv
<1>7. exitIothread' = Cardinality(IosDone)'
  BY <1>1, <1>2, DoneKeeps
<1>8. UserInv(t)'
  <2>0. UserInv(t)
    BY DEF ThreadInv
  <2>1. CASE InitStart(t) \/ InitDone(t)
    <3>1. pc'[t] \in {"init", "idle"}
      BY <1>0, <2>1 DEF InitStart, InitDone, Goto, TypeOK
    <3> QED BY <3>1 DEF UserInv, InCall, Before, Counted, Exiting
  <2>2. ASSUME NEW r \in Reqs, NEW u \in Urls, Call(t, r, u) PROVE UserInv(t)'
    <3>1. pc'[t] = "wait" /\ cur'[t] = r /\ url'[r] = u
      BY <1>0, <2>2 DEF Call, Goto, TypeOK
    <3> QED BY <3>1 DEF UserInv, InCall, Before, Counted, Exiting
  <2>3. CASE WaitReady(t)
    <3>1. pc[t] = "wait" /\ pc'[t] = "count" /\ cur' = cur /\ url' = url
      BY <1>0, <2>3 DEF WaitReady, Goto, TypeOK
    <3> QED BY <2>0, <3>1 DEF UserInv, InCall, Before, Counted, Exiting
  <2>4. CASE Count(t)
    <3>1. pc[t] = "count" /\ pc'[t] \in {"pop", "addUrl"} /\ cur' = cur /\ url' = url /\ num'[t] = IoNum
      BY <1>0, <2>4 DEF Count, Goto, TypeOK
    <3>2. num'[t] \in 0 .. IoNum
      BY <1>0, <3>1
    <3> QED BY <2>0, <3>1, <3>2 DEF UserInv, InCall, Before, Counted, Exiting
  <2>5. CASE Pop(t)
    <3>1. pc[t] = "pop" /\ pc'[t] \in {"slot", "popWait", "addUrl"} /\ cur' = cur /\ url' = url
      BY <1>0, <2>5 DEF Pop, Goto, TypeOK
    <3>2. num'[t] \in 0 .. IoNum
      <4>1. url[cur[t]] \in Urls /\ num[t] \in 0 .. IoNum
        BY <2>0, <3>1 DEF UserInv, InCall, Counted
      <4>2. pool[url[cur[t]]] \in Pool
        BY <1>0, <4>1 DEF TypeOK
      <4>3. CASE pool[url[cur[t]]].queue # <<>>
        <5>1. Head(pool[url[cur[t]]].queue) \in Ios
          BY <4>2, <4>3 DEF Pool
        <5>2. num'[t] = Head(pool[url[cur[t]]].queue)
          BY <1>0, <2>5, <4>3 DEF Pop
        <5> QED BY <1>0, <5>1, <5>2
      <4>4. CASE pool[url[cur[t]]].queue = <<>>
        BY <2>5, <4>1, <4>4 DEF Pop
      <4> QED BY <4>3, <4>4
    <3> QED BY <2>0, <3>1, <3>2 DEF UserInv, InCall, Before, Counted, Exiting
  <2>6. CASE AddUrl(t) \/ Insert(t)
    <3>1. pc[t] \in {"addUrl", "insert"} /\ pc'[t] \in {"slot", "insert"} /\ cur' = cur /\ url' = url /\ num' = num
      BY <1>0, <2>6 DEF AddUrl, Insert, Goto, TypeOK
    <3> QED BY <2>0, <3>1 DEF UserInv, InCall, Before, Counted, Exiting
  <2>7. CASE Slot(t)
    <3>1. CASE Target(t) \in slots
      <4>1. pc[t] = "slot" /\ pc'[t] = "push" /\ cur' = cur /\ url' = url /\ num'[t] = Target(t)
        BY <1>0, <2>7, <3>1 DEF Slot, Goto, TypeOK
      <4>2. num'[t] \in Ios
        BY <1>0, <3>1, <4>1 DEF TypeOK
      <4>3. num'[t] \in 0 .. IoNum
        BY <1>0, <4>2
      <4> QED BY <2>0, <4>1, <4>2, <4>3 DEF UserInv, InCall, Before, Counted, Exiting
    <3>2. CASE Target(t) \notin slots
      <4>1. pc'[t] = "idle"
        BY <1>0, <2>7, <3>2 DEF Slot, Return, Goto, TypeOK
      <4> QED BY <4>1 DEF UserInv, InCall, Before, Counted, Exiting
    <3> QED BY <3>1, <3>2
  <2>8. CASE Push(t)
    <3>1. pc[t] = "push" /\ pc'[t] \in {"crashed", "pushWait", "wake"} /\ cur' = cur /\ url' = url /\ num' = num
      BY <1>0, <2>8 DEF Push, Goto, TypeOK
    <3> QED BY <2>0, <3>1 DEF UserInv, InCall, Before, Counted, Exiting
  <2>9. CASE Wakeup(t)
    <3>1. pc'[t] \in {"idle", "crashed"}
      BY <1>0, <2>9 DEF Wakeup, Goto, TypeOK
    <3> QED BY <3>1 DEF UserInv, InCall, Before, Counted, Exiting
  <2>10. CASE ExitCall(t)
    <3>1. pc'[t] = "exPoll" /\ isExit'
      BY <1>0, <2>10 DEF ExitCall, Goto, TypeOK
    <3> QED BY <3>1 DEF UserInv, InCall, Before, Counted, Exiting
  <2>11. CASE ExitPoll(t)
    <3>1. pc[t] = "exPoll" /\ pc'[t] = "exJoinWake" /\ isExit' = isExit /\ ioThreadNum # 0 /\ ioThreadNum' = ioThreadNum
      BY <1>0, <2>11 DEF ExitPoll, Goto, TypeOK
    <3>2. ioThreadNum' = IoNum
      BY <1>0, <3>1 DEF TypeOK
    <3> QED BY <2>0, <3>1, <3>2 DEF UserInv, InCall, Before, Counted, Exiting
  <2>12. CASE ExitJoinWake(t) \/ ExitWrite(t) \/ ExitResp(t) \/ ExitNotify(t) \/ ExitJoinCall(t)
    <3>1. pc[t] \in {"exJoinWake", "exWrite", "exResp", "exJoinCall"} /\ isExit' = isExit /\ ioThreadNum' = ioThreadNum
      BY <2>12 DEF ExitJoinWake, ExitWrite, ExitResp, ExitNotify, ExitJoinCall
    <3>2. pc'[t] \in {"exWrite", "exResp", "exJoinCall", "exSpin"}
      <4>1. CASE ExitNotify(t)
        BY <4>1, ExitNotifyWakes DEF Wakes
      <4>2. CASE ~ExitNotify(t)
        BY <1>0, <2>12, <4>2 DEF ExitJoinWake, ExitWrite, ExitResp, ExitJoinCall, Goto, TypeOK
      <4> QED BY <4>1, <4>2
    <3> QED BY <2>0, <3>1, <3>2 DEF UserInv, InCall, Before, Counted, Exiting
  <2>13. CASE ExitSpin(t)
    <3>1. pc[t] = "exSpin" /\ pc'[t] = "exDone" /\ isExit' = isExit /\ ioThreadNum' = ioThreadNum
          /\ exitIothread = ioThreadNum
      BY <1>0, <2>13 DEF ExitSpin, Goto, TypeOK
    <3>2. ioThreadNum = IoNum /\ isExit
      BY <2>0, <3>1 DEF UserInv, Exiting
    <3>3. \A i \in Ios : pc'[i] = "done"
      BY <1>2, <3>1, <3>2, AllDone
    <3> QED BY <3>1, <3>2, <3>3 DEF UserInv, InCall, Before, Counted, Exiting
  <2> QED BY <2>1, <2>2, <2>3, <2>4, <2>5, <2>6, <2>7, <2>8, <2>9, <2>10, <2>11, <2>12, <2>13
          DEF UserStep, RequestStep, ExitStep
<1> QED BY <1>3, <1>4, <1>5, <1>6, <1>7, <1>8 DEF ThreadInv
\* A step of an IO thread moves it, and may wake a waiting thread.
LEMMA IoMoves ==
  ASSUME TypeInv, NEW i \in Ios, IoStep(i) \/ IoReadyFail(i) \/ MultiEvent(i)
  PROVE  Wakes(i, pc'[i]) /\ pc'[i] \in IoPcs
<1>0. i \in Threads /\ \A p \in IoPcs : p \in Pcs
  BY ThreadKinds DEF Pcs
<1>1. {"off", "new", "loop", "pull", "each", "check", "return", "left", "test", "done"} \subseteq IoPcs
      /\ \A n : PullPc(n) \in IoPcs
  BY DEF IoPcs, PullPc
<1>2. back[i] \in IoPcs
  BY <1>1 DEF TypeInv, TypeOK
<1>3. ASSUME \E p \in IoPcs : Wakes(i, p) PROVE Wakes(i, pc'[i]) /\ pc'[i] \in IoPcs
  BY <1>3 DEF Wakes
<1>4. ASSUME NEW p \in IoPcs, Goto(i, p) PROVE Wakes(i, p)
  BY <1>0, <1>4, GotoWakes
<1>5. CASE \E p \in IoPcs : Goto(i, p)
  BY <1>3, <1>4, <1>5
<1>6. CASE \E p \in IoPcs : Deal(i, p)
  BY <1>3, <1>6, DealMoves
<1>7. CASE \E p \in IoPcs : \E r : Respond(i, r, p)
  BY <1>3, <1>7, RespondMoves
<1>8. CASE \E u \in Urls : ReturnConn(i, u)
  BY <1>2, <1>3, <1>8, ReturnMoves DEF ReturnConn
<1>9. CASE Launch(i) \/ SetupFail(i)
  BY <1>1, <1>6, <1>9 DEF Launch, SetupFail
<1>10. CASE SetupFailed(i) \/ \E r \in Reqs : EachAged(i, r) \/ CheckDone(i, r)
  BY <1>1, <1>7, <1>10 DEF SetupFailed, EachAged, CheckDone
<1>11. CASE IoCreate(i) \/ IoReady(i) \/ HandleRead(i) \/ PullNothing(i) \/ EachEnd(i) \/ CheckEnd(i)
            \/ IoLeave(i) \/ IoTest(i) \/ IoReadyFail(i) \/ MultiEvent(i)
  BY <1>1, <1>5, <1>11 DEF IoCreate, IoReady, HandleRead, PullNothing, EachEnd, CheckEnd, IoLeave, IoTest,
                          IoReadyFail, MultiEvent
<1> QED BY <1>8, <1>9, <1>10, <1>11 DEF IoStep

\* What the steps of IO thread i leave alone
LEMMA IoFrame ==
  ASSUME TypeInv, NEW i \in Ios, IoStep(i) \/ IoReadyFail(i) \/ MultiEvent(i)
  PROVE  /\ \A s \in Threads \ {i} : cur'[s] = cur[s] /\ num'[s] = num[s]
         /\ \A j \in Ios \ {i} : /\ wakeupFd'[j] = wakeupFd[j] /\ queueSize'[j] = queueSize[j]
                                 /\ odd'[j] = odd[j] /\ stopped'[j] = stopped[j]
                                 /\ reqQueue'[j] = reqQueue[j] /\ back'[j] = back[j]
                                 /\ running'[j] = running[j] /\ done'[j] = done[j]
         /\ slots \subseteq slots' /\ isExit' = isExit /\ ioThreadNum' = ioThreadNum /\ url' = url
         /\ threadExit' = threadExit /\ asyncNum' = asyncNum /\ answered' = answered
<1> USE DEF mgrVars, ioVars, multiVars, respVars, boundVars
<1>0. /\ cur \in [Threads -> Reqs \cup {NoReq}] /\ num \in [Threads -> Nat]
      /\ wakeupFd \in [Ios -> Nat] /\ queueSize \in [Ios -> Nat] /\ odd \in [Ios -> BOOLEAN]
      /\ stopped \in [Ios -> BOOLEAN] /\ reqQueue \in [Ios -> Seq(Reqs)]
      /\ back \in [Ios -> {"each", "check", "pull"}]
      /\ running \in [Ios -> SUBSET Reqs] /\ done \in [Ios -> SUBSET Reqs] /\ i \in Threads
  BY ThreadKinds DEF TypeInv, TypeOK
<1>1. CASE IoCreate(i) \/ IoReady(i) \/ IoReadyFail(i) \/ HandleRead(i)
  BY <1>0, <1>1 DEF IoCreate, IoReady, IoReadyFail, HandleRead
<1>2. CASE Launch(i)
  BY <1>0, <1>2 DEF Launch, Pulling, Deal, SocketAction
<1>3. CASE SetupFail(i) \/ SetupFailed(i) \/ PullNothing(i)
  BY <1>0, <1>3 DEF SetupFail, Pulling, Deal, SetupFailed, PullNothing
<1>4. CASE \E r \in Reqs : EachAged(i, r) \/ CheckDone(i, r)
  BY <1>0, <1>4 DEF EachAged, CheckDone
<1>5. CASE EachEnd(i) \/ CheckEnd(i) \/ IoLeave(i) \/ IoTest(i)
  BY <1>0, <1>5 DEF EachEnd, CheckEnd, IoLeave, IoTest
<1>6. CASE \E u \in Urls : ReturnConn(i, u)
  BY <1>0, <1>6 DEF ReturnConn
<1>7. CASE MultiEvent(i)
  BY <1>0, <1>7 DEF MultiEvent, SocketAction
<1> QED BY <1>1, <1>2, <1>3, <1>4, <1>5, <1>6, <1>7 DEF IoStep

\* A request with an IO thread has a URL.
LEMMA IoUrl ==
  ASSUME TypeInv, StageInv, NEW i \in Ios, NEW r \in Reqs, IoHas(i, r)
  PROVE  url[r] \in Urls
<1>1. url[r] # NoUrl
  BY DEF StageInv, OneStage, Io
<1> QED BY <1>1 DEF TypeInv, TypeOK

\* The steps of an IO thread
LEMMA ThreadIo ==
  ASSUME TypeInv, ThreadInv, StageInv, NEW i \in Ios, IoStep(i) \/ IoReadyFail(i) \/ MultiEvent(i)
  PROVE  ThreadInv' /\ Onward
<1> USE DEF mgrVars, ioVars, multiVars, respVars, boundVars
<1>0. /\ TypeOK /\ i \in Threads /\ i \notin Users /\ i # Caller /\ i # Waker /\ Users \subseteq Threads
      /\ Ios \subseteq Threads /\ Caller \in Threads
      /\ cur \in [Threads -> Reqs \cup {NoReq}] /\ num \in [Threads -> Nat] /\ IoNum \in Nat
  BY CurlAssumption, ThreadKinds DEF TypeInv, TypeOK
<1>a. IoInv(i)
  BY DEF ThreadInv
<1>1. pc[i] # "done"
  BY DEF IoStep, IoCreate, IoReady, IoReadyFail, HandleRead, Launch, SetupFail, Pulling, SetupFailed, PullNothing,
         EachAged, CheckDone, EachEnd, CheckEnd, ReturnConn, IoLeave, IoTest, MultiEvent
<1>2. /\ \A s \in Users : \/ pc'[s] = pc[s]
                          \/ pc[s] = "popWait" /\ pc'[s] = "pop"
                          \/ pc[s] = "pushWait" /\ pc'[s] = "push"
      /\ \A j \in Ios \ {i} : pc'[j] = pc[j]
      /\ pc'[Caller] = pc[Caller] \/ (pc[Caller] = "asleep" /\ pc'[Caller] = "take")
  BY <1>0, IoMoves DEF Wakes
<1>3. Onward
  BY <1>1, <1>2, IoFrame DEF Onward
<1>4. \A s \in Users : UserInv(s)'
  BY <1>0, <1>2, <1>3, IoFrame, UserKeeps DEF ThreadInv
<1>5. \A j \in Ios \ {i} : IoInv(j)'
  <2> SUFFICES ASSUME NEW j \in Ios \ {i} PROVE IoInv(j)'
    OBVIOUS
  <2>1. /\ pc'[j] = pc[j] /\ cur'[j] = cur[j] /\ num'[j] = num[j] /\ wakeupFd'[j] = wakeupFd[j]
        /\ odd'[j] = odd[j] /\ stopped'[j] = stopped[j] /\ slots \subseteq slots'
    BY <1>0, <1>2, IoFrame
  <2> QED BY <1>3, <2>1, IoKeeps DEF ThreadInv
<1>6. CallerInv'
  BY <1>0, <1>2, IoFrame DEF ThreadInv, CallerInv
<1>7. exitIothread' = Cardinality(IosDone)'
  <2>1. CASE pc'[i] # "done"
    <3>1. exitIothread' = exitIothread
      <4>1. CASE IoTest(i)
        <5>1. ~isExit
          BY <1>0, <2>1, <4>1 DEF IoTest, Goto, TypeOK
        <5> QED BY <4>1, <5>1 DEF IoTest
      <4>2. CASE ~IoTest(i)
        BY <4>2 DEF IoStep, IoCreate, IoReady, IoReadyFail, HandleRead, Launch, SetupFail, SetupFailed,
               PullNothing, EachAged, CheckDone, EachEnd, CheckEnd, ReturnConn, IoLeave, MultiEvent
      <4> QED BY <4>1, <4>2
    <3> QED BY <1>1, <1>2, <2>1, <3>1, DoneKeeps
  <2>2. CASE pc'[i] = "done"
    <3>1. IoTest(i)
      <4>1. \A n : PullPc(n) # "done"
        BY DEF PullPc
      <4>2. back[i] # "done"
        BY <1>0 DEF TypeOK
      <4>3. \A p, q \in IoPcs : Wakes(i, p) /\ Wakes(i, q) => p = q
        BY DEF Wakes
      <4>4. \A p \in IoPcs : (Goto(i, p) \/ Deal(i, p) \/ (\E r : Respond(i, r, p))
                               \/ \E u : NotifyOne(i, p, PoolWaiters(u), "pop")) => p = "done"
        <5>1. ASSUME NEW p \in IoPcs, Wakes(i, p) PROVE p = "done"
          BY <2>2, <5>1 DEF Wakes
        <5>2. \A p \in IoPcs : Goto(i, p) => Wakes(i, p)
          BY <1>0, GotoWakes DEF Pcs
        <5> QED BY <5>1, <5>2, DealMoves, RespondMoves, ReturnMoves
      <4>5. /\ {"new", "loop", "each", "check", "return", "left", "test"} \subseteq IoPcs
            /\ \A n : PullPc(n) \in IoPcs
        BY DEF IoPcs, PullPc
      <4>6. back[i] \in IoPcs
        BY <1>0 DEF TypeOK, IoPcs
      <4> QED BY <4>1, <4>2, <4>4, <4>5, <4>6
              DEF IoStep, IoCreate, IoReady, IoReadyFail, HandleRead, Launch, SetupFail, SetupFailed,
                  PullNothing, EachAged, CheckDone, EachEnd, CheckEnd, ReturnConn, IoLeave, MultiEvent
    <3>2. isExit
      BY <1>0, <2>2, <3>1 DEF IoTest, Goto, TypeOK
    <3>3. exitIothread' = exitIothread + 1
      BY <3>1, <3>2 DEF IoTest
    <3>4. IosDone' = IosDone \cup {i} /\ i \notin IosDone
      BY <1>1, <1>2, <2>2 DEF IosDone
    <3>5. IsFiniteSet(IosDone)
      BY IosFinite, FS_Subset DEF IosDone
    <3>6. Cardinality(IosDone') = Cardinality(IosDone) + 1
      BY <3>4, <3>5, FS_AddElement
    <3> QED BY <3>3, <3>6 DEF ThreadInv
  <2> QED BY <2>1, <2>2
<1>8. IoInv(i)'
  <2>0. i \in slots => i \in slots'
    BY IoFrame
  <2>a. /\ \A r \in Reqs : url'[r] = url[r]
        /\ isExit' = isExit
    BY IoFrame
  <2>b. ASSUME wakeupFd'[i] = wakeupFd[i], odd' = odd, stopped' = stopped, pc'[i] # "done",
               pc[i] # "off",
               pc'[i] = "return" => cur'[i] \in Reqs /\ url[cur'[i]] \in Urls,
               pc'[i] = "pull" => num'[i] > 0
        PROVE  IoInv(i)'
    BY <1>1, <1>a, <2>0, <2>a, <2>b DEF IoInv
  <2>c. \A n : PullPc(n) \in {"pull", "each"} /\ (PullPc(n) = "pull" <=> n > 0)
    BY DEF PullPc
  <2>d. ASSUME NEW p \in IoPcs,
               Goto(i, p) \/ Deal(i, p) \/ (\E r : Respond(i, r, p))
               \/ \E u : NotifyOne(i, p, PoolWaiters(u), "pop")
        PROVE  pc'[i] = p
    BY <1>0, <2>d, GotoWakes, DealMoves, RespondMoves, ReturnMoves DEF Wakes, Pcs
  <2>e. /\ {"off", "new", "loop", "each", "check", "return", "left", "test", "done"} \subseteq IoPcs
        /\ \A n : PullPc(n) \in IoPcs
    BY DEF IoPcs, PullPc
  <2>1. CASE IoCreate(i)
    <3>1. pc'[i] = "new" /\ i \in slots' /\ wakeupFd'[i] = 0 /\ odd' = odd /\ stopped' = stopped
      BY <1>0, <2>1, <2>d, <2>e DEF IoCreate, TypeOK
    <3>2. 0 % 2 # 1
      OBVIOUS
    <3> QED BY <1>a, <2>a, <3>1, <3>2 DEF IoInv
  <2>2. CASE IoReady(i) \/ IoReadyFail(i) \/ IoLeave(i)
    <3>1. pc'[i] \in {"loop", "left", "test"} /\ pc[i] # "off" /\ wakeupFd' = wakeupFd /\ odd' = odd /\ stopped' = stopped
      BY <2>2, <2>d, <2>e DEF IoReady, IoReadyFail, IoLeave
    <3> QED BY <2>b, <3>1
  <2>3. CASE HandleRead(i)
    <3>1. pc[i] = "loop" /\ pc'[i] = PullPc(queueSize'[i]) /\ num'[i] = queueSize'[i] /\ stopped' = stopped
      BY <1>0, <2>3, <2>d, <2>e DEF HandleRead
    <3>2. wakeupFd'[i] = 0 /\ odd'[i] = (wakeupFd[i] % 2 = 1)
      BY <1>0, <2>3 DEF HandleRead, TypeOK
    <3>3. 0 % 2 # 1
      OBVIOUS
    <3> QED BY <1>a, <2>0, <2>a, <2>c, <3>1, <3>2, <3>3 DEF IoInv
  <2>4. CASE Launch(i)
    <3>1. pc[i] = "pull" /\ pc'[i] = PullPc(num[i] - 1) /\ num'[i] = num[i] - 1 /\ wakeupFd' = wakeupFd /\ odd' = odd
          /\ stopped' = stopped
      BY <1>0, <2>4, <2>d, <2>e DEF Launch, Pulling
    <3> QED BY <2>b, <2>c, <3>1
  <2>5. CASE SetupFail(i)
    <3>1. pc[i] = "pull" /\ pc'[i] = "return" /\ cur'[i] = Head(reqQueue[i]) /\ wakeupFd' = wakeupFd /\ odd' = odd
          /\ stopped' = stopped /\ reqQueue[i] # <<>> /\ reqQueue[i] \in Seq(Reqs)
      BY <1>0, <2>5, <2>d, <2>e DEF SetupFail, Pulling, TypeOK
    <3>2. Head(reqQueue[i]) \in Reqs /\ Has(reqQueue[i], Head(reqQueue[i]))
      BY <3>1, TailHas
    <3>3. url[Head(reqQueue[i])] \in Urls
      BY <3>2, IoUrl DEF IoHas
    <3> QED BY <2>b, <3>1, <3>2, <3>3
  <2>6. CASE SetupFailed(i)
    <3>1. pc[i] = "return" /\ pc'[i] = PullPc(num[i]) /\ num' = num /\ wakeupFd' = wakeupFd /\ odd' = odd
          /\ stopped' = stopped
      BY <1>0, <2>6, <2>d, <2>e DEF SetupFailed
    <3> QED BY <2>b, <2>c, <3>1
  <2>7. CASE PullNothing(i)
    <3>1. pc[i] = "pull" /\ pc'[i] = "each" /\ wakeupFd' = wakeupFd /\ odd' = odd /\ stopped' = stopped
      BY <1>0, <2>7, <2>d, <2>e DEF PullNothing, Pulling
    <3> QED BY <2>b, <3>1
  <2>8. ASSUME NEW r \in Reqs, EachAged(i, r) \/ CheckDone(i, r) PROVE IoInv(i)'
    <3>1. pc[i] \in {"each", "check"} /\ pc'[i] = "return" /\ cur'[i] = r /\ wakeupFd' = wakeupFd /\ odd' = odd
          /\ stopped' = stopped /\ r \in Held(i)
      BY <1>0, <2>8, <2>d, <2>e DEF EachAged, CheckDone, Held
    <3>2. url[r] \in Urls
      BY <3>1, IoUrl DEF IoHas
    <3> QED BY <2>b, <3>1, <3>2
  <2>9. CASE EachEnd(i)
    <3>1. pc[i] = "each" /\ pc'[i] \in {"left", "loop"} /\ wakeupFd' = wakeupFd
      BY <2>9, <2>d, <2>e DEF EachEnd
    <3>2. ~odd'[i] /\ (stopped'[i] => stopped[i] \/ odd[i])
      BY <1>0, <2>9 DEF EachEnd, TypeOK
    <3> QED BY <1>a, <2>0, <2>a, <3>1, <3>2 DEF IoInv
  <2>10. CASE CheckEnd(i)
    <3>1. pc[i] = "check" /\ pc'[i] = PullPc(queueSize[i]) /\ num'[i] = queueSize[i] /\ wakeupFd' = wakeupFd /\ odd' = odd
          /\ stopped' = stopped
      BY <1>0, <2>10, <2>d, <2>e DEF CheckEnd
    <3> QED BY <2>b, <2>c, <3>1
  <2>11. ASSUME NEW u \in Urls, ReturnConn(i, u) PROVE IoInv(i)'
    <3>1. back[i] \in IoPcs /\ back[i] \notin {"done", "return", "pull"}
      BY <1>0, <2>11 DEF ReturnConn, TypeOK, IoPcs
    <3>2. pc[i] = "return" /\ pc'[i] = back[i] /\ wakeupFd' = wakeupFd /\ odd' = odd /\ stopped' = stopped
      BY <2>11, <2>d, <3>1 DEF ReturnConn
    <3> QED BY <2>b, <3>1, <3>2
  <2>12. CASE IoTest(i)
    <3>1. pc[i] = "test" /\ pc'[i] = (IF isExit THEN "done" ELSE "off") /\ wakeupFd' = wakeupFd /\ odd' = odd
          /\ stopped' = stopped
      BY <2>12, <2>d, <2>e DEF IoTest
    <3> QED BY <1>a, <2>a, <3>1 DEF IoInv
  <2>13. CASE MultiEvent(i)
    <3>1. pc[i] = "loop" /\ pc'[i] = "check" /\ wakeupFd' = wakeupFd /\ odd' = odd /\ stopped' = stopped
      BY <2>13, <2>d, <2>e DEF MultiEvent
    <3> QED BY <2>b, <3>1
  <2> QED BY <2>1, <2>2, <2>3, <2>4, <2>5, <2>6, <2>7, <2>8, <2>9, <2>10, <2>11, <2>12, <2>13 DEF IoStep
<1> QED BY <1>3, <1>4, <1>5, <1>6, <1>7, <1>8 DEF ThreadInv
\* The other steps leave the callers and the IO threads alone, but for a wake-up
\* of a caller that nobody asked for.
LEMMA OtherFrame ==
  ASSUME TypeInv, OtherStep
  PROVE  /\ \A s \in Threads \ {Caller} : cur'[s] = cur[s]
         /\ \A s \in Threads \ {Waker} : num'[s] = num[s]
         /\ \A s \in Users : \/ pc'[s] = pc[s]
                             \/ pc[s] = "popWait" /\ pc'[s] = "pop"
                             \/ pc[s] = "pushWait" /\ pc'[s] = "push"
         /\ \A i \in Ios : pc'[i] = pc[i]
         /\ \A i \in Ios : wakeupFd'[i] = wakeupFd[i] \/ wakeupFd'[i] = wakeupFd[i] + 2
         /\ UNCHANGED <<isExit, threadExit, ioThreadNum, readyIothread, exitIothread, started, lastIndex,
                        slots, queueSize, reqQueue, odd, stopped, back, running, done, still, pool,
                        respExit, url, boundVars>>
<1> USE DEF mgrVars, ioVars, multiVars, respVars
<1>0. /\ cur \in [Threads -> Reqs \cup {NoReq}] /\ num \in [Threads -> Nat] /\ pc \in [Threads -> Pcs]
      /\ wakeupFd \in [Ios -> Nat] /\ Caller \in Threads /\ Waker \in Threads
      /\ Users \subseteq Threads \ {Caller, Waker} /\ Ios \subseteq Threads \ {Caller, Waker}
  BY ThreadKinds DEF TypeInv, TypeOK, Pcs
<1>1. CASE CallerStep
  BY <1>0, <1>1 DEF CallerStep, CallerTake, CallerSleep, CallerRsp, CallerCall, Goto
<1>2. CASE WakerWrite
  <2>1. wakeupFd' = [wakeupFd EXCEPT ![num[Waker]] = IF num[Waker] \in slots /\ FdOpen(num[Waker]) THEN @ + 2 ELSE @]
    BY <1>2 DEF WakerWrite
  <2>2. \A i \in Ios : wakeupFd'[i] = wakeupFd[i] \/ wakeupFd'[i] = wakeupFd[i] + 2
    BY <1>0, <2>1, Written
  <2>3. \A s \in Threads \ {Waker} : num'[s] = num[s]
    BY <1>0, <1>2 DEF WakerWrite
  <2> QED BY <1>2, <2>2, <2>3 DEF WakerWrite
<1>3. CASE WakerEnd
  BY <1>0, <1>3 DEF WakerEnd, Goto
<1>4. CASE \E r \in Reqs : Age(r)
  BY <1>4 DEF Age
<1>5. ASSUME NEW t \in Users \cup {Caller}, WakeUnasked(t)
      PROVE  /\ \A s \in Users : \/ pc'[s] = pc[s]
                                 \/ pc[s] = "popWait" /\ pc'[s] = "pop"
                                 \/ pc[s] = "pushWait" /\ pc'[s] = "push"
             /\ \A i \in Ios : pc'[i] = pc[i]
  <2>1. PICK p \in Pcs : /\ Goto(t, p)
                         /\ \/ t \in Users /\ pc[t] = "popWait" /\ p = "pop"
                            \/ t \in Users /\ pc[t] = "pushWait" /\ p = "push"
                            \/ t = Caller /\ pc[t] = "asleep" /\ p = "take"
    BY <1>5, UnaskedMoves
  <2>2. pc'[t] = p /\ \A s \in Threads \ {t} : pc'[s] = pc[s]
    BY <1>0, <2>1 DEF Goto
  <2>3. CASE t = Caller
    BY <1>0, <2>2, <2>3
  <2>4. CASE t \in Users
    BY <1>0, <2>1, <2>2, <2>4, ThreadKinds
  <2> QED BY <2>3, <2>4
<1>6. CASE \E t \in Users \cup {Caller} : WakeUnasked(t)
  BY <1>5, <1>6 DEF WakeUnasked
<1> QED BY <1>1, <1>2, <1>3, <1>4, <1>6 DEF OtherStep, WakerStep

\* The other steps keep what the places say.
LEMMA ThreadOther ==
  ASSUME TypeInv, ThreadInv, OtherStep
  PROVE  ThreadInv' /\ Onward
<1>0. /\ Caller \in Threads /\ Users \subseteq Threads \ {Caller, Waker} /\ Ios \subseteq Threads \ {Caller, Waker}
      /\ cur \in [Threads -> Reqs \cup {NoReq}] /\ pc \in [Threads -> Pcs]
      /\ \A i \in Ios : wakeupFd[i] \in Nat
  BY ThreadKinds DEF TypeInv, TypeOK, Pcs
<1>1. Onward
  BY OtherFrame DEF Onward
<1>2. \A s \in Users : UserInv(s)'
  BY <1>0, <1>1, OtherFrame, UserKeeps DEF ThreadInv
<1>3. ASSUME NEW i \in Ios PROVE IoInv(i)'
  <2>1. wakeupFd'[i] = wakeupFd[i] \/ wakeupFd'[i] = wakeupFd[i] + 2
    BY OtherFrame
  <2>2. wakeupFd'[i] % 2 = wakeupFd[i] % 2
    BY <1>0, <2>1, Halves
  <2>3. /\ pc'[i] = pc[i] /\ cur'[i] = cur[i] /\ num'[i] = num[i]
        /\ odd' = odd /\ stopped' = stopped /\ slots' = slots
    BY <1>0, OtherFrame
  <2> QED BY <1>1, <2>2, <2>3, IoKeeps DEF ThreadInv
<1>4. exitIothread' = Cardinality(IosDone)'
  BY OtherFrame, DoneKeeps
<1>5. CallerInv'
  <2>1. CASE CallerTake
    <3>1. CASE respQueue # <<>>
      <4>1. cur'[Caller] = Head(respQueue) /\ respQueue \in Seq(Reqs)
        BY <1>0, <2>1, <3>1 DEF CallerTake, TypeInv, TypeOK
      <4>2. Head(respQueue) \in Reqs
        BY <3>1, <4>1
      <4> QED BY <4>1, <4>2 DEF CallerInv
    <3>2. CASE respQueue = <<>>
      <4>1. pc'[Caller] \in {"done", "take", "sleep"}
        BY <1>0, <2>1, <3>2 DEF CallerTake, NextTurn, Goto
      <4> QED BY <4>1 DEF CallerInv
    <3> QED BY <3>1, <3>2
  <2>2. CASE CallerSleep \/ CallerCall
    <3>1. pc'[Caller] \in {"asleep", "done", "take"}
      BY <1>0, <2>2 DEF CallerSleep, CallerCall, NextTurn, Goto
    <3> QED BY <3>1 DEF CallerInv
  <2>3. CASE CallerRsp
    <3>1. pc[Caller] = "rsp" /\ cur' = cur
      BY <2>3 DEF CallerRsp
    <3> QED BY <3>1 DEF ThreadInv, CallerInv
  <2>4. CASE WakerStep \/ \E r \in Reqs : Age(r)
    <3>1. pc'[Caller] = pc[Caller] /\ cur' = cur
      BY <1>0, <2>4, ThreadKinds DEF WakerStep, WakerWrite, WakerEnd, Age, Goto
    <3> QED BY <3>1 DEF ThreadInv, CallerInv
  <2>5. ASSUME NEW t \in Users \cup {Caller}, WakeUnasked(t) PROVE CallerInv'
    <3>1. pc'[Caller] = pc[Caller] \/ pc'[Caller] = "take"
      BY <1>0, <2>5, UnaskedMoves DEF Goto
    <3>2. cur' = cur
      BY <2>5 DEF WakeUnasked
    <3> QED BY <3>1, <3>2 DEF ThreadInv, CallerInv
  <2> QED BY <2>1, <2>2, <2>3, <2>4, <2>5 DEF OtherStep, CallerStep
<1> QED BY <1>1, <1>2, <1>3, <1>4, <1>5 DEF ThreadInv
-----------------------------------------------------------------------------
(* The IO threads that are ready                                            *)

\* The numbers of IO threads that are on
LEMMA OnCount ==
  /\ IsFiniteSet(On) /\ Cardinality(On) \in 0 .. IoNum /\ IoNum \in Nat
  /\ Cardinality(On) = IoNum => On = Ios
  /\ \A i \in Ios : i \notin On => Cardinality(On \cup {i}) = Cardinality(On) + 1
  /\ \A i \in On : Cardinality(On \ {i}) = Cardinality(On) - 1
<1>1. On \in SUBSET Ios /\ IsFiniteSet(Ios) /\ Cardinality(Ios) = IoNum /\ IoNum \in Nat
  BY IosFinite DEF On
<1>2. IsFiniteSet(On) /\ Cardinality(On) <= Cardinality(Ios) /\ (Cardinality(On) = Cardinality(Ios) => On = Ios)
  BY <1>1, FS_Subset
<1>3. Cardinality(On) \in Nat
  BY <1>2, FS_CardinalityType
<1>4. \A i \in Ios : i \notin On => Cardinality(On \cup {i}) = Cardinality(On) + 1
  BY <1>2, FS_AddElement
<1>5. \A i \in On : Cardinality(On \ {i}) = Cardinality(On) - 1
  BY <1>2, FS_RemoveElement
<1> QED BY <1>1, <1>2, <1>3, <1>4, <1>5

\* A call that finds readyIothread right finds all IO threads ready.
LEMMA ReadyMeansSettled ==
  ASSUME TypeInv, ReadyInv, ioThreadNum # 0, readyIothread = ioThreadNum
  PROVE  Settled
<1>1. readyIothread = IoNum /\ readyFails \in 0 .. MaxReadyFail
  BY DEF TypeInv, TypeOK
<1>2. MaxReadyFail \in Nat /\ UMod \in Nat /\ UMod > IoNum + MaxReadyFail
  BY CurlAssumption
<1>3. Cardinality(On) \in 0 .. IoNum /\ IoNum \in Nat
  BY OnCount
<1>4. Cardinality(On) - readyFails = IoNum \/ Cardinality(On) - readyFails + UMod = IoNum
  BY <1>1 DEF ReadyInv, ReadyCount
<1>5. Cardinality(On) = IoNum /\ readyFails = 0
  BY <1>1, <1>2, <1>3, <1>4
<1>6. On = Ios
  BY <1>5, OnCount
<1>7. \A i \in Ios : pc[i] = "left" => isExit
  BY <1>5 DEF ReadyInv
<1> QED BY <1>6, <1>7 DEF Settled, On, OnPcs

\* The steps of a caller and the other steps do not move the IO threads.
LEMMA ReadyKeeps ==
  ASSUME ReadyInv, isExit => isExit', \A i \in Ios : pc'[i] = pc[i],
         UNCHANGED <<readyIothread, readyFails>>
  PROVE  ReadyCount' /\ (\A i \in Ios : pc'[i] = "left" /\ readyFails' = 0 => isExit') /\ (Settled => Settled')
<1>1. On' = On
  BY DEF On
<1> QED BY <1>1 DEF ReadyInv, ReadyCount, Settled

\* The steps of a caller
LEMMA ReadyUser ==
  ASSUME TypeInv, ReadyInv, NEW t \in Users, UserStep(t)
  PROVE  ReadyInv'
<1>1. /\ isExit => isExit'
      /\ UNCHANGED <<readyIothread, readyFails>>
      /\ reqQueue' = reqQueue \/ Push(t)
  BY UserFrame
<1>2. \A i \in Ios : pc'[i] = pc[i]
  BY UserMoves, ThreadKinds DEF Wakes
<1>3. ReadyCount' /\ (\A i \in Ios : pc'[i] = "left" /\ readyFails' = 0 => isExit') /\ (Settled => Settled')
  BY <1>1, <1>2, ReadyKeeps
<1>4. (\E i \in Ios : reqQueue'[i] # <<>>) => Settled
  BY <1>1 DEF Push, ReadyInv, Counted
<1>5. ASSUME NEW s \in Users, pc'[s] \in Counted \cup {"count", "wake"} PROVE Settled
  <2>1. CASE s # t
    <3>1. pc'[s] = pc[s]
      BY <2>1, UserMoves
    <3> QED BY <1>5, <3>1 DEF ReadyInv
  <2>2. CASE s = t /\ WaitReady(t)
    BY <2>2, ReadyMeansSettled DEF WaitReady
  <2>3. CASE s = t /\ (Count(t) \/ Pop(t) \/ AddUrl(t) \/ Insert(t) \/ Slot(t) \/ Push(t) \/ Wakeup(t))
    <3>1. pc[t] \in Counted \cup {"count", "wake"}
      BY <2>3 DEF Count, Pop, AddUrl, Insert, Slot, Push, Wakeup, Counted
    <3> QED BY <3>1 DEF ReadyInv
  <2>4. ASSUME s = t, ~RequestStep(t) PROVE FALSE
    <3>0. pc \in [Threads -> Pcs] /\ t \in Threads
      BY ThreadKinds DEF TypeInv, TypeOK, Pcs
    <3>1. pc'[t] \in {"init", "idle", "wait", "exPoll", "exJoinWake", "exWrite", "exResp", "exJoinCall", "exSpin", "exDone"}
      <4>1. CASE ExitNotify(t)
        BY <4>1, ExitNotifyWakes DEF Wakes
      <4>2. CASE ~ExitNotify(t)
        BY <2>4, <3>0, <4>2 DEF UserStep, ExitStep, InitStart, InitDone, ExitCall, Call, ExitPoll, ExitJoinWake,
                         ExitWrite, ExitResp, ExitJoinCall, ExitSpin, Goto
      <4> QED BY <4>1, <4>2
    <3> QED BY <1>5, <2>4, <3>1 DEF Counted
  <2> QED BY <2>1, <2>2, <2>3, <2>4 DEF RequestStep
<1> QED BY <1>3, <1>4, <1>5 DEF ReadyInv

\* The other steps
LEMMA ReadyOther ==
  ASSUME TypeInv, ReadyInv, OtherStep
  PROVE  ReadyInv'
<1>1. /\ isExit' = isExit /\ reqQueue' = reqQueue
      /\ UNCHANGED <<readyIothread, readyFails>>
      /\ \A i \in Ios : pc'[i] = pc[i]
      /\ \A s \in Users : \/ pc'[s] = pc[s]
                          \/ pc[s] = "popWait" /\ pc'[s] = "pop"
                          \/ pc[s] = "pushWait" /\ pc'[s] = "push"
  BY OtherFrame DEF boundVars
<1>2. ReadyCount' /\ (\A i \in Ios : pc'[i] = "left" /\ readyFails' = 0 => isExit') /\ (Settled => Settled')
  BY <1>1, ReadyKeeps
<1>3. \A s \in Users : pc'[s] \in Counted \cup {"count", "wake"} => pc[s] \in Counted \cup {"count", "wake"}
  BY <1>1 DEF Counted
<1> QED BY <1>1, <1>2, <1>3 DEF ReadyInv
\* Where an IO thread's step leads
LEMMA IoGoes ==
  ASSUME TypeInv, NEW i \in Ios, IoStep(i) \/ IoReadyFail(i) \/ MultiEvent(i)
  PROVE  \/ IoCreate(i) /\ pc[i] = "off" /\ pc'[i] = "new"
         \/ IoReady(i) /\ pc[i] = "new" /\ pc'[i] = "loop"
         \/ IoReadyFail(i) /\ pc[i] = "new" /\ pc'[i] = "left"
         \/ IoLeave(i) /\ pc[i] = "left" /\ pc'[i] = "test"
         \/ IoTest(i) /\ pc[i] = "test" /\ pc'[i] = (IF isExit THEN "done" ELSE "off")
         \/ EachEnd(i) /\ pc[i] = "each" /\ pc'[i] = "left"
         \/ /\ pc[i] \in OnPcs \ {"left"} /\ pc'[i] \in OnPcs \ {"left"}
            /\ UNCHANGED <<readyIothread, readyFails>>
<1> USE DEF mgrVars, ioVars, multiVars, respVars, boundVars
<1>0. i \in Threads
  BY ThreadKinds
<1>1. ASSUME NEW p \in IoPcs,
             Goto(i, p) \/ Deal(i, p) \/ (\E r : Respond(i, r, p))
             \/ \E u : NotifyOne(i, p, PoolWaiters(u), "pop")
      PROVE  pc'[i] = p
  BY <1>0, <1>1, GotoWakes, DealMoves, RespondMoves, ReturnMoves DEF Wakes, Pcs
<1>2. /\ {"off", "new", "loop", "each", "check", "return", "left", "test", "done"} \subseteq IoPcs
      /\ \A n : PullPc(n) \in IoPcs /\ PullPc(n) \in {"pull", "each"}
  BY DEF IoPcs, PullPc
<1>3. CASE IoCreate(i) \/ IoReady(i) \/ IoReadyFail(i) \/ IoLeave(i) \/ IoTest(i)
  BY <1>1, <1>2, <1>3 DEF IoCreate, IoReady, IoReadyFail, IoLeave, IoTest
<1>4. CASE EachEnd(i)
  <2>1. pc[i] = "each" /\ pc'[i] \in {"left", "loop"} /\ UNCHANGED <<readyIothread, readyFails>>
    BY <1>1, <1>2, <1>4 DEF EachEnd
  <2> QED BY <1>4, <2>1 DEF OnPcs
<1>5. CASE HandleRead(i) \/ Launch(i) \/ SetupFail(i) \/ SetupFailed(i) \/ PullNothing(i) \/ CheckEnd(i) \/ MultiEvent(i)
  <2>1. pc[i] \in {"loop", "pull", "return", "check"} /\ pc'[i] \in {"pull", "each", "return", "check"}
        /\ UNCHANGED <<readyIothread, readyFails>>
    BY <1>1, <1>2, <1>5 DEF HandleRead, Launch, Pulling, SetupFail, SetupFailed, PullNothing, CheckEnd, MultiEvent
  <2> QED BY <2>1 DEF OnPcs
<1>6. CASE \E r \in Reqs : EachAged(i, r) \/ CheckDone(i, r)
  <2>1. pc[i] \in {"each", "check"} /\ pc'[i] = "return" /\ UNCHANGED <<readyIothread, readyFails>>
    BY <1>1, <1>2, <1>6 DEF EachAged, CheckDone
  <2> QED BY <2>1 DEF OnPcs
<1>7. CASE \E u \in Urls : ReturnConn(i, u)
  <2>1. back[i] \in {"each", "check", "pull"} /\ back[i] \in IoPcs
    BY DEF TypeInv, TypeOK, IoPcs
  <2>2. pc[i] = "return" /\ pc'[i] \in {"each", "check", "pull"} /\ UNCHANGED <<readyIothread, readyFails>>
    BY <1>1, <1>7, <2>1 DEF ReturnConn
  <2> QED BY <2>2 DEF OnPcs
<1> QED BY <1>3, <1>4, <1>5, <1>6, <1>7 DEF IoStep

\* The steps of an IO thread
LEMMA ReadyIo ==
  ASSUME TypeInv, ThreadInv, ReadyInv, NEW i \in Ios, IoStep(i) \/ IoReadyFail(i) \/ MultiEvent(i)
  PROVE  ReadyInv' /\ (Settled => Settled')
<1> USE DEF mgrVars, ioVars, multiVars, respVars, boundVars
<1>0. /\ \A j \in Ios \ {i} : pc'[j] = pc[j]
      /\ \A s \in Users : \/ pc'[s] = pc[s]
                          \/ pc[s] = "popWait" /\ pc'[s] = "pop"
                          \/ pc[s] = "pushWait" /\ pc'[s] = "push"
  BY IoMoves, ThreadKinds DEF Wakes
<1>1. isExit' = isExit /\ \A j \in Ios \ {i} : reqQueue'[j] = reqQueue[j]
  BY IoFrame
<1>2. \A s \in Users : pc'[s] \in Counted \cup {"count", "wake"} => pc[s] \in Counted \cup {"count", "wake"}
  BY <1>0 DEF Counted
<1>3. EachEnd(i) /\ pc'[i] = "left" => isExit
  <2> SUFFICES ASSUME EachEnd(i), pc'[i] = "left" PROVE isExit
    OBVIOUS
  <2>1. stopped'[i]
    BY ThreadKinds DEF EachEnd, Goto, TypeInv, TypeOK
  <2>2. stopped[i] \/ odd[i]
    BY <2>1 DEF EachEnd, TypeInv, TypeOK
  <2> QED BY <2>2 DEF ThreadInv, IoInv
<1>4. Settled => Settled'
  <2> SUFFICES ASSUME Settled PROVE Settled'
    OBVIOUS
  <2>1. pc'[i] \notin {"off", "new"} /\ (pc'[i] \in {"left", "test"} => isExit)
    BY <1>3, IoGoes DEF Settled, OnPcs
  <2> QED BY <1>0, <1>1, <2>1 DEF Settled
<1>5. reqQueue'[i] # <<>> => reqQueue[i] # <<>>
  <2>1. CASE IoReady(i)
    BY <2>1 DEF IoReady, TypeInv, TypeOK
  <2>2. CASE Launch(i) \/ SetupFail(i)
    BY <2>2 DEF Launch, SetupFail
  <2>3. CASE ~IoReady(i) /\ ~Launch(i) /\ ~SetupFail(i)
    BY <2>3 DEF IoStep, IoCreate, IoReadyFail, HandleRead, SetupFailed, PullNothing, EachAged, CheckDone,
           EachEnd, CheckEnd, ReturnConn, IoLeave, IoTest, MultiEvent
  <2> QED BY <2>1, <2>2, <2>3
<1>6. \A j \in Ios : pc'[j] = "left" /\ readyFails' = 0 => isExit'
  <2> SUFFICES ASSUME NEW j \in Ios, pc'[j] = "left", readyFails' = 0 PROVE isExit
    BY <1>1
  <2>0. readyFails \in Nat
    BY DEF TypeInv, TypeOK
  <2>1. readyFails = 0 /\ ~IoReadyFail(i)
    <3>1. readyFails' = readyFails \/ readyFails' = readyFails + 1
      BY DEF IoStep, IoCreate, IoReady, IoReadyFail, HandleRead, Launch, SetupFail, SetupFailed, PullNothing,
             EachAged, CheckDone, EachEnd, CheckEnd, ReturnConn, IoLeave, IoTest, MultiEvent
    <3>2. IoReadyFail(i) => readyFails' = readyFails + 1
      BY DEF IoReadyFail
    <3> QED BY <2>0, <3>1, <3>2
  <2>2. CASE j # i
    BY <1>0, <2>1, <2>2 DEF ReadyInv
  <2>3. CASE j = i
    BY <1>3, <2>1, <2>3, IoGoes
  <2> QED BY <2>2, <2>3
<1>7. ReadyCount'
  <2>0. /\ readyIothread \in 0 .. UMod - 1 /\ readyFails \in 0 .. MaxReadyFail /\ MaxReadyFail \in Nat
        /\ UMod \in Nat /\ UMod > IoNum + MaxReadyFail /\ IoNum \in Nat /\ Cardinality(On) \in 0 .. IoNum
    BY CurlAssumption, OnCount DEF TypeInv, TypeOK
  <2>1. readyIothread = Cardinality(On) - readyFails \/ readyIothread = Cardinality(On) - readyFails + UMod
    BY DEF ReadyInv, ReadyCount
  <2>2. CASE On' = On /\ UNCHANGED <<readyIothread, readyFails>>
    BY <2>1, <2>2 DEF ReadyCount
  <2>3. CASE IoReady(i) /\ pc[i] = "new" /\ pc'[i] = "loop"
    <3>1. On' = On \cup {i} /\ i \notin On
      BY <1>0, <2>3 DEF On, OnPcs
    <3>2. Cardinality(On') = Cardinality(On) + 1
      BY <3>1, OnCount
    <3>3. Cardinality(On) + 1 <= IoNum
      <4>1. (On \cup {i}) \in SUBSET Ios /\ IsFiniteSet(Ios) /\ Cardinality(Ios) = IoNum
        BY IosFinite DEF On
      <4> QED BY <3>1, <3>2, <4>1, FS_Subset
    <3>4. readyIothread' = (readyIothread + 1) % UMod /\ readyFails' = readyFails
      BY <2>3 DEF IoReady
    <3>5. (readyIothread + 1) % UMod = IF readyIothread + 1 = UMod THEN 0 ELSE readyIothread + 1
      <4>1. CASE readyIothread + 1 = UMod
        BY <2>0, <4>1
      <4>2. CASE readyIothread + 1 # UMod
        BY <2>0, <4>2
      <4> QED BY <4>1, <4>2
    <3>6. \/ readyIothread' = (Cardinality(On) + 1) - readyFails
          \/ readyIothread' = (Cardinality(On) + 1) - readyFails + UMod
      BY <2>0, <2>1, <3>3, <3>4, <3>5
    <3>7. readyFails' = readyFails
      BY <3>4
    <3> QED BY <3>2, <3>6, <3>7 DEF ReadyCount
  <2>4. CASE IoReadyFail(i) /\ pc[i] = "new" /\ pc'[i] = "left"
    <3>1. On' = On \cup {i} /\ i \notin On
      BY <1>0, <2>4 DEF On, OnPcs
    <3>2. Cardinality(On') = Cardinality(On) + 1
      BY <3>1, OnCount
    <3>3. readyIothread' = readyIothread /\ readyFails' = readyFails + 1
      BY <2>4 DEF IoReadyFail
    <3>4. \/ readyIothread' = (Cardinality(On) + 1) - (readyFails + 1)
          \/ readyIothread' = (Cardinality(On) + 1) - (readyFails + 1) + UMod
      BY <2>0, <2>1, <3>3
    <3> QED BY <3>2, <3>3, <3>4 DEF ReadyCount
  <2>5. CASE IoLeave(i) /\ pc[i] = "left" /\ pc'[i] = "test"
    <3>1. On' = On \ {i} /\ i \in On
      BY <1>0, <2>5 DEF On, OnPcs
    <3>2. Cardinality(On') = Cardinality(On) - 1
      BY <3>1, OnCount
    <3>3. readyIothread' = (IF readyIothread = 0 THEN UMod - 1 ELSE readyIothread - 1) /\ readyFails' = readyFails
      BY <2>5 DEF IoLeave, Decremented
    <3>4. \/ readyIothread' = Cardinality(On) - 1 - readyFails
          \/ readyIothread' = Cardinality(On) - 1 - readyFails + UMod
      BY <2>0, <2>1, <3>3
    <3> QED BY <3>2, <3>3, <3>4 DEF ReadyCount
  <2>6. CASE IoCreate(i) \/ IoTest(i) \/ EachEnd(i)
    <3>1. pc[i] \in OnPcs <=> pc'[i] \in OnPcs
      BY <2>6, IoGoes DEF OnPcs, IoCreate, IoTest, EachEnd
    <3>2. On' = On
      BY <1>0, <3>1 DEF On
    <3> QED BY <2>2, <2>6, <3>2 DEF IoCreate, IoTest, EachEnd
  <2>7. CASE pc[i] \in OnPcs \ {"left"} /\ pc'[i] \in OnPcs \ {"left"} /\ UNCHANGED <<readyIothread, readyFails>>
    <3>1. On' = On
      BY <1>0, <2>7 DEF On
    <3> QED BY <2>2, <2>7, <3>1
  <2> QED BY <2>3, <2>4, <2>5, <2>6, <2>7, IoGoes
<1> QED BY <1>0, <1>1, <1>2, <1>4, <1>5, <1>6, <1>7 DEF ReadyInv
-----------------------------------------------------------------------------
(* The wake-ups                                                             *)

\* The callers that have pushed to IO thread i and not yet written its eventfd
Pending(i) == {t \in Users : pc[t] = "wake" /\ num[t] = i}
Enough(i) == Len(reqQueue[i]) <= queueSize[i] + wakeupFd[i] \div 2 + Cardinality(Pending(i))

\* The numbers in Enough
LEMMA PendingCount ==
  ASSUME TypeInv, NEW i \in Ios
  PROVE  /\ IsFiniteSet(Pending(i)) /\ Cardinality(Pending(i)) \in Nat
         /\ Len(reqQueue[i]) \in Nat /\ queueSize[i] \in Nat /\ wakeupFd[i] \in Nat /\ wakeupFd[i] \div 2 \in Nat
<1>1. IsFiniteSet(Pending(i))
  BY CurlAssumption, FS_Subset DEF Pending
<1>2. reqQueue[i] \in Seq(Reqs) /\ queueSize[i] \in Nat /\ wakeupFd[i] \in Nat
  BY DEF TypeInv, TypeOK
<1>3. Cardinality(Pending(i)) \in Nat
  BY <1>1, FS_CardinalityType
<1>4. Len(reqQueue[i]) \in Nat
  BY <1>2
<1>5. wakeupFd[i] \div 2 \in Nat
  BY <1>2, Halves
<1> QED BY <1>1, <1>2, <1>3, <1>4, <1>5

\* An IO thread whose queue and credit the step leaves alone
LEMMA EnoughKeeps ==
  ASSUME TypeInv, NEW i \in Ios, Enough(i), Pending(i)' = Pending(i), reqQueue'[i] = reqQueue[i],
         queueSize'[i] = queueSize[i], wakeupFd'[i] \in {wakeupFd[i], wakeupFd[i] + 1, wakeupFd[i] + 2}
  PROVE  Enough(i)'
<1>1. /\ Cardinality(Pending(i)) \in Nat /\ Len(reqQueue[i]) \in Nat /\ queueSize[i] \in Nat
      /\ wakeupFd[i] \in Nat /\ wakeupFd[i] \div 2 \in Nat
  BY PendingCount
<1>2. wakeupFd'[i] \div 2 >= wakeupFd[i] \div 2 /\ wakeupFd'[i] \div 2 \in Nat
  BY <1>1, HalvesGrow
<1>3. Len(reqQueue[i]) <= queueSize[i] + wakeupFd[i] \div 2 + Cardinality(Pending(i))
  BY DEF Enough
<1>4. Len(reqQueue[i]) <= queueSize[i] + wakeupFd'[i] \div 2 + Cardinality(Pending(i))
  BY <1>1, <1>2, <1>3, MoreIsEnough
<1> QED BY <1>4 DEF Enough

\* The steps of a caller
LEMMA StrandUser ==
  ASSUME TypeInv, ThreadInv, NoStrandedRequest, NEW t \in Users, UserStep(t)
  PROVE  NoStrandedRequest'
<1> SUFFICES ASSUME NEW i \in Ios, FdOpen(i)' PROVE Enough(i)'
  BY DEF NoStrandedRequest, Enough, Pending
<1>0. t \in Threads /\ pc \in [Threads -> Pcs] /\ num \in [Threads -> Nat] /\ Users \subseteq Threads
  BY ThreadKinds DEF TypeInv, TypeOK, Pcs
<1>1. /\ \A s \in Users \ {t} : pc'[s] = pc[s] /\ num'[s] = num[s]
      /\ queueSize' = queueSize /\ (reqQueue' = reqQueue \/ Push(t))
      /\ (wakeupFd' = wakeupFd \/ Wakeup(t) \/ ExitWrite(t))
  BY <1>0, UserMoves, UserFrame
<1>2. pc'[i] = pc[i]
  BY UserMoves, ThreadKinds DEF Wakes
<1>3. FdOpen(i)
  BY <1>2 DEF FdOpen
<1>4. Enough(i)
  BY <1>3 DEF NoStrandedRequest, Enough, Pending
<1>5. /\ IsFiniteSet(Pending(i)) /\ Cardinality(Pending(i)) \in Nat
      /\ Len(reqQueue[i]) \in Nat /\ queueSize[i] \in Nat /\ wakeupFd[i] \in Nat /\ wakeupFd[i] \div 2 \in Nat
  BY PendingCount
<1>a. i \in slots
  BY <1>3 DEF ThreadInv, IoInv, FdOpen
<1>b. wakeupFd \in [Ios -> Nat] /\ reqQueue \in [Ios -> Seq(Reqs)]
  BY DEF TypeInv, TypeOK
<1>6. CASE Push(t)
  <2>0. pc[t] = "push" /\ num' = num /\ wakeupFd' = wakeupFd /\ cur[t] \in Reqs
    BY <1>6 DEF Push, ThreadInv, UserInv, InCall, Counted, multiVars, respVars, mgrVars, boundVars
  <2>1. CASE num[t] = i /\ pc'[t] = "wake"
    <3>1. Pending(i)' = Pending(i) \cup {t} /\ t \notin Pending(i)
      BY <1>1, <2>0, <2>1 DEF Pending
    <3>2. Cardinality(Pending(i)') = Cardinality(Pending(i)) + 1
      BY <1>5, <3>1, FS_AddElement
    <3>3. reqQueue' = [reqQueue EXCEPT ![i] = Append(reqQueue[i], cur[t])]
      BY <1>0, <1>6, <2>1 DEF Push, Goto
    <3>4. reqQueue'[i] = Append(reqQueue[i], cur[t]) /\ reqQueue[i] \in Seq(Reqs)
      BY <1>b, <3>3
    <3>5. Len(reqQueue'[i]) = Len(reqQueue[i]) + 1
      BY <2>0, <3>4
    <3>6. Len(reqQueue[i]) + 1 <= queueSize[i] + wakeupFd[i] \div 2 + (Cardinality(Pending(i)) + 1)
      BY <1>4, <1>5 DEF Enough
    <3> QED BY <1>1, <2>0, <3>2, <3>5, <3>6 DEF Enough
  <2>2. CASE ~(num[t] = i /\ pc'[t] = "wake")
    <3>1. Pending(i)' = Pending(i)
      BY <1>1, <2>0, <2>2 DEF Pending
    <3>2. reqQueue'[i] = reqQueue[i]
      BY <1>0, <1>6, <1>b, <2>2 DEF Push, Goto
    <3> QED BY <1>1, <1>4, <2>0, <3>1, <3>2, EnoughKeeps
  <2> QED BY <2>1, <2>2
<1>7. CASE Wakeup(t)
  <2>0. pc[t] = "wake" /\ pc'[t] # "wake" /\ reqQueue' = reqQueue
    BY <1>0, <1>7 DEF Wakeup, Goto, multiVars, respVars, mgrVars, boundVars
  <2>1. wakeupFd' = [wakeupFd EXCEPT ![num[t]] = IF num[t] \in slots /\ FdOpen(num[t]) THEN @ + 2 ELSE @]
    BY <1>7 DEF Wakeup
  <2>2. CASE num[t] = i
    <3>1. Pending(i)' = Pending(i) \ {t} /\ t \in Pending(i)
      BY <1>1, <2>0, <2>2 DEF Pending
    <3>2. Cardinality(Pending(i)') = Cardinality(Pending(i)) - 1
      BY <1>5, <3>1, FS_RemoveElement
    <3>3. wakeupFd'[i] = wakeupFd[i] + 2
      BY <1>3, <1>a, <1>b, <2>1, <2>2, Written
    <3>4. wakeupFd'[i] \div 2 = wakeupFd[i] \div 2 + 1
      BY <1>5, <3>3, Halves
    <3>5. Len(reqQueue[i]) <= queueSize[i] + (wakeupFd[i] \div 2 + 1) + (Cardinality(Pending(i)) - 1)
      BY <1>4, <1>5 DEF Enough
    <3> QED BY <1>1, <2>0, <3>2, <3>4, <3>5 DEF Enough
  <2>3. CASE num[t] # i
    <3>1. Pending(i)' = Pending(i)
      BY <1>1, <2>0, <2>3 DEF Pending
    <3>2. wakeupFd'[i] = wakeupFd[i]
      BY <1>b, <2>1, <2>3, Written
    <3> QED BY <1>1, <1>4, <2>0, <3>1, <3>2, EnoughKeeps
  <2> QED BY <2>2, <2>3
<1>8. CASE ~Push(t) /\ ~Wakeup(t)
  <2>1. pc[t] # "wake" /\ pc'[t] # "wake"
    <3>1. CASE ExitNotify(t)
      BY <3>1, ExitNotifyWakes DEF Wakes, ExitNotify
    <3>2. CASE ~ExitNotify(t)
      BY <1>0, <1>8, <3>2 DEF UserStep, RequestStep, ExitStep, InitStart, InitDone, ExitCall, Call, WaitReady,
             Count, Pop, AddUrl, Insert, Slot, Return, ExitPoll, ExitJoinWake, ExitWrite, ExitResp,
             ExitJoinCall, ExitSpin, Goto
    <3> QED BY <3>1, <3>2
  <2>2. Pending(i)' = Pending(i)
    BY <1>1, <2>1 DEF Pending
  <2>3. wakeupFd'[i] \in {wakeupFd[i], wakeupFd[i] + 1}
    <3>1. CASE ExitWrite(t)
      <4>1. wakeupFd' = [wakeupFd EXCEPT ![num[t]] = IF num[t] \in slots /\ FdOpen(num[t]) THEN @ + 1 ELSE @]
        BY <3>1 DEF ExitWrite
      <4>2. CASE num[t] = i
        BY <1>b, <4>1, <4>2, Written
      <4>3. CASE num[t] # i
        BY <1>b, <4>1, <4>3, Written
      <4> QED BY <4>2, <4>3
    <3>2. CASE ~ExitWrite(t)
      BY <1>1, <1>8, <3>2
    <3> QED BY <3>1, <3>2
  <2> QED BY <1>1, <1>4, <1>8, <2>2, <2>3, EnoughKeeps
<1> QED BY <1>6, <1>7, <1>8

\* The steps of an IO thread
LEMMA StrandIo ==
  ASSUME TypeInv, ThreadInv, ReadyInv, NoStrandedRequest,
         NEW i \in Ios, IoStep(i) \/ IoReadyFail(i) \/ MultiEvent(i)
  PROVE  NoStrandedRequest'
<1> SUFFICES ASSUME NEW j \in Ios, FdOpen(j)' PROVE Enough(j)'
  BY DEF NoStrandedRequest, Enough, Pending
<1> USE DEF mgrVars, ioVars, multiVars, respVars, boundVars
<1>1. Pending(j)' = Pending(j)
  <2>1. \A s \in Users : num'[s] = num[s] /\ (pc'[s] = "wake" <=> pc[s] = "wake")
    BY IoMoves, IoFrame, ThreadKinds DEF Wakes
  <2> QED BY <2>1 DEF Pending
<1>2. CASE j # i
  <2>1. /\ pc'[j] = pc[j] /\ reqQueue'[j] = reqQueue[j] /\ queueSize'[j] = queueSize[j]
        /\ wakeupFd'[j] = wakeupFd[j]
    BY <1>2, IoMoves, IoFrame, ThreadKinds DEF Wakes
  <2>2. Enough(j)
    BY <2>1 DEF NoStrandedRequest, Enough, Pending, FdOpen
  <2> QED BY <1>1, <2>1, <2>2, EnoughKeeps
<1>3. CASE j = i
  <2>0. /\ Cardinality(Pending(i)) \in Nat /\ Len(reqQueue[i]) \in Nat /\ queueSize[i] \in Nat
        /\ wakeupFd[i] \in Nat /\ wakeupFd[i] \div 2 \in Nat
    BY PendingCount
  <2>a. /\ wakeupFd \in [Ios -> Nat] /\ reqQueue \in [Ios -> Seq(Reqs)] /\ queueSize \in [Ios -> Nat]
        /\ num \in [Threads -> Nat] /\ reqQueue[i] \in Seq(Reqs)
    BY DEF TypeInv, TypeOK
  <2>b. FdOpen(i) => Enough(i)
    BY DEF NoStrandedRequest, Enough, Pending
  <2>c. 0 \div 2 = 0 /\ Len(<<>>) = 0
    OBVIOUS
  <2>1. CASE IoCreate(i)
    <3>1. reqQueue[i] = <<>>
      BY <2>1 DEF IoCreate, ReadyInv, Settled
    <3>2. reqQueue' = reqQueue /\ wakeupFd'[i] = 0 /\ queueSize'[i] = 0
      BY <2>1, <2>a DEF IoCreate
    <3>3. 0 <= 0 + 0 + Cardinality(Pending(i))
      BY <2>0
    <3> QED BY <1>1, <1>3, <2>c, <3>1, <3>2, <3>3 DEF Enough
  <2>2. CASE IoReady(i)
    <3>1. reqQueue'[i] = <<>> /\ wakeupFd' = wakeupFd /\ queueSize' = queueSize
      BY <2>2, <2>a DEF IoReady
    <3>2. 0 <= queueSize[i] + wakeupFd[i] \div 2 + Cardinality(Pending(i))
      BY <2>0
    <3> QED BY <1>1, <1>3, <2>c, <3>1, <3>2 DEF Enough
  <2>3. CASE HandleRead(i)
    <3>1. Enough(i)
      BY <2>3, <2>b DEF HandleRead, FdOpen
    <3>2. reqQueue' = reqQueue /\ wakeupFd'[i] = 0 /\ queueSize'[i] = queueSize[i] + wakeupFd[i] \div 2
      BY <2>3, <2>a DEF HandleRead
    <3>3. Len(reqQueue[i]) <= (queueSize[i] + wakeupFd[i] \div 2) + 0 + Cardinality(Pending(i))
      BY <2>0, <3>1 DEF Enough
    <3> QED BY <1>1, <1>3, <2>c, <3>2, <3>3 DEF Enough
  <2>4. CASE Launch(i) \/ SetupFail(i)
    <3>1. Enough(i)
      BY <2>4, <2>b DEF Launch, SetupFail, Pulling, FdOpen
    <3>2. /\ reqQueue[i] # <<>> /\ reqQueue'[i] = Tail(reqQueue[i]) /\ wakeupFd' = wakeupFd
          /\ queueSize'[i] = IF queueSize[i] > 0 THEN queueSize[i] - 1 ELSE queueSize[i]
      BY <2>4, <2>a DEF Launch, SetupFail, Pulling, Deal
    <3>3. Len(reqQueue'[i]) = Len(reqQueue[i]) - 1
      BY <2>a, <3>2
    <3>4. Len(reqQueue[i]) - 1 <= queueSize'[i] + wakeupFd[i] \div 2 + Cardinality(Pending(i))
      BY <2>0, <3>1, <3>2 DEF Enough
    <3> QED BY <1>1, <1>3, <3>2, <3>3, <3>4 DEF Enough
  <2>5. CASE PullNothing(i)
    <3>1. reqQueue[i] = <<>> /\ reqQueue' = reqQueue /\ wakeupFd' = wakeupFd
          /\ queueSize'[i] = IF queueSize[i] > 0 THEN queueSize[i] - 1 ELSE queueSize[i]
      BY <2>5, <2>a DEF PullNothing, Pulling
    <3>2. 0 <= queueSize'[i] + wakeupFd[i] \div 2 + Cardinality(Pending(i))
      BY <2>0, <3>1
    <3> QED BY <1>1, <1>3, <2>c, <3>1, <3>2 DEF Enough
  <2>6. CASE ~IoCreate(i) /\ ~IoReady(i) /\ ~HandleRead(i) /\ ~Launch(i) /\ ~SetupFail(i) /\ ~PullNothing(i)
    <3>1. reqQueue' = reqQueue /\ wakeupFd' = wakeupFd /\ queueSize' = queueSize
      BY <2>6 DEF IoStep, IoReadyFail, SetupFailed, EachAged, CheckDone, EachEnd, CheckEnd, ReturnConn,
             IoLeave, IoTest, MultiEvent
    <3>2. FdOpen(i)
      BY <1>3, <2>6, IoGoes DEF FdOpen, OnPcs
    <3> QED BY <1>1, <1>3, <2>b, <3>1, <3>2, EnoughKeeps
  <2> QED BY <2>1, <2>2, <2>3, <2>4, <2>5, <2>6
<1> QED BY <1>2, <1>3

\* The other steps
LEMMA StrandOther ==
  ASSUME TypeInv, NoStrandedRequest, OtherStep
  PROVE  NoStrandedRequest'
<1> SUFFICES ASSUME NEW i \in Ios, FdOpen(i)' PROVE Enough(i)'
  BY DEF NoStrandedRequest, Enough, Pending
<1>1. \A s \in Users : num'[s] = num[s] /\ (pc'[s] = "wake" <=> pc[s] = "wake")
  BY OtherFrame, ThreadKinds
<1>2. Pending(i)' = Pending(i)
  BY <1>1 DEF Pending
<1>3. pc'[i] = pc[i] /\ reqQueue' = reqQueue /\ queueSize' = queueSize
      /\ wakeupFd'[i] \in {wakeupFd[i], wakeupFd[i] + 2}
  BY OtherFrame
<1>4. Enough(i)
  BY <1>3 DEF NoStrandedRequest, Enough, Pending, FdOpen
<1> QED BY <1>2, <1>3, <1>4, EnoughKeeps
-----------------------------------------------------------------------------
(* The stages of a request                                                  *)

\* A request that the step leaves where it was, or takes out of sight
LEMMA StageKeeps ==
  ASSUME NEW r \in Reqs, OneStage(r), url'[r] = url[r], answered'[r] = answered[r],
         \A t \in Users : OnHand(t, r)' => OnHand(t, r),
         \A i \in Ios : IoHas(i, r)' => IoHas(i, r),
         \A i \in Ios : Inner(i, r)',
         Resp(r)' => Resp(r), Once(respQueue', r), Called(r)' => Called(r)
  PROVE  OneStage(r)'
<1>1. (Hand(r)' => Hand(r)) /\ (Io(r)' => Io(r)) /\ OneHand(r)' /\ OneIo(r)'
  BY DEF Hand, Io, OneHand, OneIo, OneStage
<1> QED BY <1>1 DEF OneStage

\* The steps of IO thread i leave the callers, the callback thread and the
\* other IO threads with the requests they have.
LEMMA IoAside ==
  ASSUME TypeInv, NEW i \in Ios, IoStep(i) \/ IoReadyFail(i) \/ MultiEvent(i)
  PROVE  /\ \A s \in Users : cur'[s] = cur[s] /\ (pc'[s] \in Counted <=> pc[s] \in Counted)
                             /\ (pc'[s] = "crashed" <=> pc[s] = "crashed")
         /\ \A s \in Users, r \in Reqs : OnHand(s, r)' <=> OnHand(s, r)
         /\ \A r \in Reqs : (Called(r)' <=> Called(r)) /\ (InRsp(r)' <=> InRsp(r))
         /\ \A j \in Ios \ {i}, r \in Reqs : (IoHas(j, r)' <=> IoHas(j, r)) /\ (Inner(j, r)' <=> Inner(j, r))
<1>1. /\ \A s \in Users : \/ pc'[s] = pc[s]
                          \/ pc[s] = "popWait" /\ pc'[s] = "pop"
                          \/ pc[s] = "pushWait" /\ pc'[s] = "push"
      /\ \A j \in Ios \ {i} : pc'[j] = pc[j]
      /\ pc'[Caller] = pc[Caller] \/ (pc[Caller] = "asleep" /\ pc'[Caller] = "take")
  BY IoMoves, ThreadKinds DEF Wakes
<1>2. \A s \in Threads \ {i} : cur'[s] = cur[s]
  BY IoFrame
<1>3. \A j \in Ios \ {i} : /\ reqQueue'[j] = reqQueue[j] /\ back'[j] = back[j]
                           /\ running'[j] = running[j] /\ done'[j] = done[j] /\ cur'[j] = cur[j]
  BY IoFrame, ThreadKinds
<1>4. \A s \in Users : cur'[s] = cur[s] /\ (pc'[s] \in Counted <=> pc[s] \in Counted)
                       /\ (pc'[s] \in InCall <=> pc[s] \in InCall)
                       /\ (pc'[s] = "crashed" <=> pc[s] = "crashed")
  BY <1>1, <1>2, ThreadKinds DEF InCall, Counted
<1>5. cur'[Caller] = cur[Caller]
  BY <1>2, ThreadKinds
<1>6. \A r \in Reqs : (Called(r)' <=> Called(r)) /\ (InRsp(r)' <=> InRsp(r))
  BY <1>1, <1>5 DEF Called, InRsp
<1>7. \A j \in Ios \ {i}, r \in Reqs : (IoHas(j, r)' <=> IoHas(j, r)) /\ (Inner(j, r)' <=> Inner(j, r))
  BY <1>1, <1>3 DEF IoHas, Inner, GaveUp, Held
<1> QED BY <1>4, <1>6, <1>7 DEF OnHand

\* What a step of IO thread i does with its requests: it keeps them all, or
\* responds to one.
Inside(i) ==
  /\ respQueue' = respQueue
  /\ \A r \in Reqs : (IoHas(i, r)' <=> IoHas(i, r)) /\ Inner(i, r)'
Responds(i, x) ==
  /\ respQueue' = Append(respQueue, x) /\ IoHas(i, x)
  /\ \A r \in Reqs : (IoHas(i, r)' <=> IoHas(i, r) /\ r # x) /\ Inner(i, r)'

LEMMA IoEffect ==
  ASSUME TypeInv, ThreadInv, ReadyInv, StageInv, NEW i \in Ios, IoStep(i) \/ IoReadyFail(i) \/ MultiEvent(i)
  PROVE  Inside(i) \/ \E x \in Reqs : Responds(i, x)
<1> USE DEF mgrVars, ioVars, multiVars, respVars, boundVars
<1>0. /\ running \in [Ios -> SUBSET Reqs] /\ done \in [Ios -> SUBSET Reqs]
      /\ reqQueue \in [Ios -> Seq(Reqs)] /\ reqQueue[i] \in Seq(Reqs)
      /\ back \in [Ios -> {"each", "check", "pull"}] /\ cur \in [Threads -> Reqs \cup {NoReq}]
      /\ i \in Threads
  BY ThreadKinds DEF TypeInv, TypeOK
<1>1. ASSUME NEW p \in IoPcs,
             Goto(i, p) \/ Deal(i, p) \/ (\E r : Respond(i, r, p))
             \/ \E u : NotifyOne(i, p, PoolWaiters(u), "pop")
      PROVE  pc'[i] = p
  BY <1>0, <1>1, GotoWakes, DealMoves, RespondMoves, ReturnMoves DEF Wakes, Pcs
<1>2. /\ {"off", "new", "loop", "each", "check", "return", "left", "test", "done"} \subseteq IoPcs
      /\ \A n : PullPc(n) \in IoPcs /\ PullPc(n) \in {"pull", "each"}
  BY DEF IoPcs, PullPc
<1>3. \A r \in Reqs : Inner(i, r)
  BY DEF StageInv, OneStage
<1>4. ASSUME reqQueue'[i] = reqQueue[i], running'[i] = running[i], done'[i] = done[i], respQueue' = respQueue,
             pc'[i] # "return", pc[i] # "return" \/ back[i] # "pull"
      PROVE  Inside(i)
  BY <1>3, <1>4 DEF Inside, IoHas, Inner, GaveUp, Held
<1>5. CASE IoCreate(i) \/ IoReadyFail(i) \/ HandleRead(i) \/ EachEnd(i) \/ CheckEnd(i) \/ IoLeave(i) \/ IoTest(i)
  BY <1>1, <1>2, <1>4, <1>5 DEF IoCreate, IoReadyFail, HandleRead, EachEnd, CheckEnd, IoLeave, IoTest
<1>6. CASE IoReady(i)
  <2>1. reqQueue[i] = <<>>
    BY <1>6 DEF IoReady, ReadyInv, Settled
  <2>2. reqQueue'[i] = <<>>
    BY <1>0, <1>6 DEF IoReady
  <2> QED BY <1>1, <1>2, <1>4, <1>6, <2>1, <2>2 DEF IoReady
<1>7. CASE PullNothing(i)
  BY <1>1, <1>2, <1>4, <1>7 DEF PullNothing, Pulling
<1>8. CASE \E u \in Urls : ReturnConn(i, u)
  <2>1. back[i] \in IoPcs /\ back[i] # "return"
    BY <1>0 DEF IoPcs
  <2> QED BY <1>1, <1>4, <1>8, <2>1 DEF ReturnConn
<1>9. CASE MultiEvent(i)
  <2>1. pc[i] = "loop" /\ pc'[i] = "check" /\ reqQueue' = reqQueue /\ respQueue' = respQueue
    BY <1>1, <1>2, <1>9 DEF MultiEvent
  <2>2. PICK D \in SUBSET running[i] : SocketAction(i, running[i], D)
    BY <1>9 DEF MultiEvent
  <2>3. running'[i] = running[i] \ D /\ done'[i] = done[i] \cup D
    BY <1>0, <2>2 DEF SocketAction
  <2>4. Held(i)' = Held(i)
    BY <2>3 DEF Held
  <2>5. \A r \in Reqs : IoHas(i, r)' <=> IoHas(i, r)
    BY <2>1, <2>4 DEF IoHas, GaveUp
  <2>6. \A r \in Reqs : ~(r \in running'[i] /\ r \in done'[i])
    BY <1>3, <2>3 DEF Inner
  <2>7. \A r \in Reqs : Inner(i, r)'
    BY <1>3, <2>1, <2>4, <2>6 DEF Inner, GaveUp
  <2> QED BY <2>1, <2>5, <2>7 DEF Inside
<1>10. CASE Launch(i)
  <2> DEFINE h == Head(reqQueue[i])
  <2>1. pc[i] = "pull" /\ pc'[i] \in {"pull", "each"} /\ reqQueue[i] # <<>> /\ respQueue' = respQueue
    BY <1>1, <1>2, <1>10 DEF Launch, Pulling
  <2>2. PICK D \in SUBSET (running[i] \cup {h}) : SocketAction(i, running[i] \cup {h}, D)
    BY <1>10 DEF Launch
  <2>3. running'[i] = (running[i] \cup {h}) \ D /\ done'[i] = done[i] \cup D
    BY <1>0, <2>2 DEF SocketAction
  <2>4. reqQueue'[i] = Tail(reqQueue[i])
    BY <1>0, <1>10 DEF Launch, Deal
  <2>5. /\ h \in Reqs
        /\ \A r \in Reqs : /\ Has(reqQueue[i], r) <=> Has(reqQueue'[i], r) \/ h = r
                           /\ Once(reqQueue[i], r) => Once(reqQueue'[i], r) /\ (h = r => ~Has(reqQueue'[i], r))
    BY <1>0, <2>1, <2>4, TailHas
  <2> HIDE DEF h
  <2>6. Held(i)' = Held(i) \cup {h}
    BY <2>2, <2>3 DEF Held
  <2>7. \A r \in Reqs : IoHas(i, r)' <=> IoHas(i, r)
    BY <2>1, <2>5, <2>6 DEF IoHas, GaveUp
  <2>8. ASSUME NEW r \in Reqs PROVE Inner(i, r)'
    <3>1. Inner(i, r) /\ Inner(i, h)
      BY <1>3, <2>5
    <3>2. Once(reqQueue'[i], r) /\ ~(Has(reqQueue'[i], r) /\ r \in Held(i)')
      BY <2>5, <2>6, <3>1 DEF Inner
    <3>3. ~(r \in running'[i] /\ r \in done'[i])
      <4>1. h \notin done[i]
        BY <2>5, <3>1 DEF Inner, Held
      <4> QED BY <2>3, <3>1, <4>1 DEF Inner
    <3>4. ~GaveUp(i, r)'
      BY <2>1 DEF GaveUp
    <3> QED BY <3>2, <3>3, <3>4 DEF Inner
  <2> QED BY <2>1, <2>7, <2>8 DEF Inside
<1>11. CASE SetupFail(i)
  <2> DEFINE h == Head(reqQueue[i])
  <2>1. pc[i] = "pull" /\ pc'[i] = "return" /\ reqQueue[i] # <<>> /\ respQueue' = respQueue
        /\ running' = running /\ done' = done
    BY <1>1, <1>2, <1>11 DEF SetupFail, Pulling
  <2>2. cur'[i] = h /\ back'[i] = "pull"
    BY <1>0, <1>11 DEF SetupFail
  <2>3. reqQueue'[i] = Tail(reqQueue[i])
    BY <1>0, <1>11 DEF SetupFail, Deal
  <2>4. /\ h \in Reqs
        /\ \A r \in Reqs : /\ Has(reqQueue[i], r) <=> Has(reqQueue'[i], r) \/ h = r
                           /\ Once(reqQueue[i], r) => Once(reqQueue'[i], r) /\ (h = r => ~Has(reqQueue'[i], r))
    BY <1>0, <2>1, <2>3, TailHas
  <2> HIDE DEF h
  <2>5. Held(i)' = Held(i)
    BY <2>1 DEF Held
  <2>6. \A r \in Reqs : GaveUp(i, r)' <=> r = h
    BY <2>1, <2>2 DEF GaveUp
  <2>7. \A r \in Reqs : IoHas(i, r)' <=> IoHas(i, r)
    BY <2>1, <2>4, <2>5, <2>6 DEF IoHas, GaveUp
  <2>8. \A r \in Reqs : Inner(i, r)'
    BY <1>3, <2>1, <2>4, <2>5, <2>6 DEF Inner
  <2> QED BY <2>1, <2>7, <2>8 DEF Inside
<1>12. CASE SetupFailed(i)
  <2>1. /\ pc[i] = "return" /\ back[i] = "pull" /\ pc'[i] \in {"pull", "each"}
        /\ respQueue' = Append(respQueue, cur[i])
        /\ reqQueue' = reqQueue /\ running' = running /\ done' = done
    BY <1>1, <1>2, <1>12 DEF SetupFailed, Respond
  <2>2. cur[i] \in Reqs
    BY <2>1 DEF ThreadInv, IoInv
  <2>3. \A r \in Reqs : (GaveUp(i, r) <=> r = cur[i]) /\ ~GaveUp(i, r)'
    BY <2>1 DEF GaveUp
  <2>4. Held(i)' = Held(i)
    BY <2>1 DEF Held
  <2>5. \A r \in Reqs : IoHas(i, r)' <=> IoHas(i, r) /\ r # cur[i]
    BY <1>3, <2>1, <2>3, <2>4 DEF IoHas, Inner
  <2>6. \A r \in Reqs : Inner(i, r)'
    BY <1>3, <2>1, <2>3, <2>4 DEF Inner
  <2>7. IoHas(i, cur[i])
    BY <2>2, <2>3 DEF IoHas
  <2> QED BY <2>1, <2>2, <2>5, <2>6, <2>7 DEF Responds
<1>13. ASSUME NEW x \in Reqs, EachAged(i, x) \/ CheckDone(i, x)
       PROVE  Responds(i, x)
  <2>1. /\ pc[i] \in {"each", "check"} /\ pc'[i] = "return" /\ respQueue' = Append(respQueue, x)
        /\ reqQueue' = reqQueue /\ x \in Held(i)
    BY <1>1, <1>2, <1>13 DEF EachAged, CheckDone, Respond, Held
  <2>2. back'[i] # "pull"
    BY <1>0, <1>13 DEF EachAged, CheckDone
  <2>3. Held(i)' = Held(i) \ {x} /\ running'[i] \subseteq running[i] /\ done'[i] \subseteq done[i]
    <3>1. CASE EachAged(i, x)
      BY <1>0, <3>1 DEF EachAged, Held
    <3>2. CASE CheckDone(i, x)
      <4>1. x \in done[i] /\ running' = running /\ done'[i] = done[i] \ {x}
        BY <1>0, <3>2 DEF CheckDone
      <4>2. x \notin running[i]
        BY <1>3, <4>1 DEF Inner
      <4> QED BY <4>1, <4>2 DEF Held
    <3> QED BY <1>13, <3>1, <3>2
  <2>4. \A r \in Reqs : ~GaveUp(i, r) /\ ~GaveUp(i, r)'
    BY <2>1, <2>2 DEF GaveUp
  <2>5. \A r \in Reqs : IoHas(i, r)' <=> IoHas(i, r) /\ r # x
    BY <1>3, <2>1, <2>3, <2>4 DEF IoHas, Inner
  <2>6. \A r \in Reqs : Inner(i, r)'
    BY <1>3, <2>1, <2>3, <2>4 DEF Inner
  <2> QED BY <2>1, <2>5, <2>6 DEF Responds, IoHas
<1> QED BY <1>5, <1>6, <1>7, <1>8, <1>9, <1>10, <1>11, <1>12, <1>13 DEF IoStep
\* The steps of an IO thread
LEMMA StageIo ==
  ASSUME TypeInv, ThreadInv, ReadyInv, StageInv, NEW i \in Ios, IoStep(i) \/ IoReadyFail(i) \/ MultiEvent(i)
  PROVE  StageInv'
<1> SUFFICES ASSUME NEW r \in Reqs PROVE OneStage(r)'
  BY DEF StageInv
<1>1. OneStage(r) /\ respQueue \in Seq(Reqs)
  BY DEF StageInv, TypeInv, TypeOK
<1>2. url' = url /\ answered' = answered
  BY IoFrame
<1>3. /\ \A s \in Users : OnHand(s, r)' <=> OnHand(s, r)
      /\ Called(r)' <=> Called(r)
      /\ \A j \in Ios \ {i} : (IoHas(j, r)' <=> IoHas(j, r)) /\ (Inner(j, r)' <=> Inner(j, r))
  BY IoAside
<1>4. \A j \in Ios \ {i} : Inner(j, r)'
  BY <1>1, <1>3 DEF OneStage
<1>5. CASE Inside(i)
  <2>1. (IoHas(i, r)' <=> IoHas(i, r)) /\ Inner(i, r)' /\ respQueue' = respQueue
    BY <1>5 DEF Inside
  <2>2. (Resp(r)' <=> Resp(r)) /\ Once(respQueue', r)
    BY <1>1, <2>1 DEF Resp, OneStage
  <2> QED BY <1>1, <1>2, <1>3, <1>4, <2>1, <2>2, StageKeeps
<1>6. ASSUME NEW x \in Reqs, Responds(i, x) PROVE OneStage(r)'
  <2>1. (IoHas(i, r)' <=> IoHas(i, r) /\ r # x) /\ Inner(i, r)' /\ respQueue' = Append(respQueue, x) /\ IoHas(i, x)
    BY <1>6 DEF Responds
  <2>2. CASE r # x
    <3>1. (Resp(r)' <=> Resp(r)) /\ Once(respQueue', r)
      BY <1>1, <2>1, <2>2, AppendHas DEF Resp, OneStage
    <3> QED BY <1>1, <1>2, <1>3, <1>4, <2>1, <3>1, StageKeeps
  <2>3. CASE r = x
    <3>1. Io(r) /\ url[r] # NoUrl /\ ~Hand(r) /\ ~Resp(r) /\ ~Called(r) /\ answered[r] = 0
      BY <1>1, <2>1, <2>3 DEF Io, OneStage
    <3>2. \A j \in Ios : ~IoHas(j, r)'
      BY <1>1, <1>3, <2>1, <2>3 DEF OneStage, OneIo
    <3>3. ~Io(r)' /\ OneIo(r)'
      BY <3>2 DEF Io, OneIo
    <3>4. ~Hand(r)' /\ OneHand(r)'
      BY <1>3, <3>1 DEF Hand, OneHand
    <3>5. Once(respQueue', r)
      BY <1>1, <2>1, <2>3, <3>1, AppendHas DEF Resp, OneStage
    <3> QED BY <1>2, <1>3, <1>4, <2>1, <3>1, <3>3, <3>4, <3>5 DEF OneStage
  <2> QED BY <2>2, <2>3
<1> QED BY <1>5, <1>6, IoEffect

\* What a step of caller t does with its request: it makes it, goes on with it,
\* queues it, drops it, or is at something else.
Makes(t, x) ==
  /\ url[x] = NoUrl /\ url' = [url EXCEPT ![x] = url'[x]] /\ url'[x] # NoUrl /\ reqQueue' = reqQueue
  /\ pc[t] \notin InCall /\ pc'[t] \in Before /\ cur'[t] = x
GoesOn(t) ==
  /\ url' = url /\ reqQueue' = reqQueue
  /\ pc[t] \in InCall /\ pc'[t] \in InCall /\ cur'[t] = cur[t]
Queues(t, i) ==
  /\ url' = url /\ reqQueue' = [reqQueue EXCEPT ![i] = Append(reqQueue[i], cur[t])]
  /\ pc[t] \in Counted /\ pc'[t] \notin InCall /\ cur[t] \in Reqs
Drops(t) ==
  /\ url' = url /\ reqQueue' = reqQueue
  /\ pc[t] \in Counted /\ pc'[t] \notin InCall
  /\ (Slot(t) /\ pc'[t] = "idle") \/ (Push(t) /\ pc'[t] = "crashed")
Elsewhere(t) ==
  /\ url' = url /\ reqQueue' = reqQueue
  /\ pc[t] \notin InCall /\ pc'[t] \notin InCall

LEMMA UserEffect ==
  ASSUME TypeInv, ThreadInv, NEW t \in Users, UserStep(t)
  PROVE  \/ \E x \in Reqs : Makes(t, x)
         \/ GoesOn(t) \/ Drops(t) \/ Elsewhere(t)
         \/ \E i \in Ios : Queues(t, i) /\ Push(t) /\ pc'[t] = "wake"
<1> USE DEF mgrVars, ioVars, multiVars, respVars, boundVars
<1>0. /\ t \in Threads /\ pc \in [Threads -> Pcs] /\ cur \in [Threads -> Reqs \cup {NoReq}]
      /\ url \in [Reqs -> Urls \cup {NoUrl}] /\ NoUrl \notin Urls /\ reqQueue \in [Ios -> Seq(Reqs)]
  BY ThreadKinds, CurlAssumption DEF TypeInv, TypeOK, Pcs
<1>1. ASSUME NEW x \in Reqs, NEW u \in Urls, Call(t, x, u)
      PROVE  Makes(t, x)
  <2>1. pc[t] = "idle" /\ pc'[t] = "wait" /\ cur'[t] = x /\ url[x] = NoUrl /\ reqQueue' = reqQueue
    BY <1>0, <1>1 DEF Call, Goto
  <2>2. url' = [url EXCEPT ![x] = u] /\ url'[x] = u
    BY <1>0, <1>1 DEF Call
  <2> QED BY <1>0, <2>1, <2>2 DEF Makes, InCall, Before, Counted
<1>2. CASE WaitReady(t) \/ Count(t) \/ Pop(t) \/ AddUrl(t) \/ Insert(t)
  <2>1. pc[t] \in {"wait", "count", "pop", "addUrl", "insert"}
        /\ pc'[t] \in {"count", "pop", "popWait", "addUrl", "insert", "slot"}
        /\ UNCHANGED <<url, reqQueue, cur>>
    BY <1>0, <1>2 DEF WaitReady, Count, Pop, AddUrl, Insert, Goto
  <2> QED BY <2>1 DEF GoesOn, InCall, Before, Counted
<1>3. CASE Slot(t)
  <2>1. (pc'[t] = "push" /\ cur' = cur) \/ pc'[t] = "idle"
    BY <1>0, <1>3 DEF Slot, Return, Goto
  <2>2. pc[t] = "slot" /\ UNCHANGED <<url, reqQueue>>
    BY <1>3 DEF Slot
  <2> QED BY <1>3, <2>1, <2>2 DEF GoesOn, Drops, InCall, Before, Counted
<1>4. CASE Push(t)
  <2>1. pc[t] = "push" /\ url' = url /\ cur' = cur
    BY <1>4 DEF Push
  <2>2. num[t] \in Ios /\ cur[t] \in Reqs
    BY <2>1 DEF ThreadInv, UserInv, InCall, Counted
  <2>3. \/ pc'[t] = "crashed" /\ reqQueue' = reqQueue
        \/ pc'[t] = "pushWait" /\ reqQueue' = reqQueue
        \/ pc'[t] = "wake" /\ reqQueue' = [reqQueue EXCEPT ![num[t]] = Append(reqQueue[num[t]], cur[t])]
    BY <1>0, <1>4 DEF Push, Goto
  <2>4. CASE pc'[t] = "crashed" /\ reqQueue' = reqQueue
    BY <1>4, <2>1, <2>4 DEF Drops, InCall, Before, Counted
  <2>5. CASE pc'[t] = "pushWait" /\ reqQueue' = reqQueue
    BY <2>1, <2>5 DEF GoesOn, InCall, Before, Counted
  <2>6. CASE pc'[t] = "wake" /\ reqQueue' = [reqQueue EXCEPT ![num[t]] = Append(reqQueue[num[t]], cur[t])]
    <3>1. Queues(t, num[t])
      BY <2>1, <2>2, <2>6 DEF Queues, InCall, Before, Counted
    <3> QED BY <1>4, <2>2, <2>6, <3>1
  <2> QED BY <2>3, <2>4, <2>5, <2>6
<1>5. CASE InitStart(t) \/ InitDone(t) \/ ExitCall(t) \/ Wakeup(t) \/ ExitStep(t)
  <2>1. /\ pc[t] \in {"idle", "init", "wake", "exPoll", "exJoinWake", "exWrite", "exResp", "exJoinCall", "exSpin"}
        /\ UNCHANGED <<url, reqQueue>>
    BY <1>5 DEF InitStart, InitDone, ExitCall, Wakeup, ExitStep, ExitPoll, ExitJoinWake, ExitWrite, ExitResp,
                ExitNotify, ExitJoinCall, ExitSpin
  <2>2. pc'[t] \in {"idle", "init", "crashed", "exPoll", "exJoinWake", "exWrite", "exResp", "exJoinCall", "exSpin", "exDone"}
    <3>1. CASE ExitNotify(t)
      BY <3>1, ExitNotifyWakes DEF Wakes
    <3>2. CASE ~ExitNotify(t)
      BY <1>0, <1>5, <3>2 DEF InitStart, InitDone, ExitCall, Wakeup, ExitStep, ExitPoll, ExitJoinWake, ExitWrite,
                     ExitResp, ExitJoinCall, ExitSpin, Goto
    <3> QED BY <3>1, <3>2
  <2> QED BY <2>1, <2>2 DEF Elsewhere, InCall, Before, Counted
<1> QED BY <1>1, <1>2, <1>3, <1>4, <1>5 DEF UserStep, RequestStep

\* The steps of caller t leave the other callers, the callback thread and what
\* the IO threads have taken alone.
LEMMA UserAside ==
  ASSUME TypeInv, NEW t \in Users, UserStep(t)
  PROVE  /\ \A s \in Users \ {t} : cur'[s] = cur[s] /\ pc'[s] = pc[s]
         /\ \A s \in Users \ {t}, r \in Reqs : OnHand(s, r)' <=> OnHand(s, r)
         /\ \A r \in Reqs : (Called(r)' <=> Called(r)) /\ (InRsp(r)' <=> InRsp(r)) /\ (Resp(r)' <=> Resp(r))
         /\ \A i \in Ios, r \in Reqs : reqQueue'[i] = reqQueue[i] =>
              (IoHas(i, r)' <=> IoHas(i, r)) /\ (Inner(i, r)' <=> Inner(i, r))
         /\ \A i \in Ios, r \in Reqs : (GaveUp(i, r)' <=> GaveUp(i, r))
         /\ running' = running /\ done' = done /\ respQueue' = respQueue /\ answered' = answered
<1>1. /\ \A s \in Threads \ {t} : cur'[s] = cur[s]
      /\ back' = back /\ running' = running /\ done' = done /\ respQueue' = respQueue /\ answered' = answered
  BY UserFrame DEF multiVars
<1>2. /\ \A s \in Users \ {t} : pc'[s] = pc[s]
      /\ \A i \in Ios : pc'[i] = pc[i]
      /\ pc'[Caller] = pc[Caller] \/ (pc[Caller] = "asleep" /\ pc'[Caller] = "take")
  BY UserMoves, ThreadKinds DEF Wakes
<1>3. \A s \in Users \ {t} : cur'[s] = cur[s] /\ pc'[s] = pc[s]
  BY <1>1, <1>2, ThreadKinds
<1>4. cur'[Caller] = cur[Caller] /\ \A i \in Ios : cur'[i] = cur[i]
  BY <1>1, ThreadKinds
<1>5. \A r \in Reqs : (Called(r)' <=> Called(r)) /\ (InRsp(r)' <=> InRsp(r)) /\ (Resp(r)' <=> Resp(r))
  BY <1>1, <1>2, <1>4 DEF Called, InRsp, Resp
<1>6. \A i \in Ios, r \in Reqs : (GaveUp(i, r)' <=> GaveUp(i, r))
  BY <1>1, <1>2, <1>4 DEF GaveUp
<1>7. \A i \in Ios, r \in Reqs : reqQueue'[i] = reqQueue[i] =>
        (IoHas(i, r)' <=> IoHas(i, r)) /\ (Inner(i, r)' <=> Inner(i, r))
  BY <1>1, <1>6 DEF IoHas, Inner, Held
<1> QED BY <1>1, <1>3, <1>5, <1>6, <1>7 DEF OnHand
\* The steps of a caller
LEMMA StageUser ==
  ASSUME TypeInv, ThreadInv, StageInv, NEW t \in Users, UserStep(t)
  PROVE  StageInv'
<1> SUFFICES ASSUME NEW r \in Reqs PROVE OneStage(r)'
  BY DEF StageInv
<1>0. /\ OneStage(r) /\ url \in [Reqs -> Urls \cup {NoUrl}] /\ reqQueue \in [Ios -> Seq(Reqs)]
  BY DEF StageInv, TypeInv, TypeOK
<1>1. /\ \A s \in Users \ {t} : OnHand(s, r)' <=> OnHand(s, r)
      /\ (Called(r)' <=> Called(r)) /\ (Resp(r)' <=> Resp(r))
      /\ \A i \in Ios : reqQueue'[i] = reqQueue[i] =>
              (IoHas(i, r)' <=> IoHas(i, r)) /\ (Inner(i, r)' <=> Inner(i, r))
      /\ \A i \in Ios : (GaveUp(i, r)' <=> GaveUp(i, r))
      /\ running' = running /\ done' = done /\ respQueue' = respQueue /\ answered' = answered
  BY UserAside
<1>2. Once(respQueue', r) /\ \A i \in Ios : Inner(i, r)
  BY <1>0, <1>1 DEF OneStage
<1>3. ASSUME reqQueue' = reqQueue, url'[r] = url[r], OnHand(t, r)' => OnHand(t, r)
      PROVE  OneStage(r)'
  <2>1. /\ \A s \in Users : OnHand(s, r)' => OnHand(s, r)
        /\ \A i \in Ios : (IoHas(i, r)' <=> IoHas(i, r)) /\ Inner(i, r)'
    BY <1>1, <1>2, <1>3
  <2> QED BY <1>0, <1>1, <1>2, <1>3, <2>1, StageKeeps
<1>4. CASE GoesOn(t)
  BY <1>3, <1>4 DEF GoesOn, OnHand
<1>5. CASE Drops(t) \/ Elsewhere(t)
  BY <1>3, <1>5 DEF Drops, Elsewhere, OnHand
<1>6. ASSUME NEW x \in Reqs, Makes(t, x) PROVE OneStage(r)'
  <2>1. CASE r # x
    <3>1. url'[r] = url[r] /\ reqQueue' = reqQueue /\ ~OnHand(t, r)'
      BY <1>0, <1>6, <2>1 DEF Makes, OnHand
    <3> QED BY <1>3, <3>1
  <2>2. CASE r = x
    <3>1. ~Hand(r) /\ ~Io(r) /\ ~Resp(r) /\ ~Called(r) /\ answered[r] = 0
      BY <1>0, <1>6, <2>2 DEF Makes, OneStage
    <3>2. reqQueue' = reqQueue /\ url'[r] # NoUrl
      BY <1>6, <2>2 DEF Makes
    <3>3. \A s \in Users \ {t} : ~OnHand(s, r)'
      BY <1>1, <3>1 DEF Hand
    <3>4. OneHand(r)'
      BY <3>3 DEF OneHand
    <3>5. ~Io(r)' /\ OneIo(r)' /\ \A i \in Ios : Inner(i, r)'
      BY <1>1, <1>2, <3>1, <3>2 DEF Io, OneIo
    <3> QED BY <1>1, <1>2, <3>1, <3>2, <3>4, <3>5 DEF OneStage
  <2> QED BY <2>1, <2>2
<1>7. ASSUME NEW i \in Ios, Queues(t, i) PROVE OneStage(r)'
  <2>1. /\ url' = url /\ reqQueue'[i] = Append(reqQueue[i], cur[t]) /\ \A j \in Ios \ {i} : reqQueue'[j] = reqQueue[j]
        /\ cur[t] \in Reqs /\ ~OnHand(t, r)' /\ reqQueue[i] \in Seq(Reqs) /\ OnHand(t, cur[t])
    BY <1>0, <1>7 DEF Queues, OnHand, InCall
  <2>2. /\ Has(reqQueue'[i], r) <=> Has(reqQueue[i], r) \/ cur[t] = r
        /\ Once(reqQueue[i], r) /\ (cur[t] = r => ~Has(reqQueue[i], r)) => Once(reqQueue'[i], r)
    BY <2>1, AppendHas
  <2>3. \A j \in Ios \ {i} : (IoHas(j, r)' <=> IoHas(j, r)) /\ Inner(j, r)'
    BY <1>1, <1>2, <2>1
  <2>4. Held(i)' = Held(i)
    BY <1>1 DEF Held
  <2>5. CASE r # cur[t]
    <3>1. IoHas(i, r)' <=> IoHas(i, r)
      BY <1>1, <2>2, <2>4, <2>5 DEF IoHas
    <3>2. Inner(i, r)'
      BY <1>1, <1>2, <2>2, <2>4, <2>5 DEF Inner
    <3>3. \A j \in Ios : (IoHas(j, r)' => IoHas(j, r)) /\ Inner(j, r)'
      BY <2>3, <3>1, <3>2
    <3>4. \A s \in Users : OnHand(s, r)' => OnHand(s, r)
      BY <1>1, <2>1
    <3> QED BY <1>0, <1>1, <1>2, <2>1, <3>3, <3>4, StageKeeps
  <2>6. CASE r = cur[t]
    <3>1. Hand(r) /\ OneHand(r) /\ url[r] # NoUrl /\ ~Io(r) /\ ~Resp(r) /\ ~Called(r) /\ answered[r] = 0
      BY <1>0, <2>1, <2>6 DEF Hand, OneStage
    <3>2. \A s \in Users : ~OnHand(s, r)'
      BY <1>1, <2>1, <2>6, <3>1 DEF OneHand
    <3>3. ~Hand(r)' /\ OneHand(r)'
      BY <3>2 DEF Hand, OneHand
    <3>4. ~IoHas(i, r) /\ \A j \in Ios \ {i} : ~IoHas(j, r)'
      BY <2>3, <3>1 DEF Io
    <3>5. OneIo(r)'
      BY <3>4 DEF OneIo
    <3>6. Inner(i, r)'
      BY <1>1, <1>2, <2>2, <2>4, <3>4 DEF Inner, IoHas
    <3> QED BY <1>1, <1>2, <2>1, <2>3, <3>1, <3>3, <3>5, <3>6 DEF OneStage
  <2> QED BY <2>5, <2>6
<1> QED BY <1>4, <1>5, <1>6, <1>7, UserEffect

\* What the other steps do with the requests: the callback thread takes one,
\* counts it off, answers it.
LEMMA OtherEffect ==
  ASSUME TypeInv, ThreadInv, OtherStep
  PROVE  /\ \A s \in Users : cur'[s] = cur[s] /\ (pc'[s] \in Counted <=> pc[s] \in Counted)
                             /\ (pc'[s] = "crashed" <=> pc[s] = "crashed")
         /\ \A s \in Users, r \in Reqs : OnHand(s, r)' <=> OnHand(s, r)
         /\ \A i \in Ios, r \in Reqs : (IoHas(i, r)' <=> IoHas(i, r)) /\ (Inner(i, r)' <=> Inner(i, r))
         /\ \/ /\ CallerTake /\ respQueue # <<>> /\ respQueue' = Tail(respQueue)
               /\ pc[Caller] = "take" /\ pc'[Caller] = "rsp" /\ cur'[Caller] = Head(respQueue)
               /\ answered' = answered /\ asyncNum' = asyncNum
            \/ /\ CallerRsp /\ pc[Caller] = "rsp" /\ pc'[Caller] = "call" /\ cur' = cur /\ respQueue' = respQueue
               /\ answered' = answered /\ asyncNum' = asyncNum - 1 /\ cur[Caller] \in Reqs
            \/ /\ CallerCall /\ pc[Caller] = "call" /\ pc'[Caller] \notin {"rsp", "call"} /\ respQueue' = respQueue
               /\ cur[Caller] \in Reqs /\ answered'[cur[Caller]] = answered[cur[Caller]] + 1
               /\ \A r \in Reqs \ {cur[Caller]} : answered'[r] = answered[r]
               /\ asyncNum' = asyncNum
            \/ /\ \A r \in Reqs : (Called(r)' <=> Called(r)) /\ (InRsp(r)' <=> InRsp(r))
               /\ respQueue' = respQueue /\ answered' = answered /\ asyncNum' = asyncNum
<1> USE DEF mgrVars, ioVars, multiVars, respVars, boundVars
<1>0. /\ pc \in [Threads -> Pcs] /\ cur \in [Threads -> Reqs \cup {NoReq}] /\ answered \in [Reqs -> Nat]
      /\ Caller \in Threads /\ Waker \in Threads /\ Caller # Waker
  BY ThreadKinds DEF TypeInv, TypeOK, Pcs
<1>1. /\ \A s \in Threads \ {Caller} : cur'[s] = cur[s]
      /\ \A s \in Users : \/ pc'[s] = pc[s]
                          \/ pc[s] = "popWait" /\ pc'[s] = "pop"
                          \/ pc[s] = "pushWait" /\ pc'[s] = "push"
      /\ \A i \in Ios : pc'[i] = pc[i]
      /\ UNCHANGED <<reqQueue, running, done, back>>
  BY OtherFrame
<1>2. /\ \A s \in Users : cur'[s] = cur[s]
      /\ \A i \in Ios : cur'[i] = cur[i]
  BY <1>1, ThreadKinds
<1>3. \A s \in Users : /\ pc'[s] \in Counted <=> pc[s] \in Counted
                       /\ pc'[s] \in InCall <=> pc[s] \in InCall
                       /\ pc'[s] = "crashed" <=> pc[s] = "crashed"
  BY <1>1 DEF InCall, Counted
<1>4. \A i \in Ios, r \in Reqs : (IoHas(i, r)' <=> IoHas(i, r)) /\ (Inner(i, r)' <=> Inner(i, r))
  BY <1>1, <1>2 DEF IoHas, Inner, GaveUp, Held
<1>5. CASE CallerTake /\ respQueue # <<>>
  BY <1>0, <1>2, <1>3, <1>4, <1>5 DEF CallerTake, Goto, OnHand
<1>6. CASE CallerTake /\ respQueue = <<>>
  <2>1. /\ pc[Caller] = "take" /\ pc'[Caller] \in {"done", "take", "sleep"} /\ respQueue' = respQueue
        /\ answered' = answered /\ asyncNum' = asyncNum
    BY <1>0, <1>6 DEF CallerTake, NextTurn, Goto
  <2> QED BY <1>2, <1>3, <1>4, <2>1 DEF OnHand, Called, InRsp
<1>7. CASE CallerRsp
  <2>1. cur[Caller] \in Reqs
    BY <1>7 DEF CallerRsp, ThreadInv, CallerInv
  <2> QED BY <1>0, <1>2, <1>3, <1>4, <1>7, <2>1 DEF CallerRsp, Goto, OnHand
<1>8. CASE CallerCall
  <2>1. cur[Caller] \in Reqs
    BY <1>8 DEF CallerCall, ThreadInv, CallerInv
  <2>2. pc[Caller] = "call" /\ pc'[Caller] \notin {"rsp", "call"} /\ respQueue' = respQueue /\ asyncNum' = asyncNum
    BY <1>0, <1>8 DEF CallerCall, NextTurn, Goto
  <2>3. answered'[cur[Caller]] = answered[cur[Caller]] + 1 /\ \A r \in Reqs \ {cur[Caller]} : answered'[r] = answered[r]
    BY <1>0, <1>8, <2>1 DEF CallerCall
  <2> QED BY <1>2, <1>3, <1>4, <1>8, <2>1, <2>2, <2>3 DEF OnHand
<1>9. CASE CallerSleep \/ WakerStep \/ (\E r \in Reqs : Age(r)) \/ \E t \in Users \cup {Caller} : WakeUnasked(t)
  <2>1. respQueue' = respQueue /\ answered' = answered /\ asyncNum' = asyncNum /\ cur' = cur
    BY <1>9 DEF CallerSleep, WakerStep, WakerWrite, WakerEnd, Age, WakeUnasked
  <2>2. pc'[Caller] = pc[Caller] \/ (pc[Caller] \notin {"rsp", "call"} /\ pc'[Caller] \notin {"rsp", "call"})
    <3>1. CASE CallerSleep \/ WakerStep \/ \E r \in Reqs : Age(r)
      BY <1>0, <3>1 DEF CallerSleep, WakerStep, WakerWrite, WakerEnd, Age, Goto
    <3>2. ASSUME NEW t \in Users \cup {Caller}, WakeUnasked(t)
          PROVE  pc'[Caller] = pc[Caller] \/ (pc[Caller] \notin {"rsp", "call"} /\ pc'[Caller] \notin {"rsp", "call"})
      <4>1. PICK p \in Pcs : Goto(t, p) /\ (t = Caller => pc[t] = "asleep" /\ p = "take")
        BY <3>2, UnaskedMoves, ThreadKinds
      <4> QED BY <1>0, <4>1 DEF Goto
    <3> QED BY <1>9, <3>1, <3>2
  <2> QED BY <1>2, <1>3, <1>4, <2>1, <2>2 DEF OnHand, Called, InRsp
<1> QED BY <1>5, <1>6, <1>7, <1>8, <1>9 DEF OtherStep, CallerStep

\* The other steps
LEMMA StageOther ==
  ASSUME TypeInv, ThreadInv, StageInv, OtherStep
  PROVE  StageInv'
<1> SUFFICES ASSUME NEW r \in Reqs PROVE OneStage(r)'
  BY DEF StageInv
<1>0. OneStage(r) /\ respQueue \in Seq(Reqs) /\ answered[r] \in Nat /\ url' = url
  BY OtherFrame DEF StageInv, TypeInv, TypeOK
<1>1. /\ \A s \in Users : OnHand(s, r)' <=> OnHand(s, r)
      /\ \A i \in Ios : (IoHas(i, r)' <=> IoHas(i, r)) /\ (Inner(i, r)' <=> Inner(i, r))
  BY OtherEffect
<1>2. (Hand(r)' <=> Hand(r)) /\ (Io(r)' <=> Io(r)) /\ (OneHand(r)' <=> OneHand(r)) /\ (OneIo(r)' <=> OneIo(r))
      /\ \A i \in Ios : Inner(i, r)'
  BY <1>0, <1>1 DEF Hand, Io, OneHand, OneIo, OneStage
<1>3. CASE /\ respQueue # <<>> /\ respQueue' = Tail(respQueue) /\ pc[Caller] = "take" /\ pc'[Caller] = "rsp"
           /\ cur'[Caller] = Head(respQueue) /\ answered' = answered
  <2>1. /\ Has(respQueue, r) <=> Has(respQueue', r) \/ Head(respQueue) = r
        /\ Once(respQueue, r) => Once(respQueue', r) /\ (Head(respQueue) = r => ~Has(respQueue', r))
    BY <1>0, <1>3, TailHas
  <2>2. Called(r)' <=> Head(respQueue) = r
    BY <1>3 DEF Called
  <2>3. ~Called(r)
    BY <1>3 DEF Called
  <2> QED BY <1>0, <1>2, <1>3, <2>1, <2>2, <2>3 DEF OneStage, Resp
<1>4. CASE pc[Caller] = "rsp" /\ pc'[Caller] = "call" /\ cur' = cur /\ respQueue' = respQueue /\ answered' = answered
  <2>1. Called(r)' <=> Called(r)
    BY <1>4 DEF Called
  <2> QED BY <1>0, <1>2, <1>4, <2>1 DEF OneStage, Resp
<1>5. CASE /\ pc[Caller] = "call" /\ pc'[Caller] \notin {"rsp", "call"} /\ respQueue' = respQueue
           /\ answered'[cur[Caller]] = answered[cur[Caller]] + 1
           /\ \A x \in Reqs \ {cur[Caller]} : answered'[x] = answered[x]
  <2>1. ~Called(r)' /\ (Called(r) <=> cur[Caller] = r)
    BY <1>5 DEF Called
  <2>2. CASE r = cur[Caller]
    <3>1. ~Hand(r) /\ ~Io(r) /\ ~Resp(r) /\ answered[r] = 0 /\ url[r] # NoUrl
      BY <1>0, <2>1, <2>2 DEF OneStage
    <3>2. answered'[r] = 1
      BY <1>5, <2>2, <3>1
    <3> QED BY <1>0, <1>2, <1>5, <2>1, <3>1, <3>2 DEF OneStage, Resp
  <2>3. CASE r # cur[Caller]
    BY <1>0, <1>2, <1>5, <2>1, <2>3 DEF OneStage, Resp
  <2> QED BY <2>2, <2>3
<1>6. CASE (Called(r)' <=> Called(r)) /\ respQueue' = respQueue /\ answered' = answered
  BY <1>0, <1>2, <1>6 DEF OneStage, Resp
<1> QED BY <1>3, <1>4, <1>5, <1>6, OtherEffect
-----------------------------------------------------------------------------
(* The count of requests                                                    *)

\* The set that asyncQueNum counts is finite.
LEMMA OpenCount ==
  /\ IsFiniteSet(Open) /\ Cardinality(Open) \in Nat
  /\ \A r : r \notin Open => Cardinality(Open \cup {r}) = Cardinality(Open) + 1
  /\ \A r : r \in Open => Cardinality(Open \ {r}) = Cardinality(Open) - 1
<1>1. IsFiniteSet(Open)
  BY CurlAssumption, FS_Subset DEF Open
<1> QED BY <1>1, FS_CardinalityType, FS_AddElement, FS_RemoveElement

\* Steps that do not change the set
LEMMA CountKeeps ==
  ASSUME CountInv, Crashed => Crashed', asyncNum' = asyncNum, Open' = Open
  PROVE  CountInv'
  BY DEF CountInv

\* The steps of an IO thread change neither the count nor the set.
LEMMA OpenIo ==
  ASSUME TypeInv, ThreadInv, ReadyInv, StageInv, NEW i \in Ios, IoStep(i) \/ IoReadyFail(i) \/ MultiEvent(i)
  PROVE  Open' = Open /\ asyncNum' = asyncNum /\ (Crashed' <=> Crashed)
<1>1. /\ \A s \in Users : cur'[s] = cur[s] /\ (pc'[s] \in Counted <=> pc[s] \in Counted)
                          /\ (pc'[s] = "crashed" <=> pc[s] = "crashed")
      /\ \A r \in Reqs : InRsp(r)' <=> InRsp(r)
      /\ \A j \in Ios \ {i}, r \in Reqs : IoHas(j, r)' <=> IoHas(j, r)
  BY IoAside
<1>2. \A r \in Reqs : HandCounted(r)' <=> HandCounted(r)
  BY <1>1 DEF HandCounted
<1>3. asyncNum' = asyncNum /\ respQueue \in Seq(Reqs)
  BY IoFrame DEF TypeInv, TypeOK
<1>4. CASE Inside(i)
  <2>1. respQueue' = respQueue /\ \A r \in Reqs : IoHas(i, r)' <=> IoHas(i, r)
    BY <1>4 DEF Inside
  <2>2. \A r \in Reqs : (Io(r)' <=> Io(r)) /\ (Resp(r)' <=> Resp(r))
    BY <1>1, <2>1 DEF Io, Resp
  <2> QED BY <1>1, <1>2, <1>3, <2>2 DEF Open, Crashed
<1>5. ASSUME NEW x \in Reqs, Responds(i, x) PROVE Open' = Open
  <2>1. respQueue' = Append(respQueue, x) /\ IoHas(i, x) /\ \A r \in Reqs : IoHas(i, r)' <=> IoHas(i, r) /\ r # x
    BY <1>5 DEF Responds
  <2>2. \A r \in Reqs : Resp(r)' <=> Resp(r) \/ r = x
    BY <1>3, <2>1, AppendHas DEF Resp
  <2>3. \A r \in Reqs \ {x} : Io(r)' <=> Io(r)
    BY <1>1, <2>1 DEF Io
  <2>4. x \in Open /\ x \in Open'
    BY <2>1, <2>2 DEF Open, Io
  <2>5. \A r \in Reqs : r \in Open' <=> r \in Open
    <3> SUFFICES ASSUME NEW r \in Reqs \ {x} PROVE r \in Open' <=> r \in Open
      BY <2>4
    <3> QED BY <1>1, <1>2, <2>2, <2>3 DEF Open
  <2> QED BY <2>5 DEF Open
<1> QED BY <1>1, <1>3, <1>4, <1>5, IoEffect DEF Crashed

\* The steps of a caller
LEMMA CountUser ==
  ASSUME TypeInv, ThreadInv, StageInv, CountInv, NEW t \in Users, UserStep(t)
  PROVE  CountInv'
<1> USE DEF mgrVars, ioVars, multiVars, respVars, boundVars
<1>0. /\ t \in Threads /\ pc \in [Threads -> Pcs] /\ asyncNum \in Int /\ reqQueue \in [Ios -> Seq(Reqs)]
      /\ cur \in [Threads -> Reqs \cup {NoReq}]
  BY ThreadKinds DEF TypeInv, TypeOK, Pcs
<1>1. /\ \A s \in Users \ {t} : cur'[s] = cur[s] /\ pc'[s] = pc[s]
      /\ \A r \in Reqs : (InRsp(r)' <=> InRsp(r)) /\ (Resp(r)' <=> Resp(r))
      /\ \A i \in Ios, r \in Reqs : reqQueue'[i] = reqQueue[i] => (IoHas(i, r)' <=> IoHas(i, r))
      /\ \A i \in Ios, r \in Reqs : (GaveUp(i, r)' <=> GaveUp(i, r))
      /\ running' = running /\ done' = done
  BY UserAside
<1>2. pc[t] # "crashed"
  BY DEF UserStep, RequestStep, ExitStep, InitStart, InitDone, ExitCall, Call, WaitReady, Count, Pop, AddUrl,
         Insert, Slot, Push, Wakeup, ExitPoll, ExitJoinWake, ExitWrite, ExitResp, ExitNotify,
         ExitJoinCall, ExitSpin
<1>3. Crashed => Crashed'
  BY <1>1, <1>2 DEF Crashed
<1>4. ASSUME reqQueue' = reqQueue PROVE \A r \in Reqs : Io(r)' <=> Io(r)
  BY <1>1, <1>4 DEF Io
<1>5. ASSUME ~Count(t), ~Slot(t) PROVE asyncNum' = asyncNum
  BY <1>5 DEF UserStep, RequestStep, ExitStep, InitStart, InitDone, ExitCall, Call, WaitReady, Pop, AddUrl,
         Insert, Push, Wakeup, ExitPoll, ExitJoinWake, ExitWrite, ExitResp, ExitNotify,
         ExitJoinCall, ExitSpin
<1>6. ASSUME reqQueue' = reqQueue, pc'[t] \in Counted <=> pc[t] \in Counted, pc[t] \in Counted => cur'[t] = cur[t]
      PROVE  Open' = Open
  <2>1. \A r \in Reqs : HandCounted(r)' <=> HandCounted(r)
    BY <1>1, <1>6 DEF HandCounted
  <2> QED BY <1>1, <1>4, <1>6, <2>1 DEF Open
<1>7. CASE Count(t)
  <2>1. /\ pc[t] = "count" /\ pc'[t] \in Counted /\ cur' = cur /\ reqQueue' = reqQueue /\ asyncNum' = asyncNum + 1
    BY <1>0, <1>7 DEF Count, Goto, Counted
  <2>2. cur[t] \in Reqs /\ OnHand(t, cur[t])
    BY <2>1 DEF ThreadInv, UserInv, OnHand, InCall, Before
  <2>3. \A r \in Reqs : HandCounted(r)' <=> HandCounted(r) \/ r = cur[t]
    BY <1>1, <2>1 DEF HandCounted, Counted
  <2>4. Open' = Open \cup {cur[t]}
    BY <1>1, <1>4, <2>1, <2>2, <2>3 DEF Open
  <2>5. cur[t] \notin Open
    <3>1. Hand(cur[t]) /\ OneStage(cur[t])
      BY <2>2 DEF Hand, StageInv
    <3>2. ~HandCounted(cur[t])
      <4>1. \A s \in Users : pc[s] \in Counted /\ cur[s] = cur[t] => OnHand(s, cur[t])
        BY DEF OnHand, InCall
      <4>2. pc[t] \notin Counted
        BY <2>1 DEF Counted
      <4> QED BY <2>2, <3>1, <4>1, <4>2 DEF HandCounted, OneStage, OneHand
    <3>3. ~InRsp(cur[t])
      BY <3>1 DEF OneStage, Called, InRsp
    <3> QED BY <3>1, <3>2, <3>3 DEF OneStage, Open
  <2>6. Cardinality(Open') = Cardinality(Open) + 1 /\ Cardinality(Open) \in Nat
    BY <2>4, <2>5, OpenCount
  <2> QED BY <1>0, <1>3, <2>1, <2>6 DEF CountInv
<1>8. CASE Slot(t) /\ Target(t) \in slots
  <2>1. pc[t] = "slot" /\ pc'[t] = "push" /\ cur' = cur /\ reqQueue' = reqQueue /\ asyncNum' = asyncNum
    BY <1>0, <1>8 DEF Slot, Goto
  <2>2. Open' = Open
    BY <1>6, <2>1 DEF Counted
  <2> QED BY <1>3, <2>1, <2>2, CountKeeps
<1>9. CASE Slot(t) /\ Target(t) \notin slots
  <2>1. pc[t] = "slot" /\ pc'[t] = "idle" /\ reqQueue' = reqQueue /\ asyncNum' = asyncNum - 1
    BY <1>0, <1>9 DEF Slot, Return, Goto
  <2>a. cur[t] \in Reqs
    BY <2>1 DEF ThreadInv, UserInv, InCall, Counted
  <2>b. PICK x \in Reqs : x = cur[t]
    BY <2>a
  <2>2. OnHand(t, x) /\ HandCounted(x)
    BY <2>1, <2>b DEF OnHand, InCall, Counted, HandCounted
  <2>3. Hand(x) /\ OneStage(x)
    BY <2>2 DEF Hand, StageInv
  <2>4. ~HandCounted(x)'
    <3>1. \A s \in Users : pc[s] \in Counted /\ cur[s] = x => OnHand(s, x)
      BY DEF OnHand, InCall
    <3>2. ASSUME NEW s \in Users, pc'[s] \in Counted, cur'[s] = x PROVE FALSE
      <4>1. s # t
        BY <2>1, <3>2 DEF Counted
      <4> QED BY <1>1, <2>2, <2>3, <3>1, <3>2, <4>1 DEF OneStage, OneHand
    <3> QED BY <3>2 DEF HandCounted
  <2>5. \A r \in Reqs \ {x} : HandCounted(r)' <=> HandCounted(r)
    BY <1>1, <2>1, <2>b DEF HandCounted, Counted
  <2>6. ~Io(x) /\ ~Resp(x) /\ ~InRsp(x)
    BY <2>3 DEF OneStage, Called, InRsp
  <2>7. Open' = Open \ {x} /\ x \in Open
    <3>1. x \in Open
      BY <2>2 DEF Open
    <3>2. x \notin Open'
      BY <1>1, <1>4, <2>1, <2>2, <2>4, <2>6 DEF Open
    <3>3. \A r \in Reqs \ {x} : r \in Open' <=> r \in Open
      BY <1>1, <1>4, <2>1, <2>5 DEF Open
    <3> QED BY <3>1, <3>2, <3>3 DEF Open
  <2>8. Cardinality(Open') = Cardinality(Open) - 1 /\ Cardinality(Open) \in Nat
    BY <2>7, OpenCount
  <2> QED BY <1>0, <1>3, <2>1, <2>8 DEF CountInv
<1>10. ASSUME NEW i \in Ios, Queues(t, i), Push(t) PROVE CountInv'
  <2>1. /\ reqQueue'[i] = Append(reqQueue[i], cur[t]) /\ \A j \in Ios \ {i} : reqQueue'[j] = reqQueue[j]
        /\ cur[t] \in Reqs /\ reqQueue[i] \in Seq(Reqs) /\ pc[t] \in Counted /\ pc'[t] \notin Counted
    BY <1>0, <1>10 DEF Queues, InCall
  <2>2. \A r \in Reqs : IoHas(i, r)' <=> IoHas(i, r) \/ r = cur[t]
    <3>1. \A r \in Reqs : Has(reqQueue'[i], r) <=> Has(reqQueue[i], r) \/ cur[t] = r
      BY <2>1, AppendHas
    <3>2. Held(i)' = Held(i)
      BY <1>1 DEF Held
    <3> QED BY <1>1, <3>1, <3>2 DEF IoHas
  <2>3. \A r \in Reqs \ {cur[t]} : (Io(r)' <=> Io(r)) /\ (HandCounted(r)' <=> HandCounted(r))
    BY <1>1, <2>1, <2>2 DEF Io, HandCounted
  <2>4. cur[t] \in Open /\ cur[t] \in Open'
    BY <2>1, <2>2 DEF Open, HandCounted, Io
  <2>5. \A r \in Reqs \ {cur[t]} : r \in Open' <=> r \in Open
    BY <1>1, <2>3 DEF Open
  <2>6. Open' = Open
    BY <2>4, <2>5 DEF Open
  <2>7. asyncNum' = asyncNum
    BY <1>10 DEF Push
  <2> QED BY <1>3, <2>6, <2>7, CountKeeps
<1>11. CASE Push(t) /\ Drops(t)
  <2>1. pc'[t] = "crashed"
    BY <1>11 DEF Push, Slot, Drops
  <2> QED BY <2>1 DEF CountInv, Crashed
<1>12. ASSUME NEW x \in Reqs, Makes(t, x), ~Count(t), ~Slot(t) PROVE CountInv'
  <2>1. Open' = Open
    BY <1>6, <1>12 DEF Makes, InCall, Before, Counted
  <2> QED BY <1>3, <1>5, <1>12, <2>1, CountKeeps
<1>13. CASE Elsewhere(t) /\ ~Count(t) /\ ~Slot(t)
  <2>1. Open' = Open
    BY <1>6, <1>13 DEF Elsewhere, InCall
  <2> QED BY <1>3, <1>5, <1>13, <2>1, CountKeeps
<1>14. CASE GoesOn(t) /\ ~Count(t) /\ ~Slot(t)
  <2>1. reqQueue' = reqQueue /\ cur'[t] = cur[t] /\ pc[t] \in InCall /\ pc'[t] \in InCall
    BY <1>14 DEF GoesOn
  <2>2. pc[t] \in Before => pc'[t] \in Before
    BY <1>0, <1>14, <2>1 DEF UserStep, RequestStep, ExitStep, InitStart, InitDone, ExitCall, Call, WaitReady, Pop, AddUrl,
         Insert, Push, Wakeup, ExitPoll, ExitJoinWake, ExitWrite, ExitResp, ExitNotify,
         ExitJoinCall, ExitSpin, Goto, Before
  <2>3. pc[t] \in Counted => pc'[t] \in Counted
    BY <1>0, <1>14, <2>1 DEF UserStep, RequestStep, ExitStep, InitStart, InitDone, ExitCall, Call, WaitReady, Pop, AddUrl,
         Insert, Push, Wakeup, ExitPoll, ExitJoinWake, ExitWrite, ExitResp, ExitNotify,
         ExitJoinCall, ExitSpin, Goto, Counted, InCall, Before
  <2>4. \A p : p \in InCall <=> p \in Before \/ p \in Counted
    BY DEF InCall
  <2>5. \A p \in Before : p \notin Counted
    BY DEF Before, Counted
  <2>6. Open' = Open
    BY <1>6, <2>1, <2>2, <2>3, <2>4, <2>5
  <2> QED BY <1>3, <1>5, <1>14, <2>6, CountKeeps
<1> QED BY <1>7, <1>8, <1>9, <1>10, <1>11, <1>12, <1>13, <1>14, UserEffect DEF Drops

\* The other steps
LEMMA CountOther ==
  ASSUME TypeInv, ThreadInv, StageInv, CountInv, OtherStep
  PROVE  CountInv'
<1>0. asyncNum \in Int /\ respQueue \in Seq(Reqs)
  BY DEF TypeInv, TypeOK
<1>1. /\ \A s \in Users : cur'[s] = cur[s] /\ (pc'[s] \in Counted <=> pc[s] \in Counted)
                          /\ (pc'[s] = "crashed" <=> pc[s] = "crashed")
      /\ \A i \in Ios, r \in Reqs : IoHas(i, r)' <=> IoHas(i, r)
  BY OtherEffect
<1>2. Crashed' <=> Crashed
  BY <1>1 DEF Crashed
<1>3. \A r \in Reqs : (HandCounted(r)' <=> HandCounted(r)) /\ (Io(r)' <=> Io(r))
  BY <1>1 DEF HandCounted, Io
<1>4. CASE /\ respQueue # <<>> /\ respQueue' = Tail(respQueue) /\ pc[Caller] = "take" /\ pc'[Caller] = "rsp"
           /\ cur'[Caller] = Head(respQueue) /\ asyncNum' = asyncNum
  <2>1. \A r \in Reqs : Resp(r) <=> Resp(r)' \/ Head(respQueue) = r
    BY <1>0, <1>4, TailHas DEF Resp
  <2>2. \A r \in Reqs : (InRsp(r)' <=> Head(respQueue) = r) /\ ~InRsp(r)
    BY <1>4 DEF InRsp
  <2>3. Open' = Open
    BY <1>3, <2>1, <2>2 DEF Open
  <2> QED BY <1>2, <1>4, <2>3, CountKeeps
<1>5. CASE /\ pc[Caller] = "rsp" /\ pc'[Caller] = "call" /\ cur' = cur /\ respQueue' = respQueue
           /\ asyncNum' = asyncNum - 1 /\ cur[Caller] \in Reqs
  <2>1. \A r \in Reqs : (InRsp(r) <=> cur[Caller] = r) /\ ~InRsp(r)' /\ (Resp(r)' <=> Resp(r))
    BY <1>5 DEF InRsp, Resp
  <2>2. Called(cur[Caller]) /\ OneStage(cur[Caller])
    BY <1>5 DEF Called, StageInv
  <2>3. ~HandCounted(cur[Caller])
    BY <2>2 DEF OneStage, HandCounted, Hand, OnHand, InCall
  <2>4. ~Io(cur[Caller]) /\ ~Resp(cur[Caller])
    BY <2>2 DEF OneStage
  <2>5. Open' = Open \ {cur[Caller]} /\ cur[Caller] \in Open
    BY <1>3, <1>5, <2>1, <2>3, <2>4 DEF Open
  <2>6. Cardinality(Open') = Cardinality(Open) - 1 /\ Cardinality(Open) \in Nat
    BY <2>5, OpenCount
  <2> QED BY <1>0, <1>2, <1>5, <2>6 DEF CountInv
<1>6. CASE pc[Caller] = "call" /\ pc'[Caller] \notin {"rsp", "call"} /\ respQueue' = respQueue /\ asyncNum' = asyncNum
  <2>1. \A r \in Reqs : ~InRsp(r) /\ ~InRsp(r)' /\ (Resp(r)' <=> Resp(r))
    BY <1>6 DEF InRsp, Resp
  <2>2. Open' = Open
    BY <1>3, <2>1 DEF Open
  <2> QED BY <1>2, <1>6, <2>2, CountKeeps
<1>7. CASE (\A r \in Reqs : InRsp(r)' <=> InRsp(r)) /\ respQueue' = respQueue /\ asyncNum' = asyncNum
  <2>1. Open' = Open
    BY <1>3, <1>7 DEF Open, Resp
  <2> QED BY <1>2, <1>7, <2>1, CountKeeps
<1> QED BY <1>4, <1>5, <1>6, <1>7, OtherEffect
-----------------------------------------------------------------------------
(* The invariant of every behaviour                                         *)

IInv == TypeInv /\ ThreadInv /\ ReadyInv /\ StageInv /\ CountInv /\ NoStrandedRequest

\* No thread has a request and no IO thread is on at the start.
LEMMA InitIInv ==
  ASSUME Init
  PROVE  IInv
<1>1. /\ \A i \in Ios : pc[i] = "off" /\ reqQueue[i] = <<>> /\ running[i] = {} /\ done[i] = {}
                        /\ wakeupFd[i] = 0 /\ odd[i] = FALSE /\ stopped[i] = FALSE
      /\ \A t \in Users : pc[t] = "idle"
      /\ pc[Caller] = "take" /\ pc[Waker] = "write"
  BY ThreadKinds DEF Init
<1>2. TypeInv
  <2>1. <<>> \in Seq(Reqs) /\ <<>> \in Seq(Ios) /\ 0 \in Nat
    OBVIOUS
  <2>2. IoNum \in Nat \ {0} /\ UMod \in Nat \ {0} /\ 0 \in Ios /\ 0 \in 0 .. UMod - 1
        /\ MaxExits \in Nat /\ MaxReadyFail \in Nat
    BY CurlAssumption DEF Ios
  <2>3. pool \in [Urls -> Pool]
    BY <2>1 DEF Init, Pool
  <2>4. PlaceOK
    BY <1>1 DEF PlaceOK, UserPcs, IoPcs, CallerPcs, WakerPcs
  <2>5. pc \in [Threads -> UserPcs \cup IoPcs \cup CallerPcs \cup WakerPcs]
    BY DEF Init, UserPcs, IoPcs, CallerPcs, WakerPcs
  <2>6. reqQueue \in [Ios -> Seq(Reqs)] /\ respQueue \in Seq(Reqs)
    BY <2>1 DEF Init
  <2>7. exits \in 0 .. MaxExits /\ readyFails \in 0 .. MaxReadyFail /\ readyIothread \in 0 .. UMod - 1
        /\ lastIndex \in Ios
    BY <2>2 DEF Init
  <2>8. /\ wakeupFd \in [Ios -> Nat] /\ queueSize \in [Ios -> Nat]
        /\ running \in [Ios -> SUBSET Reqs] /\ done \in [Ios -> SUBSET Reqs]
        /\ still \in [Ios -> Nat] /\ stopped \in [Ios -> BOOLEAN] /\ odd \in [Ios -> BOOLEAN]
        /\ back \in [Ios -> {"each", "check", "pull"}]
    BY DEF Init
  <2>9. /\ cur \in [Threads -> Reqs \cup {NoReq}] /\ num \in [Threads -> Nat]
        /\ url \in [Reqs -> Urls \cup {NoUrl}] /\ answered \in [Reqs -> Nat]
    BY DEF Init
  <2>10. /\ ioThreadNum \in {0, IoNum} /\ exitIothread \in Nat /\ slots \subseteq Ios
         /\ aged \subseteq Reqs /\ asyncNum \in Int
    BY DEF Init
  <2>a. {isExit, threadExit, started, respExit} \subseteq BOOLEAN
    <3>1. isExit = FALSE /\ threadExit = FALSE /\ started = FALSE /\ respExit = FALSE
      BY DEF Init
    <3> QED BY <3>1
  <2>11. TypeOK
    BY <2>3, <2>5, <2>6, <2>7, <2>8, <2>9, <2>10, <2>a DEF TypeOK
  <2> QED BY <2>4, <2>11 DEF TypeInv
<1>3. ThreadInv
  <2>1. \A t \in Users : UserInv(t)
    BY <1>1 DEF UserInv, InCall, Before, Counted, Exiting
  <2>2. \A i \in Ios : IoInv(i)
    <3>1. 0 % 2 # 1
      OBVIOUS
    <3> QED BY <1>1, <3>1 DEF IoInv
  <2>3. IosDone = {}
    BY <1>1 DEF IosDone
  <2>4. exitIothread = Cardinality(IosDone)
    BY <2>3, FS_EmptySet DEF Init
  <2> QED BY <1>1, <2>1, <2>2, <2>4 DEF ThreadInv, CallerInv
<1>4. ReadyInv
  <2>1. On = {}
    BY <1>1 DEF On, OnPcs
  <2>2. ReadyCount
    BY <2>1, FS_EmptySet DEF Init, ReadyCount
  <2> QED BY <1>1, <2>2 DEF ReadyInv, Counted
<1>5. ASSUME NEW r \in Reqs
      PROVE  /\ ~Hand(r) /\ ~Io(r) /\ ~Resp(r) /\ ~Called(r) /\ answered[r] = 0
             /\ ~HandCounted(r) /\ ~InRsp(r)
             /\ OneHand(r) /\ OneIo(r) /\ (\A i \in Ios : Inner(i, r)) /\ Once(respQueue, r)
  <2>1. \A k : k \notin 1 .. Len(<<>>)
    OBVIOUS
  <2>2. ~Has(<<>>, r) /\ Once(<<>>, r)
    BY <2>1 DEF Has, Once
  <2>3. respQueue = <<>> /\ answered[r] = 0
    BY DEF Init
  <2>4. \A t \in Users : ~OnHand(t, r) /\ pc[t] \notin Counted
    BY <1>1 DEF OnHand, InCall, Before, Counted
  <2>5. \A i \in Ios : ~IoHas(i, r) /\ Inner(i, r)
    BY <1>1, <2>2 DEF IoHas, Inner, Held, GaveUp
  <2>6. ~Called(r) /\ ~InRsp(r)
    BY <1>1 DEF Called, InRsp
  <2> QED BY <2>2, <2>3, <2>4, <2>5, <2>6 DEF Hand, Io, Resp, HandCounted, OneHand, OneIo
<1>6. StageInv
  BY <1>5 DEF StageInv, OneStage
<1>7. CountInv
  <2>1. Open = {}
    BY <1>5 DEF Open
  <2> QED BY <2>1, FS_EmptySet DEF Init, CountInv
<1>8. NoStrandedRequest
  BY <1>1 DEF NoStrandedRequest, FdOpen
<1> QED BY <1>2, <1>3, <1>4, <1>6, <1>7, <1>8 DEF IInv

\* A step that changes nothing
LEMMA IInvStutter ==
  ASSUME IInv, UNCHANGED vars
  PROVE  IInv'
<1> USE DEF vars, mgrVars, ioVars, multiVars, respVars, boundVars
<1>1. TypeInv'
  BY TypeStep DEF IInv
<1>2. ThreadInv'
  BY DEF IInv, ThreadInv, UserInv, IoInv, CallerInv, IosDone
<1>3. ReadyInv'
  BY DEF IInv, ReadyInv, ReadyCount, Settled, On
<1>4. StageInv'
  BY DEF IInv, StageInv, OneStage, Hand, OnHand, Io, IoHas, OneHand, OneIo, Inner, Held, GaveUp, Resp, Called
<1>5. CountInv'
  BY DEF IInv, CountInv, Crashed, Open, HandCounted, Io, IoHas, Held, GaveUp, Resp, InRsp
<1>6. NoStrandedRequest'
  BY DEF IInv, NoStrandedRequest, FdOpen
<1> QED BY <1>1, <1>2, <1>3, <1>4, <1>5, <1>6 DEF IInv

\* Every step keeps the invariant.
LEMMA IInvStep ==
  ASSUME IInv, [Next]_vars
  PROVE  IInv'
<1> USE DEF IInv
<1>1. ASSUME NEW t \in Users, UserStep(t) PROVE IInv'
  BY <1>1, TypeUser, ThreadUser, ReadyUser, StageUser, CountUser, StrandUser
<1>2. ASSUME NEW i \in Ios, IoStep(i) \/ IoReadyFail(i) \/ MultiEvent(i) PROVE IInv'
  <2>1. CountInv'
    BY <1>2, OpenIo, CountKeeps
  <2> QED BY <1>2, <2>1, TypeIo, ThreadIo, ReadyIo, StageIo, StrandIo
<1>3. CASE OtherStep
  BY <1>3, TypeOther, ThreadOther, ReadyOther, StageOther, CountOther, StrandOther
<1> QED BY <1>1, <1>2, <1>3, IInvStutter DEF Next, OtherStep

\* The invariant holds in every state of every behaviour.
THEOREM Inductive == Spec => []IInv
<1>1. Init => IInv
  BY InitIInv
<1>2. IInv /\ [Next]_vars => IInv'
  BY IInvStep
<1> QED BY <1>1, <1>2, PTL DEF Spec

\* Every variable keeps its type: in particular the unsigned readyIothread stays
\* in its range, and the request a thread works on is one that was made.
THEOREM Types == Spec => []TypeOK
<1>1. IInv => TypeOK
  BY DEF IInv, TypeInv
<1> QED BY <1>1, Inductive, PTL

\* No request stays in an IO thread's queue without a wake-up read, unread or
\* about to be written for it.
THEOREM NoStrandedRequestAlways == Spec => []NoStrandedRequest
<1>1. IInv => NoStrandedRequest
  BY DEF IInv
<1> QED BY <1>1, Inductive, PTL

\* The places of a request that the properties name, as the stages name them
LEMMA PlacesAreStages ==
  ASSUME IInv
  PROVE  /\ \A r \in Reqs : r \in Calling <=> HandCounted(r)
         /\ \A r \in Reqs : r \in Queued <=> \E i \in Ios : Has(reqQueue[i], r)
         /\ \A r \in Reqs : r \in InMulti <=> \E i \in Ios : r \in Held(i)
         /\ \A r \in Reqs : r \in GivenUp <=> \E i \in Ios : GaveUp(i, r)
         /\ \A r \in Reqs : (r \in Responded <=> Resp(r)) /\ (r \in InHand <=> InRsp(r))
         /\ Calling \cup Queued \cup InMulti \cup GivenUp \cup Responded \cup InHand \subseteq Reqs
<1>0. TypeOK /\ ThreadInv
  BY DEF IInv, TypeInv
<1>1. /\ \A t \in Users : pc[t] \in Counted => cur[t] \in Reqs
      /\ \A i \in Ios : pc[i] = "return" => cur[i] \in Reqs
      /\ pc[Caller] = "rsp" => cur[Caller] \in Reqs
  BY <1>0 DEF ThreadInv, UserInv, IoInv, CallerInv, InCall
<1>2. /\ \A r \in Reqs : r \in Calling <=> HandCounted(r)
      /\ Calling \subseteq Reqs
  BY <1>1 DEF Calling, HandCounted, Counted
<1>3. /\ \A r \in Reqs : r \in Queued <=> \E i \in Ios : Has(reqQueue[i], r)
      /\ Queued \subseteq Reqs
  <2>1. \A i \in Ios : \A k \in 1 .. Len(reqQueue[i]) : reqQueue[i][k] \in Reqs
    <3>1. \A i \in Ios : reqQueue[i] \in Seq(Reqs)
      BY <1>0 DEF TypeOK
    <3> QED BY <3>1
  <2> QED BY <2>1 DEF Queued, Has
<1>4. /\ \A r \in Reqs : r \in InMulti <=> \E i \in Ios : r \in Held(i)
      /\ InMulti \subseteq Reqs
  <2>1. \A i \in Ios : Held(i) \subseteq Reqs
    BY <1>0 DEF TypeOK, Held
  <2> QED BY <2>1 DEF InMulti
<1>5. /\ \A r \in Reqs : r \in GivenUp <=> \E i \in Ios : GaveUp(i, r)
      /\ GivenUp \subseteq Reqs
  BY <1>1 DEF GivenUp, GaveUp
<1>6. /\ \A r \in Reqs : r \in Responded <=> Resp(r)
      /\ Responded \subseteq Reqs
  <2>1. \A k \in 1 .. Len(respQueue) : respQueue[k] \in Reqs
    <3>1. respQueue \in Seq(Reqs)
      BY <1>0 DEF TypeOK
    <3> QED BY <3>1
  <2> QED BY <2>1 DEF Responded, Resp, Has
<1>7. /\ \A r \in Reqs : r \in InHand <=> InRsp(r)
      /\ InHand \subseteq Reqs
  BY <1>1 DEF InHand, InRsp
<1> QED BY <1>2, <1>3, <1>4, <1>5, <1>6, <1>7

\* A request is answered at most once and is in at most one place on its way:
\* the session that httpRespondCallBack deletes is not used again.
THEOREM AnsweredOnceAlways == Spec => []AnsweredOnce
<1>1. ASSUME IInv PROVE AnsweredOnce
  <2>1. /\ \A r \in Reqs : r \in Calling <=> HandCounted(r)
        /\ \A r \in Reqs : r \in Queued <=> \E i \in Ios : Has(reqQueue[i], r)
        /\ \A r \in Reqs : r \in InMulti <=> \E i \in Ios : r \in Held(i)
        /\ \A r \in Reqs : (r \in Responded <=> Resp(r)) /\ (r \in InHand <=> InRsp(r))
        /\ Responded \cup InHand \subseteq Reqs
    BY <1>1, PlacesAreStages
  <2>2. \A r \in Reqs : OneStage(r)
    BY <1>1 DEF IInv, StageInv
  <2>3. \A r \in Reqs : answered[r] <= 1
    <3>1. 0 <= 1 /\ 1 <= 1
      OBVIOUS
    <3> QED BY <2>2, <3>1 DEF OneStage
  <2>4. ASSUME NEW r \in Responded \cup InHand
        PROVE  r \notin InMulti \cup Queued \cup Calling /\ answered[r] = 0
    <3>1. r \in Reqs /\ (Resp(r) \/ Called(r))
      BY <2>1 DEF InRsp, Called
    <3>2. ~Hand(r) /\ ~Io(r) /\ answered[r] = 0
      BY <2>2, <3>1 DEF OneStage
    <3>3. r \notin Calling
      BY <2>1, <3>1, <3>2 DEF HandCounted, Hand, OnHand, InCall
    <3> QED BY <2>1, <3>1, <3>2, <3>3 DEF Io, IoHas
  <2>5. ASSUME NEW k \in 1 .. Len(respQueue), NEW l \in 1 .. Len(respQueue), respQueue[k] = respQueue[l]
        PROVE  k = l
    <3>1. respQueue[k] \in Reqs
      BY <2>1 DEF Responded
    <3> QED BY <2>2, <2>5, <3>1 DEF OneStage, Once
  <2> QED BY <2>3, <2>4, <2>5 DEF AnsweredOnce
<1> QED BY <1>1, Inductive, PTL

\* AsyncQueueNum, on which curlHttpCliExit waits, is exactly the number of
\* requests on their way from asyncReq to asyncRsp.
THEOREM AsyncNumExactAlways == Spec => []AsyncNumExact
<1>1. ASSUME IInv PROVE AsyncNumExact
  <2>1. Open = Calling \cup Queued \cup InMulti \cup GivenUp \cup Responded \cup InHand
    <3>1. \A r \in Reqs : Io(r) <=> r \in Queued \cup InMulti \cup GivenUp
      BY <1>1, PlacesAreStages DEF Io, IoHas
    <3> QED BY <1>1, <3>1, PlacesAreStages DEF Open
  <2> QED BY <1>1, <2>1 DEF IInv, CountInv, AsyncNumExact
<1> QED BY <1>1, Inductive, PTL

-----------------------------------------------------------------------------
(* The connections in the pools                                             *)

\* The callers awake in httpcliConnPop for u, and what NoLostConnNotify says of u
Awake(u) == {s \in Users : pc[s] = "pop" /\ url[cur[s]] = u}
Taken(u) == PoolWaiters(u) # {} => Len(pool[u].queue) <= Cardinality(Awake(u))

\* The numbers in Taken
LEMMA TakenCount ==
  ASSUME TypeInv, NEW u \in Urls
  PROVE  /\ Len(pool[u].queue) \in Nat /\ pool[u].queue \in Seq(Ios)
         /\ IsFiniteSet(Awake(u)) /\ Cardinality(Awake(u)) \in Nat
<1>1. IsFiniteSet(Awake(u))
  BY CurlAssumption, FS_Subset DEF Awake
<1>2. pool[u].queue \in Seq(Ios)
  BY DEF TypeInv, TypeOK, Pool
<1> QED BY <1>1, <1>2, FS_CardinalityType

\* A step after which no caller has gone to sleep or taken a connection
LEMMA TakenKeeps ==
  ASSUME TypeInv, TypeInv', NEW u \in Urls, Taken(u), Awake(u) \subseteq Awake(u)',
         PoolWaiters(u)' # {} => PoolWaiters(u) # {},
         pool'[u].queue = pool[u].queue \/ pool'[u].queue = <<>>
  PROVE  Taken(u)'
<1>1. /\ Len(pool[u].queue) \in Nat
      /\ IsFiniteSet(Awake(u)) /\ Cardinality(Awake(u)) \in Nat
  BY TakenCount
<1>2. IsFiniteSet(Awake(u)')
  BY CurlAssumption, FS_Subset DEF Awake
<1>3. Cardinality(Awake(u)') \in Nat /\ Cardinality(Awake(u)) <= Cardinality(Awake(u)')
  BY <1>2, FS_Subset, FS_CardinalityType
<1>4. Len(pool'[u].queue) = Len(pool[u].queue) \/ Len(pool'[u].queue) = 0
  OBVIOUS
<1>5. SUFFICES ASSUME PoolWaiters(u)' # {} PROVE Len(pool'[u].queue) <= Cardinality(Awake(u)')
  BY DEF Taken
<1>6. Len(pool[u].queue) <= Cardinality(Awake(u))
  BY <1>5 DEF Taken
<1> QED BY <1>1, <1>3, <1>4, <1>6

\* The steps of a caller
LEMMA TakenUser ==
  ASSUME TypeInv, TypeInv', ThreadInv, NoLostConnNotify, NEW t \in Users, UserStep(t)
  PROVE  NoLostConnNotify'
<1> USE DEF mgrVars, ioVars, multiVars, respVars, boundVars
<1> SUFFICES ASSUME NEW u \in Urls PROVE Taken(u)'
  BY DEF NoLostConnNotify, Taken, Awake
<1>0. /\ Taken(u) /\ t \in Threads /\ pc \in [Threads -> Pcs] /\ pool \in [Urls -> Pool]
      /\ url \in [Reqs -> Urls \cup {NoUrl}] /\ NoUrl \notin Urls
  BY ThreadKinds, CurlAssumption DEF TypeInv, TypeOK, Pcs, NoLostConnNotify, Taken, Awake
<1>1. \A s \in Users \ {t} : cur'[s] = cur[s] /\ pc'[s] = pc[s]
  BY UserAside
<1>2. ASSUME NEW s \in Users, pc[s] \in {"pop", "popWait"} PROVE url'[cur[s]] = url[cur[s]]
  <2>1. cur[s] \in Reqs /\ url[cur[s]] \in Urls
    BY <1>2 DEF ThreadInv, UserInv, InCall, Counted
  <2>2. ASSUME NEW r \in Reqs, NEW v \in Urls, Call(t, r, v) PROVE url'[cur[s]] = url[cur[s]]
    BY <1>0, <2>1, <2>2 DEF Call
  <2>3. url' = url \/ \E r \in Reqs, v \in Urls : Call(t, r, v)
    BY DEF UserStep, RequestStep, ExitStep, InitStart, InitDone, ExitCall, WaitReady, Count, Pop, AddUrl,
           Insert, Slot, Push, Wakeup, ExitPoll, ExitJoinWake, ExitWrite, ExitResp, ExitNotify,
           ExitJoinCall, ExitSpin
  <2> QED BY <2>2, <2>3
<1>3. CASE Pop(t) /\ pool[url[cur[t]]].queue # <<>>
  <2>1. PICK v \in Urls : v = url[cur[t]]
    BY <1>3 DEF Pop, ThreadInv, UserInv, InCall, Counted
  <2>2. /\ pool[v].queue # <<>> /\ pool' = [pool EXCEPT ![v].queue = Tail(@)]
        /\ pc[t] = "pop" /\ pc'[t] = "slot" /\ cur' = cur /\ url' = url
    BY <1>0, <1>3, <2>1 DEF Pop, Goto
  <2>3. PoolWaiters(u)' = PoolWaiters(u)
    BY <1>1, <2>2 DEF PoolWaiters
  <2>4. CASE u = v
    <3>1. Awake(u)' = Awake(u) \ {t} /\ t \in Awake(u)
      BY <1>1, <2>1, <2>2, <2>4 DEF Awake
    <3>2. pool'[u].queue = Tail(pool[u].queue)
      BY <1>0, <2>2, <2>4 DEF Pool
    <3>3. /\ Len(pool[u].queue) \in Nat /\ pool[u].queue \in Seq(Ios)
          /\ IsFiniteSet(Awake(u)) /\ Cardinality(Awake(u)) \in Nat
      BY TakenCount
    <3>4. Len(pool'[u].queue) = Len(pool[u].queue) - 1
      BY <2>2, <2>4, <3>2, <3>3, TailElements
    <3>5. Cardinality(Awake(u)') = Cardinality(Awake(u)) - 1
      BY <3>1, <3>3, FS_RemoveElement
    <3> QED BY <1>0, <2>3, <3>3, <3>4, <3>5 DEF Taken
  <2>5. CASE u # v
    <3>1. pool'[u] = pool[u]
      BY <1>0, <2>2, <2>5
    <3>2. Awake(u)' = Awake(u)
      BY <1>1, <2>1, <2>2, <2>5 DEF Awake
    <3> QED BY <1>0, <2>3, <3>1, <3>2, TakenKeeps
  <2> QED BY <2>4, <2>5
<1>4. CASE Pop(t) /\ pool[url[cur[t]]].queue = <<>>
  <2>1. PICK v \in Urls : v = url[cur[t]]
    BY <1>4 DEF Pop, ThreadInv, UserInv, InCall, Counted
  <2>2. pool[v].queue = <<>> /\ pool' = pool /\ pc[t] = "pop" /\ cur' = cur /\ url' = url
        /\ pc'[t] \in {"popWait", "addUrl"}
    BY <1>0, <1>4, <2>1 DEF Pop, Goto
  <2>3. CASE u = v
    <3>1. Len(pool'[u].queue) = 0
      BY <2>2, <2>3
    <3>2. IsFiniteSet(Awake(u)')
      BY CurlAssumption, FS_Subset DEF Awake
    <3>3. Cardinality(Awake(u)') \in Nat
      BY <3>2, FS_CardinalityType
    <3> QED BY <3>1, <3>3 DEF Taken
  <2>4. CASE u # v
    <3>1. PoolWaiters(u)' = PoolWaiters(u) /\ Awake(u)' = Awake(u)
      BY <1>1, <2>1, <2>2, <2>4 DEF PoolWaiters, Awake
    <3> QED BY <1>0, <2>2, <3>1, TakenKeeps
  <2> QED BY <2>3, <2>4
<1>5. CASE ~Pop(t)
  <2>1. /\ pc[t] \notin {"pop", "popWait"}
        /\ pool' = pool \/ Insert(t)
    BY <1>5 DEF UserStep, RequestStep, ExitStep, InitStart, InitDone, ExitCall, Call, WaitReady, Count, AddUrl,
           Insert, Slot, Push, Wakeup, ExitPoll, ExitJoinWake, ExitWrite, ExitResp, ExitNotify,
           ExitJoinCall, ExitSpin
  <2>2. pc'[t] # "popWait"
    <3>1. \A p : Goto(t, p) => pc'[t] = p
      BY <1>0 DEF Goto
    <3>2. ExitNotify(t) => pc'[t] = "exJoinCall"
      BY ExitNotifyWakes DEF Wakes
    <3> QED BY <1>5, <3>1, <3>2 DEF UserStep, RequestStep, ExitStep, InitStart, InitDone, ExitCall, Call, WaitReady,
           Count, AddUrl, Insert, Slot, Return, Push, Wakeup, ExitPoll, ExitJoinWake, ExitWrite, ExitResp,
           ExitJoinCall, ExitSpin
  <2>3. pool'[u].queue = pool[u].queue \/ pool'[u].queue = <<>>
    <3>1. CASE pool' = pool
      BY <3>1
    <3>2. CASE Insert(t)
      <4>1. PICK v \in Urls : v = url[cur[t]]
        BY <3>2 DEF Insert, ThreadInv, UserInv, InCall, Counted
      <4>2. CASE pool' = pool
        BY <4>2
      <4>3. ASSUME NEW g \in Garbage,
                   pool' = [pool EXCEPT ![v] = [in |-> TRUE, max |-> MaxConns, size |-> g, queue |-> <<>>]]
            PROVE  pool'[u].queue = pool[u].queue \/ pool'[u].queue = <<>>
        BY <1>0, <4>3
      <4> QED BY <3>2, <4>1, <4>2, <4>3 DEF Insert
    <3> QED BY <2>1, <3>1, <3>2
  <2>4. PoolWaiters(u)' \subseteq PoolWaiters(u) /\ Awake(u) \subseteq Awake(u)'
    <3>1. \A s \in Users : pc'[s] = "popWait" => s # t /\ pc[s] = "popWait" /\ url'[cur'[s]] = url[cur[s]]
      BY <1>1, <1>2, <2>2
    <3>2. \A s \in Users : pc[s] = "pop" => s # t /\ pc'[s] = "pop" /\ url'[cur'[s]] = url[cur[s]]
      BY <1>1, <1>2, <2>1
    <3> QED BY <3>1, <3>2 DEF PoolWaiters, Awake
  <2> QED BY <1>0, <2>3, <2>4, TakenKeeps
<1> QED BY <1>3, <1>4, <1>5

\* A step that at most wakes callers
LEMMA TakenWakes ==
  ASSUME TypeInv, TypeInv', NoLostConnNotify, NEW u \in Urls,
         pool'[u] = pool[u], url' = url, \A s \in Users : cur'[s] = cur[s],
         \A s \in Users : \/ pc'[s] = pc[s]
                          \/ pc[s] = "popWait" /\ pc'[s] = "pop"
                          \/ pc[s] = "pushWait" /\ pc'[s] = "push"
  PROVE  Taken(u)'
<1>1. PoolWaiters(u)' \subseteq PoolWaiters(u) /\ Awake(u) \subseteq Awake(u)'
  BY DEF PoolWaiters, Awake
<1>2. Taken(u)
  BY DEF NoLostConnNotify, Taken, Awake
<1> QED BY <1>1, <1>2, TakenKeeps

\* The steps of an IO thread: a connection that comes back wakes a caller.
LEMMA TakenIo ==
  ASSUME TypeInv, TypeInv', ThreadInv, NoLostConnNotify,
         NEW i \in Ios, IoStep(i) \/ IoReadyFail(i) \/ MultiEvent(i)
  PROVE  NoLostConnNotify'
<1> USE DEF mgrVars, ioVars, multiVars, respVars, boundVars
<1> SUFFICES ASSUME NEW u \in Urls PROVE Taken(u)'
  BY DEF NoLostConnNotify, Taken, Awake
<1>0. /\ \A s \in Users : \/ pc'[s] = pc[s]
                          \/ pc[s] = "popWait" /\ pc'[s] = "pop"
                          \/ pc[s] = "pushWait" /\ pc'[s] = "push"
      /\ \A s \in Users : cur'[s] = cur[s]
      /\ url' = url
  BY IoMoves, IoFrame, ThreadKinds DEF Wakes
<1>1. ASSUME NEW v \in Urls, ReturnConn(i, v) PROVE Taken(u)'
  <2>1. pool' = Returned(i, v) /\ NotifyOne(i, back[i], PoolWaiters(v), "pop") /\ pool \in [Urls -> Pool]
    BY <1>1 DEF ReturnConn, TypeInv, TypeOK
  <2>2. CASE u # v
    <3>1. pool'[u] = pool[u]
      BY <2>1, <2>2, ReturnedPool
    <3> QED BY <1>0, <3>1, TakenWakes
  <2>3. CASE u = v
    <3>1. back[i] \in IoPcs
      <4>1. back[i] \in {"each", "check", "pull"}
        BY DEF TypeInv, TypeOK
      <4> QED BY <4>1 DEF IoPcs
    <3>2. PoolWaiters(u) # {} => \E s \in PoolWaiters(u) : pc'[s] = "pop"
      BY <2>1, <2>3, <3>1, ReturnMoves
    <3>3. PoolWaiters(u)' \subseteq PoolWaiters(u) /\ Awake(u) \subseteq Awake(u)'
      BY <1>0 DEF PoolWaiters, Awake
    <3>4. SUFFICES ASSUME PoolWaiters(u)' # {} PROVE Len(pool'[u].queue) <= Cardinality(Awake(u)')
      BY DEF Taken
    <3>5. PICK s \in PoolWaiters(u) : pc'[s] = "pop"
      BY <3>2, <3>3, <3>4
    <3>6. s \in Awake(u)' /\ s \notin Awake(u)
      BY <1>0, <3>5 DEF PoolWaiters, Awake
    <3>7. /\ Len(pool[u].queue) \in Nat /\ pool[u].queue \in Seq(Ios)
          /\ IsFiniteSet(Awake(u)) /\ Cardinality(Awake(u)) \in Nat
      BY TakenCount
    <3>8. Cardinality(Awake(u) \cup {s}) = Cardinality(Awake(u)) + 1
      BY <3>6, <3>7, FS_AddElement
    <3>9. IsFiniteSet(Awake(u)')
      BY CurlAssumption, FS_Subset DEF Awake
    <3>10. Cardinality(Awake(u)') \in Nat /\ Cardinality(Awake(u) \cup {s}) <= Cardinality(Awake(u)')
      BY <3>3, <3>6, <3>9, FS_Subset, FS_CardinalityType
    <3>11. Len(pool[u].queue) <= Cardinality(Awake(u))
      <4>1. Taken(u)
        BY DEF NoLostConnNotify, Taken, Awake
      <4> QED BY <3>5, <4>1 DEF Taken
    <3>12. pool'[u].queue = IF pool[u].in THEN Append(pool[u].queue, i) ELSE <<i>>
      BY <2>1, <2>3, ReturnedPool
    <3>13. Len(pool'[u].queue) = Len(pool[u].queue) + 1 \/ Len(pool'[u].queue) = 1
      <4>1. Len(Append(pool[u].queue, i)) = Len(pool[u].queue) + 1
        BY <3>7
      <4>2. Len(<<i>>) = 1
        OBVIOUS
      <4> QED BY <3>12, <4>1, <4>2
    <3>14. Len(pool'[u].queue) \in Nat
      BY <3>7, <3>13
    <3>15. Cardinality(Awake(u)) + 1 <= Cardinality(Awake(u)')
      BY <3>8, <3>10
    <3>16. PICK l, m, n, k \in Nat : /\ l = Len(pool[u].queue) /\ m = Cardinality(Awake(u))
                                     /\ n = Cardinality(Awake(u)') /\ k = Len(pool'[u].queue)
      BY <3>7, <3>10, <3>14
    <3>17. l <= m /\ m + 1 <= n /\ (k = l + 1 \/ k = 1)
      BY <3>11, <3>13, <3>15, <3>16
    <3>18. k <= n
      BY <3>17
    <3> QED BY <3>16, <3>18
  <2> QED BY <2>2, <2>3
<1>2. CASE pool' = pool
  BY <1>0, <1>2, TakenWakes
<1>3. pool' = pool \/ \E v \in Urls : ReturnConn(i, v)
  BY DEF IoStep, IoCreate, IoReady, IoReadyFail, HandleRead, Launch, SetupFail, Pulling, SetupFailed, PullNothing,
         EachAged, CheckDone, EachEnd, CheckEnd, IoLeave, IoTest, MultiEvent
<1> QED BY <1>1, <1>2, <1>3

\* httpcliConnInsert's notify is never lost: while callers wait for a connection
\* of a URL, each pooled one has a caller awake to take it.
THEOREM NoLostConnNotifyAlways == Spec => []NoLostConnNotify
<1>1. ASSUME Init PROVE NoLostConnNotify
  <2>1. \A u \in Urls : PoolWaiters(u) = {}
    BY <1>1, ThreadKinds DEF Init, PoolWaiters
  <2> QED BY <2>1 DEF NoLostConnNotify
<1>2. ASSUME IInv, IInv', NoLostConnNotify, [Next]_vars PROVE NoLostConnNotify'
  <2>1. TypeInv /\ TypeInv' /\ ThreadInv
    BY <1>2 DEF IInv
  <2>2. ASSUME NEW t \in Users, UserStep(t) PROVE NoLostConnNotify'
    BY <1>2, <2>1, <2>2, TakenUser
  <2>3. ASSUME NEW i \in Ios, IoStep(i) \/ IoReadyFail(i) \/ MultiEvent(i) PROVE NoLostConnNotify'
    BY <1>2, <2>1, <2>3, TakenIo
  <2>4. CASE OtherStep
    <3>1. /\ \A s \in Users : cur'[s] = cur[s]
          /\ \A s \in Users : \/ pc'[s] = pc[s]
                              \/ pc[s] = "popWait" /\ pc'[s] = "pop"
                              \/ pc[s] = "pushWait" /\ pc'[s] = "push"
          /\ pool' = pool /\ url' = url
      BY <2>1, <2>4, OtherFrame, ThreadKinds
    <3>2. \A u \in Urls : Taken(u)'
      BY <1>2, <2>1, <3>1, TakenWakes
    <3> QED BY <3>2 DEF NoLostConnNotify, Taken, Awake
  <2>5. CASE UNCHANGED vars
    BY <1>2, <2>5 DEF vars, NoLostConnNotify, PoolWaiters
  <2> QED BY <1>2, <2>2, <2>3, <2>4, <2>5 DEF Next, OtherStep
<1> QED BY <1>1, <1>2, Inductive, PTL DEF Spec

-----------------------------------------------------------------------------
(* A quiet exit                                                             *)

\* While no exit is on, a call in progress finds every IO thread in its slot.
LEMMA SlotsFull ==
  ASSUME TypeInv, ThreadInv, ReadyInv, QuietInv, NEW t \in Users, pc[t] \in Counted \cup {"wake"}
  PROVE  ~isExit /\ Ios \subseteq slots
<1>1. ~isExit
  BY DEF QuietInv, InCall
<1>2. Settled
  BY DEF ReadyInv
<1>3. \A i \in Ios : pc[i] \notin {"off", "done"}
  BY <1>1, <1>2 DEF Settled, ThreadInv, IoInv
<1> QED BY <1>1, <1>3 DEF ThreadInv, IoInv

\* So no call fails for want of one.
LEMMA NoneDropped ==
  ASSUME TypeInv, ThreadInv, ReadyInv, QuietInv, NEW t \in Users, UserStep(t)
  PROVE  ~Drops(t) /\ pc'[t] # "crashed"
<1>0. t \in Threads /\ pc \in [Threads -> Pcs]
  BY ThreadKinds DEF TypeInv, TypeOK, Pcs
<1>1. \A p : Goto(t, p) => pc'[t] = p
  BY <1>0 DEF Goto
<1>2. CASE Slot(t)
  <2>1. pc[t] = "slot"
    BY <1>2 DEF Slot
  <2>2. Ios \subseteq slots
    BY <2>1, SlotsFull DEF Counted
  <2>3. Target(t) \in Ios
    <3>1. num[t] \in 0 .. IoNum /\ lastIndex \in Ios
      BY <2>1 DEF ThreadInv, UserInv, Counted, TypeInv, TypeOK
    <3>2. num[t] # IoNum => num[t] \in Ios
      BY <3>1, CurlAssumption DEF Ios
    <3> QED BY <3>1, <3>2 DEF Target
  <2>4. pc'[t] = "push"
    BY <1>1, <1>2, <2>2, <2>3 DEF Slot
  <2> QED BY <2>4 DEF Drops
<1>3. CASE Push(t)
  <2>1. pc[t] = "push"
    BY <1>3 DEF Push
  <2>2. num[t] \in slots
    BY <2>1, SlotsFull DEF Counted, ThreadInv, UserInv
  <2>3. pc'[t] \in {"pushWait", "wake"}
    BY <1>1, <1>3, <2>2 DEF Push
  <2> QED BY <2>3 DEF Drops
<1>4. CASE Wakeup(t)
  <2>1. pc[t] = "wake"
    BY <1>4 DEF Wakeup
  <2>2. num[t] \in slots
    BY <2>1, SlotsFull DEF ThreadInv, UserInv
  <2>3. pc'[t] = "idle"
    BY <1>1, <1>4, <2>2 DEF Wakeup
  <2> QED BY <2>1, <2>3 DEF Drops, Counted
<1>5. CASE ~Slot(t) /\ ~Push(t) /\ ~Wakeup(t)
  <2>1. ExitNotify(t) => pc'[t] = "exJoinCall"
    BY ExitNotifyWakes DEF Wakes
  <2>2. pc'[t] # "crashed"
    BY <1>1, <1>5, <2>1 DEF UserStep, RequestStep, ExitStep, InitStart, InitDone, ExitCall, Call, WaitReady, Count,
           Pop, AddUrl, Insert, ExitPoll, ExitJoinWake, ExitWrite, ExitResp, ExitJoinCall, ExitSpin
  <2> QED BY <1>5, <2>2 DEF Drops
<1> QED BY <1>2, <1>3, <1>4, <1>5

\* A call in progress, or one that begins, means that no exit is on.
LEMMA QuietCall ==
  ASSUME TypeInv, ThreadInv, QuietInv, NEW t \in Users, UserStep(t),
         pc[t] \in InCall \cup {"wake"} \/ pc'[t] \in InCall
  PROVE  ~isExit /\ ~isExit'
<1>0. t \in Threads /\ pc \in [Threads -> Pcs]
  BY ThreadKinds DEF TypeInv, TypeOK, Pcs
<1>1. \A p : Goto(t, p) => pc'[t] = p
  BY <1>0 DEF Goto
<1>2. CASE pc[t] \in InCall \cup {"wake"}
  <2>1. ~isExit
    BY <1>2 DEF QuietInv
  <2>2. isExit' = isExit
    BY <1>2 DEF UserStep, RequestStep, ExitStep, InitStart, InitDone, ExitCall, Call, WaitReady, Count,
           Pop, AddUrl, Insert, Slot, Push, Wakeup, ExitPoll, ExitJoinWake, ExitWrite, ExitResp, ExitNotify, ExitJoinCall, ExitSpin,
           mgrVars, InCall, Before, Counted
  <2> QED BY <2>1, <2>2
<1>3. CASE pc[t] \notin InCall /\ pc'[t] \in InCall
  <2>1. PICK x \in Reqs : Makes(t, x)
    BY <1>3, UserEffect DEF GoesOn, Drops, Elsewhere, Queues
  <2>2. \E r \in Reqs, u \in Urls : Call(t, r, u)
    <3>1. url' # url
      <4>1. url[x] # url'[x]
        BY <2>1 DEF Makes
      <4> QED BY <4>1
    <3> QED BY <3>1 DEF UserStep, RequestStep, ExitStep, InitStart, InitDone, ExitCall, WaitReady, Count,
           Pop, AddUrl, Insert, Slot, Push, Wakeup, ExitPoll, ExitJoinWake, ExitWrite, ExitResp, ExitNotify, ExitJoinCall, ExitSpin
  <2> QED BY <2>2 DEF Call, mgrVars
<1> QED BY <1>2, <1>3

\* A caller that is at no call leaves the requests counted alone.
LEMMA OpenElsewhere ==
  ASSUME TypeInv, NEW t \in Users, UserStep(t), Elsewhere(t)
  PROVE  Open' = Open
<1>1. /\ \A s \in Users \ {t} : cur'[s] = cur[s] /\ pc'[s] = pc[s]
      /\ \A r \in Reqs : (InRsp(r)' <=> InRsp(r)) /\ (Resp(r)' <=> Resp(r))
      /\ \A i \in Ios, r \in Reqs : reqQueue'[i] = reqQueue[i] => (IoHas(i, r)' <=> IoHas(i, r))
  BY UserAside
<1>2. \A r \in Reqs : HandCounted(r)' <=> HandCounted(r)
  BY <1>1 DEF HandCounted, Elsewhere, InCall
<1>3. \A r \in Reqs : Io(r)' <=> Io(r)
  BY <1>1 DEF Io, Elsewhere
<1> QED BY <1>1, <1>2, <1>3 DEF Open

\* A caller loses sight of no request.
LEMMA SightUser ==
  ASSUME TypeInv, ThreadInv, StageInv, NEW r \in Reqs, InSight(r), NEW t \in Users, UserStep(t), ~Drops(t)
  PROVE  InSight(r)'
<1>0. url \in [Reqs -> Urls \cup {NoUrl}] /\ reqQueue \in [Ios -> Seq(Reqs)]
  BY DEF TypeInv, TypeOK
<1>1. /\ \A s \in Users \ {t} : OnHand(s, r)' <=> OnHand(s, r)
      /\ (Called(r)' <=> Called(r)) /\ (Resp(r)' <=> Resp(r))
      /\ \A i \in Ios : reqQueue'[i] = reqQueue[i] => (IoHas(i, r)' <=> IoHas(i, r))
      /\ \A i \in Ios : (GaveUp(i, r)' <=> GaveUp(i, r))
      /\ running' = running /\ done' = done /\ answered' = answered
  BY UserAside
<1>2. ASSUME reqQueue' = reqQueue, url'[r] = url[r], OnHand(t, r) => OnHand(t, r)'
      PROVE  InSight(r)'
  <2>1. (Hand(r) => Hand(r)') /\ (Io(r) => Io(r)')
    BY <1>1, <1>2 DEF Hand, Io
  <2> QED BY <1>1, <1>2, <2>1 DEF InSight
<1>3. CASE GoesOn(t)
  BY <1>2, <1>3 DEF GoesOn, OnHand
<1>4. CASE Elsewhere(t)
  BY <1>2, <1>4 DEF Elsewhere, OnHand
<1>5. ASSUME NEW x \in Reqs, Makes(t, x) PROVE InSight(r)'
  <2>1. CASE r # x
    <3>1. url'[r] = url[r] /\ reqQueue' = reqQueue /\ ~OnHand(t, r)
      BY <1>0, <1>5, <2>1 DEF Makes, OnHand
    <3> QED BY <1>2, <3>1
  <2>2. CASE r = x
    <3>1. Hand(r)'
      BY <1>5, <2>2 DEF Makes, Hand, OnHand, InCall
    <3> QED BY <3>1 DEF InSight
  <2> QED BY <2>1, <2>2
<1>6. ASSUME NEW i \in Ios, Queues(t, i) PROVE InSight(r)'
  <2>1. /\ url' = url /\ reqQueue'[i] = Append(reqQueue[i], cur[t]) /\ \A j \in Ios \ {i} : reqQueue'[j] = reqQueue[j]
        /\ cur[t] \in Reqs /\ reqQueue[i] \in Seq(Reqs)
    BY <1>0, <1>6 DEF Queues
  <2>2. Has(reqQueue'[i], r) <=> Has(reqQueue[i], r) \/ cur[t] = r
    BY <2>1, AppendHas
  <2>3. Held(i)' = Held(i)
    BY <1>1 DEF Held
  <2>4. IoHas(i, r)' <=> IoHas(i, r) \/ cur[t] = r
    BY <1>1, <2>2, <2>3 DEF IoHas
  <2>5. Io(r) => Io(r)'
    BY <1>1, <2>1, <2>4 DEF Io
  <2>6. Hand(r) => Hand(r)' \/ Io(r)'
    <3>1. \A s \in Users : OnHand(s, r) => cur[s] = r
      BY DEF OnHand
    <3> QED BY <1>1, <2>4, <3>1 DEF Hand, Io
  <2> QED BY <1>1, <2>1, <2>5, <2>6 DEF InSight
<1> QED BY <1>3, <1>4, <1>5, <1>6, UserEffect

\* The order of curlHttpCliExit
LEMMA ExitGoes ==
  ASSUME TypeInv, NEW t \in Users, UserStep(t)
  PROVE  /\ pc'[t] = "exJoinWake" => pc[t] = "exPoll" /\ asyncNum <= 0
         /\ pc'[t] = "exWrite" => pc[t] = "exWrite" \/ (pc[t] = "exJoinWake" /\ pc[Waker] = "done")
         /\ pc'[t] = "exResp" => pc[t] = "exWrite"
         /\ pc'[t] = "exJoinCall" => pc[t] = "exResp"
         /\ pc'[t] = "exSpin" => pc[t] = "exJoinCall" /\ pc[Caller] = "done"
         /\ pc'[t] = "exDone" => pc[t] = "exSpin"
         /\ pc'[t] = "wake" => pc[t] = "push"
         /\ isExit' => isExit \/ ExitCall(t)
<1>0. t \in Threads /\ pc \in [Threads -> Pcs]
  BY ThreadKinds DEF TypeInv, TypeOK, Pcs
<1>1. \A p : Goto(t, p) => pc'[t] = p
  BY <1>0 DEF Goto
<1>2. ExitNotify(t) => pc'[t] = "exJoinCall"
  BY ExitNotifyWakes DEF Wakes
<1>3. CASE ExitStep(t)
  <2>1. isExit' = isExit
    BY <1>3 DEF ExitStep, ExitPoll, ExitJoinWake, ExitWrite, ExitResp, ExitNotify, ExitJoinCall, ExitSpin, mgrVars
  <2>2. \/ pc'[t] = "exJoinWake" /\ pc[t] = "exPoll" /\ asyncNum <= 0
        \/ pc'[t] = "exWrite" /\ pc[t] = "exWrite"
        \/ pc'[t] = "exWrite" /\ pc[t] = "exJoinWake" /\ pc[Waker] = "done"
        \/ pc'[t] = "exResp" /\ pc[t] = "exWrite"
        \/ pc'[t] = "exJoinCall" /\ pc[t] = "exResp"
        \/ pc'[t] = "exSpin" /\ pc[t] = "exJoinCall" /\ pc[Caller] = "done"
        \/ pc'[t] = "exDone" /\ pc[t] = "exSpin"
    BY <1>1, <1>2, <1>3 DEF ExitStep, ExitPoll, ExitJoinWake, ExitWrite, ExitResp, ExitNotify, ExitJoinCall, ExitSpin
  <2> QED BY <2>1, <2>2
<1>4. CASE ~ExitStep(t)
  <2>1. isExit' => isExit \/ ExitCall(t)
    BY <1>4 DEF UserStep, RequestStep, InitStart, InitDone, Call, WaitReady, Count,
           Pop, AddUrl, Insert, Slot, Push, Wakeup, mgrVars
  <2>2. \/ pc'[t] \in {"init", "idle", "wait", "count", "pop", "popWait", "addUrl", "insert", "slot", "push",
                       "pushWait", "crashed", "exPoll"}
        \/ pc'[t] = "wake" /\ pc[t] = "push"
    BY <1>1, <1>4 DEF UserStep, RequestStep, InitStart, InitDone, Call, WaitReady, Count,
           Pop, AddUrl, Insert, Slot, Return, Push, Wakeup, ExitCall
  <2> QED BY <2>1, <2>2
<1> QED BY <1>3, <1>4

\* The steps of a caller
LEMMA QuietUser ==
  ASSUME QuietExit, IInv, QuietInv, NEW t \in Users, UserStep(t)
  PROVE  QuietInv'
<1>0. TypeInv /\ ThreadInv /\ ReadyInv /\ StageInv /\ CountInv /\ asyncNum \in Int
  BY DEF IInv, TypeInv, TypeOK
<1>1. \A s \in Users \ {t} : cur'[s] = cur[s] /\ pc'[s] = pc[s]
  BY <1>0, UserAside
<1>2. ~Drops(t) /\ pc'[t] # "crashed"
  BY <1>0, NoneDropped
<1>3. ~Crashed'
  BY <1>1, <1>2 DEF QuietInv, Crashed
<1>4. \A r \in Reqs : InSight(r)'
  BY <1>0, <1>2, SightUser DEF QuietInv
<1>5. ASSUME isExit' PROVE pc[t] \notin InCall \cup {"wake"} /\ pc'[t] \notin InCall \cup {"wake"}
  <2>1. pc[t] \notin InCall \cup {"wake"} /\ pc'[t] \notin InCall
    BY <1>0, <1>5, QuietCall
  <2>2. "push" \in InCall
    BY DEF InCall, Counted
  <2>3. pc'[t] # "wake"
    BY <1>0, <2>1, <2>2, ExitGoes
  <2> QED BY <2>1, <2>3
<1>6. ASSUME isExit' PROVE \A s \in Users : pc'[s] \notin InCall \cup {"wake"}
  <2>1. SUFFICES ASSUME NEW s \in Users \ {t} PROVE pc[s] \notin InCall \cup {"wake"}
    BY <1>1, <1>5, <1>6
  <2>2. CASE isExit
    BY <2>2 DEF QuietInv
  <2>3. CASE ExitCall(t)
    <3>1. pc[s] = "idle"
      BY <2>3 DEF ExitCall
    <3> QED BY <3>1 DEF InCall, Before, Counted
  <2> QED BY <1>0, <1>6, <2>2, <2>3, ExitGoes
<1>7. ASSUME NEW s \in Users PROVE ExitOrder(s)'
  <2>1. CASE ~isExit'
    <3>1. pc'[s] \notin Exiting
      BY <1>0, <2>1, ThreadUser DEF ThreadInv, UserInv
    <3> QED BY <3>1 DEF ExitOrder, Exiting
  <2>2. CASE isExit'
    <3>1. Elsewhere(t)
      BY <1>0, <1>2, <1>5, <2>2, UserEffect DEF Makes, GoesOn, Queues, InCall
    <3>2. Open' = Open
      BY <1>0, <3>1, OpenElsewhere
    <3>3. pc'[Waker] = pc[Waker] /\ (pc[Caller] = "done" => pc'[Caller] = "done")
      BY <1>0, UserMoves, ThreadKinds DEF Wakes
    <3>4. ASSUME s # t PROVE ExitOrder(s)'
      <4>1. pc'[s] = pc[s] /\ ExitOrder(s)
        BY <1>1, <3>4 DEF QuietInv
      <4> QED BY <3>2, <3>3, <4>1 DEF ExitOrder
    <3>5. ASSUME s = t PROVE ExitOrder(s)'
      <4>0. ExitOrder(t)
        BY DEF QuietInv
      <4>1. ASSUME pc'[t] = "exJoinWake" PROVE Open = {}
        <5>1. asyncNum <= 0 /\ asyncNum = Cardinality(Open)
          BY <1>0, <4>1, ExitGoes DEF CountInv, QuietInv
        <5>2. Cardinality(Open) = 0
          BY <5>1, OpenCount
        <5> QED BY <5>2, OpenCount, FS_EmptySet
      <4>2. ASSUME pc'[t] \in Exiting \ {"exPoll", "exJoinWake"} PROVE pc[t] \in Exiting \ {"exPoll"}
        BY <1>0, <4>2, ExitGoes DEF Exiting
      <4>3. ASSUME pc'[t] \in Exiting \ {"exPoll"} PROVE Open = {}
        BY <4>0, <4>1, <4>2, <4>3 DEF ExitOrder
      <4>4. ASSUME pc'[t] \in Exiting \ {"exPoll", "exJoinWake"} PROVE pc[Waker] = "done"
        <5>1. pc[t] \in Exiting \ {"exPoll", "exJoinWake"} \/ pc[Waker] = "done"
          BY <1>0, <4>4, ExitGoes DEF Exiting
        <5> QED BY <4>0, <5>1 DEF ExitOrder
      <4>5. ASSUME pc'[t] \in {"exSpin", "exDone"} PROVE pc[Caller] = "done"
        <5>1. pc[t] = "exSpin" \/ pc[Caller] = "done"
          BY <1>0, <4>5, ExitGoes
        <5> QED BY <4>0, <5>1 DEF ExitOrder
      <4> QED BY <3>2, <3>3, <3>5, <4>3, <4>4, <4>5 DEF ExitOrder
    <3> QED BY <3>4, <3>5
  <2> QED BY <2>1, <2>2
<1> QED BY <1>3, <1>4, <1>6, <1>7 DEF QuietInv

\* A step of another thread that wakes callers at most
LEMMA QuietOthers ==
  ASSUME QuietInv, isExit' = isExit, Open' \subseteq Open,
         pc[Waker] = "done" => pc'[Waker] = "done", pc[Caller] = "done" => pc'[Caller] = "done",
         \A s \in Users : \/ pc'[s] = pc[s]
                          \/ pc[s] = "popWait" /\ pc'[s] = "pop"
                          \/ pc[s] = "pushWait" /\ pc'[s] = "push",
         \A r \in Reqs : InSight(r)'
  PROVE  QuietInv'
<1>1. \A s \in Users : /\ pc'[s] = "crashed" => pc[s] = "crashed"
                       /\ pc'[s] \in InCall \cup {"wake"} => pc[s] \in InCall \cup {"wake"}
  BY DEF InCall, Counted
<1>2. \A s \in Users : pc'[s] \in Exiting => pc'[s] = pc[s]
  BY DEF Exiting
<1>3. ASSUME NEW s \in Users PROVE ExitOrder(s)'
  <2>1. ExitOrder(s)
    BY DEF QuietInv
  <2>2. "exSpin" \in Exiting /\ "exDone" \in Exiting
    BY DEF Exiting
  <2> QED BY <1>2, <2>1, <2>2 DEF ExitOrder
<1> QED BY <1>1, <1>3 DEF QuietInv, Crashed

\* The steps of an IO thread
LEMMA QuietIo ==
  ASSUME IInv, QuietInv, NEW i \in Ios, IoStep(i) \/ IoReadyFail(i) \/ MultiEvent(i)
  PROVE  QuietInv'
<1>0. TypeInv /\ ThreadInv /\ ReadyInv /\ StageInv /\ respQueue \in Seq(Reqs)
  BY DEF IInv, TypeInv, TypeOK
<1>1. /\ \A s \in Users : \/ pc'[s] = pc[s]
                          \/ pc[s] = "popWait" /\ pc'[s] = "pop"
                          \/ pc[s] = "pushWait" /\ pc'[s] = "push"
      /\ pc'[Waker] = pc[Waker] /\ (pc[Caller] = "done" => pc'[Caller] = "done")
  BY <1>0, IoMoves, ThreadKinds DEF Wakes
<1>2. isExit' = isExit /\ url' = url /\ answered' = answered
  BY <1>0, IoFrame
<1>3. Open' = Open
  BY <1>0, OpenIo
<1>4. ASSUME NEW r \in Reqs PROVE InSight(r)'
  <2>1. /\ \A s \in Users : OnHand(s, r)' <=> OnHand(s, r)
        /\ Called(r)' <=> Called(r)
        /\ \A j \in Ios \ {i} : IoHas(j, r)' <=> IoHas(j, r)
    BY <1>0, IoAside
  <2>2. Hand(r)' <=> Hand(r)
    BY <2>1 DEF Hand
  <2>3. InSight(r)
    BY DEF QuietInv
  <2>4. CASE Inside(i)
    <3>1. respQueue' = respQueue /\ (IoHas(i, r)' <=> IoHas(i, r))
      BY <2>4 DEF Inside
    <3>2. (Io(r)' <=> Io(r)) /\ (Resp(r)' <=> Resp(r))
      BY <2>1, <3>1 DEF Io, Resp
    <3> QED BY <1>2, <2>1, <2>2, <2>3, <3>2 DEF InSight
  <2>5. ASSUME NEW x \in Reqs, Responds(i, x) PROVE InSight(r)'
    <3>1. respQueue' = Append(respQueue, x) /\ (IoHas(i, r)' <=> IoHas(i, r) /\ r # x)
      BY <2>5 DEF Responds
    <3>2. Resp(r)' <=> Resp(r) \/ x = r
      BY <1>0, <3>1, AppendHas DEF Resp
    <3>3. Io(r) => Io(r)' \/ Resp(r)'
      BY <2>1, <3>1, <3>2 DEF Io
    <3> QED BY <1>2, <2>1, <2>2, <2>3, <3>2, <3>3 DEF InSight
  <2> QED BY <1>0, <2>4, <2>5, IoEffect
<1> QED BY <1>1, <1>2, <1>3, <1>4, QuietOthers

\* The other steps
LEMMA QuietOther ==
  ASSUME IInv, QuietInv, OtherStep
  PROVE  QuietInv'
<1>0. TypeInv /\ ThreadInv /\ StageInv /\ respQueue \in Seq(Reqs)
  BY DEF IInv, TypeInv, TypeOK
<1>1. /\ \A s \in Users : \/ pc'[s] = pc[s]
                          \/ pc[s] = "popWait" /\ pc'[s] = "pop"
                          \/ pc[s] = "pushWait" /\ pc'[s] = "push"
      /\ isExit' = isExit /\ url' = url
  BY <1>0, OtherFrame
<1>2. /\ \A s \in Users : cur'[s] = cur[s] /\ (pc'[s] \in Counted <=> pc[s] \in Counted)
      /\ \A s \in Users, r \in Reqs : OnHand(s, r)' <=> OnHand(s, r)
      /\ \A i \in Ios, r \in Reqs : IoHas(i, r)' <=> IoHas(i, r)
  BY <1>0, OtherEffect
<1>3. \A r \in Reqs : (HandCounted(r)' <=> HandCounted(r)) /\ (Io(r)' <=> Io(r)) /\ (Hand(r)' <=> Hand(r))
  BY <1>2 DEF HandCounted, Io, Hand
<1>4. ASSUME NEW r \in Reqs
      PROVE  /\ Resp(r)' \/ InRsp(r)' => Resp(r) \/ InRsp(r)
             /\ Resp(r) => Resp(r)' \/ Called(r)'
             /\ Called(r) => Called(r)' \/ answered'[r] = 1
             /\ answered[r] = 1 => answered'[r] = 1
  <2>0. OneStage(r)
    BY <1>0 DEF StageInv
  <2>1. CASE /\ respQueue # <<>> /\ respQueue' = Tail(respQueue) /\ pc[Caller] = "take" /\ pc'[Caller] = "rsp"
             /\ cur'[Caller] = Head(respQueue) /\ answered' = answered
    <3>1. Has(respQueue, r) <=> Has(respQueue', r) \/ Head(respQueue) = r
      BY <1>0, <2>1, TailHas
    <3> QED BY <2>1, <3>1 DEF Resp, InRsp, Called
  <2>2. CASE pc[Caller] = "rsp" /\ pc'[Caller] = "call" /\ cur' = cur /\ respQueue' = respQueue /\ answered' = answered
    BY <2>2 DEF Resp, InRsp, Called
  <2>3. CASE /\ pc[Caller] = "call" /\ pc'[Caller] \notin {"rsp", "call"} /\ respQueue' = respQueue
             /\ answered'[cur[Caller]] = answered[cur[Caller]] + 1
             /\ \A x \in Reqs \ {cur[Caller]} : answered'[x] = answered[x]
    <3>1. CASE r = cur[Caller]
      <4>1. answered[r] = 0
        BY <2>0, <2>3, <3>1 DEF OneStage, Called
      <4>2. answered'[r] = 1
        BY <2>3, <3>1, <4>1
      <4> QED BY <2>3, <4>2 DEF Resp, InRsp, Called
    <3>2. CASE r # cur[Caller]
      BY <2>3, <3>2 DEF Resp, InRsp, Called
    <3> QED BY <3>1, <3>2
  <2>4. CASE (Called(r)' <=> Called(r)) /\ (InRsp(r)' <=> InRsp(r)) /\ respQueue' = respQueue /\ answered' = answered
    BY <2>4 DEF Resp
  <2> QED BY <1>0, <2>1, <2>2, <2>3, <2>4, OtherEffect
<1>5. Open' \subseteq Open
  BY <1>3, <1>4 DEF Open
<1>6. \A r \in Reqs : InSight(r)'
  BY <1>1, <1>3, <1>4 DEF QuietInv, InSight
<1>7. (pc[Waker] = "done" => pc'[Waker] = "done") /\ (pc[Caller] = "done" => pc'[Caller] = "done")
  <2>0. pc \in [Threads -> Pcs] /\ Caller \in Threads /\ Waker \in Threads /\ Caller # Waker
    BY <1>0, ThreadKinds DEF TypeInv, TypeOK, Pcs
  <2>1. \A p : (Goto(Caller, p) => pc'[Waker] = pc[Waker]) /\ (Goto(Waker, p) => pc'[Caller] = pc[Caller])
    BY <2>0 DEF Goto
  <2>2. CASE CallerStep
    BY <2>1, <2>2 DEF CallerStep, CallerTake, CallerSleep, CallerRsp, CallerCall
  <2>3. CASE WakerStep
    BY <2>1, <2>3 DEF WakerStep, WakerWrite, WakerEnd
  <2>4. ASSUME NEW r \in Reqs, Age(r) PROVE pc' = pc
    BY <2>4 DEF Age
  <2>5. ASSUME NEW t \in Users \cup {Caller}, WakeUnasked(t)
        PROVE  (pc[Waker] = "done" => pc'[Waker] = "done") /\ (pc[Caller] = "done" => pc'[Caller] = "done")
    <3>1. PICK p \in Pcs : Goto(t, p) /\ pc[t] # "done" /\ t # Waker
      BY <1>0, <2>5, UnaskedMoves, ThreadKinds
    <3>2. pc'[Waker] = pc[Waker]
      BY <2>0, <3>1 DEF Goto
    <3>3. t # Caller => pc'[Caller] = pc[Caller]
      BY <2>0, <3>1 DEF Goto
    <3> QED BY <3>1, <3>2, <3>3
  <2> QED BY <2>2, <2>3, <2>4, <2>5 DEF OtherStep
<1> QED BY <1>1, <1>5, <1>6, <1>7, QuietOthers

\* The invariant of a quiet exit
THEOREM QuietAlways ==
  ASSUME QuietExit
  PROVE  Spec => []QuietInv
<1>1. ASSUME Init PROVE QuietInv
  <2>1. \A t \in Users : pc[t] = "idle"
    BY <1>1, ThreadKinds DEF Init
  <2>2. ~isExit /\ \A r \in Reqs : url[r] = NoUrl
    BY <1>1 DEF Init
  <2> QED BY <2>1, <2>2 DEF QuietInv, Crashed, InSight, ExitOrder, Exiting
<1>2. ASSUME IInv, QuietInv, [Next]_vars PROVE QuietInv'
  <2>1. ASSUME NEW t \in Users, UserStep(t) PROVE QuietInv'
    BY <1>2, <2>1, QuietUser
  <2>2. ASSUME NEW i \in Ios, IoStep(i) \/ IoReadyFail(i) \/ MultiEvent(i) PROVE QuietInv'
    BY <1>2, <2>2, QuietIo
  <2>3. CASE OtherStep
    BY <1>2, <2>3, QuietOther
  <2>4. CASE UNCHANGED vars
    BY <1>2, <2>4 DEF vars, mgrVars, ioVars, multiVars, respVars, QuietInv, Crashed, InSight, ExitOrder, Hand, OnHand,
       Io, IoHas, Held, GaveUp, Resp, Called, Open, HandCounted, InRsp
  <2> QED BY <1>2, <2>1, <2>2, <2>3, <2>4 DEF Next, OtherStep
<1> QED BY <1>1, <1>2, Inductive, PTL DEF Spec

\* When curlHttpCliExit is called after start-up and while no other call is in
\* progress, its return means that every request made has been answered, and
\* that no thread of the library runs.
THEOREM ExitMeansAllAnsweredAlways ==
  ASSUME QuietExit
  PROVE  Spec => []ExitMeansAllAnswered
<1>1. ASSUME IInv, QuietInv PROVE ExitMeansAllAnswered
  <2>1. SUFFICES ASSUME NEW t \in Users, pc[t] = "exDone"
                 PROVE  /\ \A r \in Reqs : url[r] # NoUrl => answered[r] = 1
                        /\ pc[Caller] = "done" /\ pc[Waker] = "done" /\ \A i \in Ios : pc[i] = "done"
    BY DEF ExitMeansAllAnswered
  <2>2. isExit /\ \A i \in Ios : pc[i] = "done"
    BY <1>1, <2>1 DEF IInv, ThreadInv, UserInv, Exiting
  <2>3. Open = {} /\ pc[Waker] = "done" /\ pc[Caller] = "done"
    BY <1>1, <2>1 DEF QuietInv, ExitOrder, Exiting
  <2>4. \A r \in Reqs : ~Hand(r) /\ ~Io(r) /\ ~Resp(r) /\ ~Called(r)
    <3>1. \A r \in Reqs : ~Hand(r)
      BY <1>1, <2>2 DEF QuietInv, Hand, OnHand
    <3> QED BY <2>3, <3>1 DEF Open, Called
  <2> QED BY <1>1, <2>2, <2>3, <2>4 DEF QuietInv, InSight
<1> QED BY <1>1, QuietAlways, Inductive, PTL

-----------------------------------------------------------------------------
(* The client implements AnswerService, when its exit is quiet.             *)

\* What the service shows of the callback thread, in the terms of the stages
LEMMA ShownCallback ==
  /\ InCallback = {r \in Reqs : Called(r) /\ ~InRsp(r)}
  /\ InCallback' = {r \in Reqs : Called(r)' /\ ~InRsp(r)'}
  BY DEF InCallback, Called, InRsp

\* While an exit is past its poll of asyncQueNum, with no call in progress, every
\* request has had its callback or is in it.
LEMMA NoneInFlight ==
  ASSUME IInv, QuietInv, NEW t \in Users, pc[t] \in Exiting \ {"exPoll"}, NEW r \in Reqs, url[r] # NoUrl
  PROVE  Called(r) \/ answered[r] = 1
<1>1. isExit
  BY DEF IInv, ThreadInv, UserInv
<1>2. ~Hand(r)
  BY <1>1 DEF QuietInv, Hand, OnHand
<1>3. Open = {}
  BY DEF QuietInv, ExitOrder
<1>4. ~Io(r) /\ ~Resp(r)
  BY <1>3 DEF Open
<1> QED BY <1>2, <1>4 DEF QuietInv, InSight

\* An exit that has returned has joined the callback thread.
LEMMA ClosedMeansDone ==
  ASSUME IInv, QuietInv, Closed
  PROVE  isExit /\ pc[Caller] = "done"
  BY DEF IInv, ThreadInv, UserInv, QuietInv, ExitOrder, Exiting, Closed

\* The steps of the threads of the application: curlHttpRequest asks, the first
\* curlHttpCliExit that returns closes.
LEMMA ServiceUser ==
  ASSUME IInv, QuietInv, NEW t \in Users, UserStep(t)
  PROVE  [Service!Next]_(Service!vars)
<1>0. TypeInv /\ ThreadInv /\ StageInv /\ t \in Threads /\ pc \in [Threads -> Pcs]
      /\ url \in [Reqs -> Urls \cup {NoUrl}]
  BY ThreadKinds DEF IInv, TypeInv, TypeOK, Pcs
<1>1. /\ \A s \in Users \ {t} : pc'[s] = pc[s]
      /\ \A r \in Reqs : (Called(r)' <=> Called(r)) /\ (InRsp(r)' <=> InRsp(r))
      /\ answered' = answered
  BY <1>0, UserAside
<1>2. InCallback' = InCallback /\ Told' = Told
  BY <1>1, ShownCallback DEF Told
<1>3. ASSUME NEW x \in Reqs, NEW u \in Urls, Call(t, x, u)
      PROVE  [Service!Next]_(Service!vars)
  <2>1. url[x] = NoUrl /\ url' = [url EXCEPT ![x] = u] /\ u # NoUrl /\ ~isExit
    BY <1>3, CurlAssumption DEF Call
  <2>2. Asked' = Asked \cup {x} /\ x \notin Asked
    BY <1>0, <2>1 DEF Asked
  <2>3. ~Closed
    BY <2>1, ClosedMeansDone
  <2>4. pc'[t] = "wait"
    BY <1>0, <1>3 DEF Call, Goto
  <2>5. ~Closed'
    BY <1>1, <2>3, <2>4 DEF Closed
  <2>6. Closed' = Closed
    BY <2>3, <2>5 DEF Closed
  <2>7. Service!Ask(x)
    BY <1>2, <2>2, <2>3, <2>6 DEF Service!Ask
  <2> QED BY <2>7 DEF Service!Next
<1>4. CASE ExitSpin(t) /\ ~Closed
  <2>1. pc[t] = "exSpin" /\ pc'[t] = "exDone" /\ url' = url
    BY <1>0, <1>4 DEF ExitSpin, Goto
  <2>2. Asked' = Asked
    BY <2>1 DEF Asked
  <2>3. pc[Caller] = "done"
    BY <2>1 DEF QuietInv, ExitOrder
  <2>4. \A r \in Reqs : url[r] # NoUrl => answered[r] = 1
    BY <2>1, <2>3, NoneInFlight DEF Called, Exiting
  <2>5. \A r \in Reqs : url[r] = NoUrl => answered[r] = 0
    BY <1>0 DEF StageInv, OneStage
  <2>6. Asked = Told
    BY <2>4, <2>5 DEF Asked, Told
  <2>7. Closed' = TRUE
    BY <2>1 DEF Closed
  <2>8. Service!Close
    BY <1>2, <1>4, <2>2, <2>6, <2>7 DEF Service!Close
  <2> QED BY <2>8 DEF Service!Next
<1>5. CASE ExitSpin(t) /\ Closed
  <2>1. Asked' = Asked
    BY <1>5 DEF ExitSpin, Asked
  <2>2. pc'[t] = "exDone"
    BY <1>0, <1>5 DEF ExitSpin, Goto
  <2>3. Closed' = Closed
    BY <1>5, <2>2 DEF Closed
  <2> QED BY <1>2, <2>1, <2>3 DEF Service!vars
<1>6. CASE ~ExitSpin(t) /\ ~\E x \in Reqs, u \in Urls : Call(t, x, u)
  <2>1. url' = url
    BY <1>6 DEF UserStep, RequestStep, ExitStep, InitStart, InitDone, ExitCall, WaitReady, Count,
           Pop, AddUrl, Insert, Slot, Push, Wakeup, ExitPoll, ExitJoinWake, ExitWrite, ExitResp, ExitNotify,
           ExitJoinCall
  <2>2. pc[t] # "exDone"
    BY <1>6 DEF UserStep, RequestStep, ExitStep, InitStart, InitDone, ExitCall, WaitReady, Count,
           Pop, AddUrl, Insert, Slot, Push, Wakeup, ExitPoll, ExitJoinWake, ExitWrite, ExitResp, ExitNotify,
           ExitJoinCall
  <2>3. pc'[t] # "exDone"
    <3>1. CASE ExitNotify(t)
      BY <1>0, <3>1, ExitNotifyWakes DEF Wakes
    <3>2. CASE RequestStep(t)
      BY <1>0, <2>2, <3>2 DEF RequestStep, WaitReady, Count, Pop, AddUrl, Insert, Slot, Return, Push, Wakeup, Goto
    <3>3. CASE ~RequestStep(t) /\ ~ExitNotify(t)
      BY <1>0, <1>6, <2>2, <3>3 DEF UserStep, ExitStep, InitStart, InitDone, ExitCall, ExitPoll, ExitJoinWake,
             ExitWrite, ExitResp, ExitJoinCall, Goto
    <3> QED BY <3>1, <3>2, <3>3
  <2>4. Closed' = Closed
    BY <1>1, <2>2, <2>3 DEF Closed
  <2>5. Asked' = Asked
    BY <2>1 DEF Asked
  <2> QED BY <1>2, <2>4, <2>5 DEF Service!vars
<1> QED BY <1>3, <1>4, <1>5, <1>6

\* The steps of an IO thread show nothing.
LEMMA ServiceIo ==
  ASSUME IInv, NEW i \in Ios, IoStep(i) \/ IoReadyFail(i) \/ MultiEvent(i)
  PROVE  [Service!Next]_(Service!vars)
<1>0. TypeInv /\ i \in Threads
  BY ThreadKinds DEF IInv
<1>1. /\ url' = url /\ answered' = answered
      /\ \A r \in Reqs : (Called(r)' <=> Called(r)) /\ (InRsp(r)' <=> InRsp(r))
  BY <1>0, IoFrame, IoAside
<1>2. Asked' = Asked /\ Told' = Told /\ InCallback' = InCallback
  BY <1>1, ShownCallback DEF Asked, Told
<1>3. \A s \in Users : pc'[s] = "exDone" <=> pc[s] = "exDone"
  BY <1>0, IoMoves, ThreadKinds DEF Wakes
<1>4. Closed' = Closed
  BY <1>3 DEF Closed
<1> QED BY <1>2, <1>4 DEF Service!vars

\* The callback thread begins and ends the callback of the request it has taken;
\* the other steps show nothing.
LEMMA ServiceOther ==
  ASSUME IInv, QuietInv, OtherStep
  PROVE  [Service!Next]_(Service!vars)
<1>0. TypeInv /\ ThreadInv /\ StageInv
  BY DEF IInv
<1>1. /\ url' = url
      /\ \A s \in Users : pc'[s] = "exDone" <=> pc[s] = "exDone"
  BY <1>0, OtherFrame
<1>2. Asked' = Asked /\ Closed' = Closed
  BY <1>1 DEF Asked, Closed
<1>3. CASE /\ respQueue # <<>> /\ pc[Caller] = "take" /\ pc'[Caller] = "rsp" /\ answered' = answered
  <2>1. InCallback' = InCallback /\ Told' = Told
    BY <1>3 DEF InCallback, Told
  <2> QED BY <1>2, <2>1 DEF Service!vars
<1>4. CASE /\ pc[Caller] = "rsp" /\ pc'[Caller] = "call" /\ cur' = cur /\ answered' = answered
           /\ cur[Caller] \in Reqs
  <2>1. PICK r \in Reqs : r = cur[Caller]
    BY <1>4
  <2>2. Called(r) /\ OneStage(r)
    BY <1>0, <1>4, <2>1 DEF Called, StageInv
  <2>3. r \in Asked /\ r \notin Told
    BY <2>2 DEF OneStage, Asked, Told
  <2>4. InCallback = {} /\ InCallback' = {r}
    BY <1>4, <2>1 DEF InCallback
  <2>5. ~Closed
    BY <1>4, ClosedMeansDone
  <2>6. Told' = Told
    BY <1>4 DEF Told
  <2>7. Service!Begin(r)
    BY <1>2, <2>3, <2>4, <2>5, <2>6 DEF Service!Begin
  <2> QED BY <2>7 DEF Service!Next
<1>5. CASE /\ pc[Caller] = "call" /\ pc'[Caller] \notin {"rsp", "call"}
           /\ cur[Caller] \in Reqs /\ answered'[cur[Caller]] = answered[cur[Caller]] + 1
           /\ \A r \in Reqs \ {cur[Caller]} : answered'[r] = answered[r]
  <2>1. PICK r \in Reqs : r = cur[Caller]
    BY <1>5
  <2>2. Called(r) /\ OneStage(r)
    BY <1>0, <1>5, <2>1 DEF Called, StageInv
  <2>3. answered[r] = 0 /\ answered'[r] = answered[r] + 1
    BY <1>5, <2>1, <2>2 DEF OneStage
  <2>4. answered'[r] # 0 /\ \A x \in Reqs \ {r} : answered'[x] = answered[x]
    BY <1>5, <2>1, <2>3
  <2>5. Told' = Told \cup {r}
    BY <2>4 DEF Told
  <2>6. InCallback = {r} /\ InCallback' = {}
    BY <1>5, <2>1 DEF InCallback
  <2>7. Service!End(r)
    BY <1>2, <2>5, <2>6 DEF Service!End
  <2> QED BY <2>7 DEF Service!Next
<1>6. CASE /\ \A r \in Reqs : (Called(r)' <=> Called(r)) /\ (InRsp(r)' <=> InRsp(r))
           /\ answered' = answered
  <2>1. InCallback' = InCallback /\ Told' = Told
    BY <1>6, ShownCallback DEF Told
  <2> QED BY <1>2, <2>1 DEF Service!vars
<1> QED BY <1>0, <1>3, <1>4, <1>5, <1>6, OtherEffect

\* CurlHttpCli implements AnswerService when curlHttpCliExit is called after
\* start-up and while no other call is in progress: whatever its callers, IO
\* threads and callback thread do, each request that was made has its one callback
\* before the exit returns, and none begins afterwards.
THEOREM CurlIsAnswerService ==
  ASSUME QuietExit
  PROVE  Spec => IsAnswerService
<1>1. ASSUME Init PROVE Service!Init
  <2>1. pc[Caller] # "call" /\ \A t \in Users : pc[t] # "exDone"
    BY <1>1, ThreadKinds DEF Init
  <2>2. \A r \in Reqs : url[r] = NoUrl /\ answered[r] = 0
    BY <1>1 DEF Init
  <2>3. Asked = {} /\ Told = {} /\ InCallback = {} /\ Closed = FALSE
    BY <2>1, <2>2 DEF Asked, Told, InCallback, Closed
  <2> QED BY <2>3 DEF Service!Init
<1>2. ASSUME IInv, QuietInv, [Next]_vars PROVE [Service!Next]_(Service!vars)
  <2>1. ASSUME NEW t \in Users, UserStep(t) PROVE [Service!Next]_(Service!vars)
    BY <1>2, <2>1, ServiceUser
  <2>2. ASSUME NEW i \in Ios, IoStep(i) \/ IoReadyFail(i) \/ MultiEvent(i)
        PROVE  [Service!Next]_(Service!vars)
    BY <1>2, <2>2, ServiceIo
  <2>3. CASE OtherStep
    BY <1>2, <2>3, ServiceOther
  <2>4. CASE UNCHANGED vars
    BY <2>4 DEF vars, respVars, Service!vars, Asked, InCallback, Told, Closed
  <2> QED BY <1>2, <2>1, <2>2, <2>3, <2>4 DEF Next, OtherStep
<1> QED BY <1>1, <1>2, Inductive, QuietAlways, PTL DEF Spec, IsAnswerService, Service!Spec

-----------------------------------------------------------------------------
(* A blocked call is owed a connection                                      *)

\* The steps of a caller
LEMMA PoolUser ==
  ASSUME IInv, QuietInv, PoolInv, NEW t \in Users, UserStep(t)
  PROVE  PoolInv'
<1> USE DEF mgrVars, ioVars, multiVars, respVars, boundVars
<1>0. /\ TypeInv /\ ThreadInv /\ ReadyInv
      /\ t \in Threads /\ pc \in [Threads -> Pcs] /\ pool \in [Urls -> Pool]
      /\ url \in [Reqs -> Urls \cup {NoUrl}] /\ NoUrl \notin Urls /\ reqQueue \in [Ios -> Seq(Reqs)]
  BY ThreadKinds, CurlAssumption DEF IInv, TypeInv, TypeOK, Pcs
<1>a. \A p : Goto(t, p) => pc'[t] = p
  BY <1>0 DEF Goto
<1>b. ~Drops(t) /\ pc'[t] # "crashed"
  BY <1>0, NoneDropped
<1>1. /\ \A s \in Users \ {t} : cur'[s] = cur[s] /\ pc'[s] = pc[s]
      /\ \A i \in Ios, r \in Reqs : reqQueue'[i] = reqQueue[i] => (IoHas(i, r)' <=> IoHas(i, r))
      /\ \A i \in Ios, r \in Reqs : (GaveUp(i, r)' <=> GaveUp(i, r))
      /\ running' = running /\ done' = done
  BY <1>0, UserAside
<1>2. ASSUME NEW r \in Reqs, url[r] \in Urls PROVE url'[r] = url[r]
  <2>1. ASSUME NEW x \in Reqs, NEW v \in Urls, Call(t, x, v) PROVE url'[r] = url[r]
    BY <1>0, <1>2, <2>1 DEF Call
  <2>2. url' = url \/ \E x \in Reqs, v \in Urls : Call(t, x, v)
    BY DEF UserStep, RequestStep, ExitStep, InitStart, InitDone, ExitCall, WaitReady, Count, Pop, AddUrl,
           Insert, Slot, Push, Wakeup, ExitPoll, ExitJoinWake, ExitWrite, ExitResp, ExitNotify,
           ExitJoinCall, ExitSpin
  <2> QED BY <2>1, <2>2
<1>3. ASSUME NEW s \in Users, pc[s] \in Counted PROVE cur[s] \in Reqs /\ url[cur[s]] \in Urls /\ url'[cur[s]] = url[cur[s]]
  BY <1>0, <1>2, <1>3 DEF ThreadInv, UserInv, InCall
<1>4. ASSUME NEW s \in Users \ {t}, NEW u, Passed(s, u) PROVE Passed(s, u)'
  BY <1>1, <1>3, <1>4 DEF Passed, Counted
<1>5. ASSUME NEW r \in Reqs, Flying(r) PROVE Flying(r)'
  <2>1. PICK i \in Ios : Carried(i, r)
    BY <1>5 DEF Flying
  <2>2. pc'[i] = pc[i] /\ cur'[i] = cur[i]
    BY <1>0, UserMoves, UserFrame, ThreadKinds DEF Wakes
  <2>3. CASE reqQueue' = reqQueue
    BY <1>1, <2>1, <2>2, <2>3 DEF Carried, Flying
  <2>4. ASSUME NEW j \in Ios, Queues(t, j) PROVE Flying(r)'
    <3>1. /\ reqQueue'[j] = Append(reqQueue[j], cur[t]) /\ (j # i => reqQueue'[i] = reqQueue[i])
          /\ cur[t] \in Reqs /\ reqQueue[j] \in Seq(Reqs)
      BY <1>0, <2>4 DEF Queues
    <3>2. Has(reqQueue[j], r) => Has(reqQueue'[j], r)
      BY <3>1, AppendHas
    <3>3. IoHas(i, r) => IoHas(i, r)'
      BY <1>1, <3>1, <3>2 DEF IoHas, Held
    <3> QED BY <2>1, <2>2, <3>3 DEF Carried, Flying
  <2> QED BY <1>0, <2>3, <2>4, UserEffect DEF Makes, GoesOn, Drops, Elsewhere
<1>6. ASSUME NEW u \in Urls, pool'[u] = pool[u], Passed(t, u) => Owed(u)' PROVE pool'[u].in => Owed(u)'
  <2>1. SUFFICES ASSUME pool[u].in PROVE Owed(u)'
    BY <1>6
  <2>2. Owed(u)
    BY <2>1 DEF PoolInv
  <2>3. CASE pool[u].queue # <<>>
    BY <1>6, <2>3 DEF Owed
  <2>4. ASSUME NEW s \in Users, Passed(s, u) PROVE Owed(u)'
    BY <1>4, <1>6, <2>4 DEF Owed
  <2>5. ASSUME NEW r \in Reqs, url[r] = u, Flying(r) PROVE Owed(u)'
    BY <1>2, <1>5, <2>5 DEF Owed
  <2> QED BY <2>2, <2>3, <2>4, <2>5 DEF Owed
<1>7. ASSUME \A u \in Urls : pool[u].in => pool'[u].in,
             pc'[t] \in {"pop", "popWait"} => cur'[t] \in Reqs /\ url'[cur'[t]] \in Urls /\ pool[url'[cur'[t]]].in
      PROVE  \A s \in Users : pc'[s] \in {"pop", "popWait"} => pool'[url'[cur'[s]]].in
  <2>1. SUFFICES ASSUME NEW s \in Users \ {t}, pc[s] \in {"pop", "popWait"} PROVE pool'[url'[cur[s]]].in
    BY <1>1, <1>7
  <2>2. url[cur[s]] \in Urls /\ url'[cur[s]] = url[cur[s]]
    BY <1>3, <2>1 DEF Counted
  <2> QED BY <1>7, <2>1, <2>2 DEF PoolInv
<1>8. \A i \in Ios : back'[i] # "pull"
  BY <1>0, UserFrame DEF PoolInv
<1>9. CASE Pop(t)
  <2>1. PICK v \in Urls : v = url[cur[t]]
    BY <1>3, <1>9 DEF Pop, Counted
  <2>2. pc[t] = "pop" /\ cur' = cur /\ url' = url /\ cur[t] \in Reqs /\ pool[v].in /\ ~Passed(t, v)
    BY <1>3, <1>9, <2>1 DEF Pop, Counted, PoolInv, Passed
  <2>3. CASE pool[v].queue # <<>>
    <3>1. pool' = [pool EXCEPT ![v].queue = Tail(@)] /\ pc'[t] = "slot"
      BY <1>a, <1>9, <2>1, <2>3 DEF Pop
    <3>2. Passed(t, v)'
      BY <2>1, <2>2, <3>1 DEF Passed
    <3>3. \A u \in Urls : pool'[u].in = pool[u].in /\ (u # v => pool'[u] = pool[u])
      BY <1>0, <3>1 DEF Pool
    <3>4. \A u \in Urls : Passed(t, u) => Owed(u)'
      BY <2>2 DEF Passed
    <3>5. \A u \in Urls : pool'[u].in => Owed(u)'
      BY <1>6, <3>2, <3>3, <3>4 DEF Owed
    <3> QED BY <1>7, <1>8, <3>1, <3>3, <3>5 DEF PoolInv
  <2>4. CASE pool[v].queue = <<>>
    <3>1. pool' = pool
      BY <1>9, <2>1, <2>4 DEF Pop
    <3>2. \A u \in Urls : Passed(t, u) => Owed(u)'
      BY <2>2 DEF Passed
    <3>3. \A u \in Urls : pool'[u].in => Owed(u)'
      BY <1>6, <3>1, <3>2
    <3> QED BY <1>7, <1>8, <2>1, <2>2, <3>1, <3>3 DEF PoolInv
  <2> QED BY <2>3, <2>4
<1>10. CASE Count(t)
  <2>1. pool' = pool /\ pc[t] = "count" /\ cur' = cur /\ url' = url
    BY <1>10 DEF Count
  <2>2. cur[t] \in Reqs /\ url[cur[t]] \in Urls
    BY <1>0, <2>1 DEF ThreadInv, UserInv, InCall, Before
  <2>3. pc'[t] \in {"pop", "popWait"} => pool[url[cur[t]]].in
    BY <1>a, <1>10 DEF Count
  <2>4. \A u \in Urls : Passed(t, u) => Owed(u)'
    BY <2>1 DEF Passed
  <2>5. \A u \in Urls : pool'[u].in => Owed(u)'
    BY <1>6, <2>1, <2>4
  <2> QED BY <1>7, <1>8, <2>1, <2>2, <2>3, <2>5 DEF PoolInv
<1>11. CASE Insert(t)
  <2>1. PICK v \in Urls : v = url[cur[t]]
    BY <1>3, <1>11 DEF Insert, Counted
  <2>2. pc'[t] = "slot" /\ cur' = cur /\ url' = url /\ cur[t] \in Reqs
    BY <1>3, <1>a, <1>11 DEF Insert, Counted
  <2>3. Passed(t, v)' /\ \A u \in Urls : Passed(t, u) => u = v
    BY <2>1, <2>2 DEF Passed
  <2>4. \A u \in Urls : (u # v => pool'[u] = pool[u]) /\ (pool[u].in => pool'[u].in)
    <3>1. CASE pool' = pool
      BY <3>1
    <3>2. ASSUME NEW g \in Garbage,
                 pool' = [pool EXCEPT ![v] = [in |-> TRUE, max |-> MaxConns, size |-> g, queue |-> <<>>]]
          PROVE  \A u \in Urls : (u # v => pool'[u] = pool[u]) /\ (pool[u].in => pool'[u].in)
      BY <1>0, <3>2
    <3> QED BY <1>11, <2>1, <3>1, <3>2 DEF Insert
  <2>5. \A u \in Urls : pool'[u].in => Owed(u)'
    BY <1>6, <2>3, <2>4 DEF Owed
  <2> QED BY <1>7, <1>8, <2>2, <2>4, <2>5 DEF PoolInv
<1>12. CASE Push(t) /\ pc'[t] = "wake"
  <2>1. PICK x \in Reqs : x = cur[t]
    BY <1>3, <1>12 DEF Push, Counted
  <2>2. PICK v \in Urls : v = url[x]
    BY <1>3, <1>12, <2>1 DEF Push, Counted
  <2>3. pc[t] = "push" /\ pool' = pool /\ cur' = cur /\ url' = url
    BY <1>12 DEF Push
  <2>4. PICK i \in Ios : Queues(t, i)
    BY <1>0, <1>12, <2>3, UserEffect DEF Makes, GoesOn, Drops, Elsewhere, InCall, Before, Counted
  <2>5. reqQueue'[i] = Append(reqQueue[i], x) /\ reqQueue[i] \in Seq(Reqs)
    BY <1>0, <2>1, <2>4 DEF Queues
  <2>6. Flying(x)'
    <3>1. Has(reqQueue'[i], x)
      BY <2>5, AppendHas
    <3> QED BY <3>1 DEF Flying, Carried, IoHas
  <2>7. \A u \in Urls : Passed(t, u) => Owed(u)'
    BY <2>1, <2>2, <2>3, <2>6 DEF Passed, Owed
  <2>8. \A u \in Urls : pool'[u].in => Owed(u)'
    BY <1>6, <2>3, <2>7
  <2> QED BY <1>7, <1>8, <1>12, <2>3, <2>8 DEF PoolInv
<1>13. CASE AddUrl(t) \/ Slot(t) \/ (Push(t) /\ pc'[t] # "wake")
  <2>1. pool' = pool /\ url' = url /\ reqQueue' = reqQueue /\ pc[t] \in {"addUrl", "slot", "push"}
    BY <1>a, <1>13 DEF AddUrl, Slot, Push
  <2>2. pc'[t] \in {"insert", "slot", "push", "pushWait"} /\ cur' = cur
    <3>1. CASE AddUrl(t)
      BY <1>a, <3>1 DEF AddUrl
    <3>2. CASE Slot(t)
      <4>1. (pc'[t] = "push" /\ cur' = cur) \/ pc'[t] = "idle"
        BY <1>a, <3>2 DEF Slot, Return
      <4>2. pc'[t] # "idle"
        BY <1>b, <2>1, <3>2 DEF Drops, Slot, InCall, Before, Counted
      <4> QED BY <4>1, <4>2
    <3>3. CASE Push(t) /\ pc'[t] # "wake"
      BY <1>a, <1>b, <3>3 DEF Push
    <3> QED BY <1>13, <3>1, <3>2, <3>3
  <2>3. \A u \in Urls : Passed(t, u) => Owed(u)'
    BY <2>1, <2>2 DEF Passed, Owed
  <2>4. \A u \in Urls : pool'[u].in => Owed(u)'
    BY <1>6, <2>1, <2>3
  <2> QED BY <1>7, <1>8, <2>1, <2>2, <2>4 DEF PoolInv
<1>14. CASE ~Pop(t) /\ ~Count(t) /\ ~Insert(t) /\ ~AddUrl(t) /\ ~Slot(t) /\ ~Push(t)
  <2>1. pool' = pool /\ pc[t] \notin {"addUrl", "insert", "slot", "push", "pushWait"}
    BY <1>14 DEF UserStep, RequestStep, ExitStep, InitStart, InitDone, ExitCall, Call, WaitReady, Wakeup,
           ExitPoll, ExitJoinWake, ExitWrite, ExitResp, ExitNotify, ExitJoinCall, ExitSpin
  <2>2. pc'[t] \notin {"pop", "popWait"}
    <3>1. ExitNotify(t) => pc'[t] = "exJoinCall"
      BY <1>0, ExitNotifyWakes DEF Wakes
    <3> QED BY <1>a, <1>14, <3>1 DEF UserStep, RequestStep, ExitStep, InitStart, InitDone, ExitCall, Call, WaitReady,
           Wakeup, ExitPoll, ExitJoinWake, ExitWrite, ExitResp, ExitJoinCall, ExitSpin
  <2>3. \A u \in Urls : pool'[u].in => Owed(u)'
    BY <1>6, <2>1 DEF Passed
  <2> QED BY <1>7, <1>8, <2>1, <2>2, <2>3 DEF PoolInv
<1> QED BY <1>9, <1>10, <1>11, <1>12, <1>13, <1>14

\* IO thread i keeps a request, or returns its connection.
LEMMA IoFlies ==
  ASSUME IInv, PoolInv, NEW i \in Ios, IoStep(i) \/ IoReadyFail(i) \/ MultiEvent(i),
         NEW r \in Reqs, Carried(i, r), ~(\E u \in Urls : ReturnConn(i, u) /\ cur[i] = r)
  PROVE  Carried(i, r)'
<1> USE DEF mgrVars, ioVars, multiVars, respVars, boundVars
<1>0. /\ TypeInv /\ ThreadInv /\ ReadyInv /\ StageInv /\ respQueue \in Seq(Reqs)
      /\ cur \in [Threads -> Reqs \cup {NoReq}] /\ i \in Threads
  BY ThreadKinds DEF IInv, TypeInv, TypeOK
<1>1. ~SetupFailed(i)
  BY DEF PoolInv, SetupFailed
<1>2. ASSUME pc[i] = "return", cur[i] = r PROVE FALSE
  BY <1>1, <1>2 DEF IoStep, IoCreate, IoReady, IoReadyFail, HandleRead, Launch, SetupFail, Pulling, PullNothing,
         EachAged, CheckDone, EachEnd, CheckEnd, ReturnConn, IoLeave, IoTest, MultiEvent
<1>3. IoHas(i, r)
  BY <1>2 DEF Carried
<1>4. ASSUME NEW y \in Reqs, EachAged(i, y) \/ CheckDone(i, y) PROVE Carried(i, r)'
  <2>1. Respond(i, y, "return") /\ cur'[i] = y
    BY <1>0, <1>4 DEF EachAged, CheckDone
  <2>2. "return" \in IoPcs
    BY DEF IoPcs
  <2>3. pc'[i] = "return" /\ respQueue' = Append(respQueue, y)
    BY <1>0, <2>1, <2>2, RespondMoves DEF Wakes, Respond
  <2>4. CASE Inside(i)
    BY <1>3, <2>4 DEF Inside, Carried
  <2>5. ASSUME NEW x \in Reqs, Responds(i, x) PROVE Carried(i, r)'
    <3>1. Append(respQueue, x) = Append(respQueue, y)
      BY <2>3, <2>5 DEF Responds
    <3>2. \A z \in Reqs : Append(respQueue, z)[Len(respQueue) + 1] = z
      BY <1>0
    <3>3. x = y
      BY <3>1, <3>2
    <3> QED BY <1>3, <2>1, <2>3, <2>5, <3>3 DEF Responds, Carried
  <2> QED BY <1>0, <2>4, <2>5, IoEffect
<1>5. ASSUME \A y \in Reqs : ~EachAged(i, y) /\ ~CheckDone(i, y) PROVE Carried(i, r)'
  <2>1. respQueue' = respQueue
    BY <1>1, <1>5 DEF IoStep, IoCreate, IoReady, IoReadyFail, HandleRead, Launch, SetupFail, Pulling, PullNothing,
         EachEnd, CheckEnd, ReturnConn, IoLeave, IoTest, MultiEvent
  <2>2. ASSUME NEW x \in Reqs, Responds(i, x) PROVE FALSE
    <3>1. Append(respQueue, x) = respQueue
      BY <2>1, <2>2 DEF Responds
    <3>2. Len(Append(respQueue, x)) = Len(respQueue) + 1 /\ Len(respQueue) \in Nat
      BY <1>0
    <3> QED BY <3>1, <3>2
  <2>3. Inside(i)
    BY <1>0, <2>2, IoEffect
  <2> QED BY <1>3, <2>3 DEF Inside, Carried
<1> QED BY <1>4, <1>5

\* A step that leaves the callers where they are, or wakes them, takes nothing
\* from the pools and brings back what it no longer carries
LEMMA PoolKeeps ==
  ASSUME PoolInv, url' = url, \A s \in Users : cur'[s] = cur[s],
         \A s \in Users : \/ pc'[s] = pc[s]
                          \/ pc[s] = "popWait" /\ pc'[s] = "pop"
                          \/ pc[s] = "pushWait" /\ pc'[s] = "push",
         NEW u \in Urls, pool'[u].in => pool[u].in \/ pool'[u].queue # <<>>,
         pool[u].queue # <<>> => pool'[u].queue # <<>>,
         \A r \in Reqs : url[r] = u /\ Flying(r) => Flying(r)' \/ pool'[u].queue # <<>>
  PROVE  pool'[u].in => Owed(u)'
<1>1. SUFFICES ASSUME pool[u].in, pool'[u].queue = <<>> PROVE Owed(u)'
  BY DEF Owed
<1>2. Owed(u) /\ pool[u].queue = <<>>
  BY <1>1 DEF PoolInv
<1>3. \A s \in Users : Passed(s, u) => Passed(s, u)'
  BY DEF Passed
<1> QED BY <1>1, <1>2, <1>3 DEF Owed

\* The steps of an IO thread
LEMMA PoolIo ==
  ASSUME ~Redirect, ~SetupMayFail, IInv, PoolInv, NEW i \in Ios, IoStep(i) \/ IoReadyFail(i) \/ MultiEvent(i)
  PROVE  PoolInv'
<1> USE DEF mgrVars, ioVars, multiVars, respVars, boundVars
<1>0. /\ TypeInv /\ ThreadInv /\ pool \in [Urls -> Pool] /\ back \in [Ios -> {"each", "check", "pull"}]
  BY DEF IInv, TypeInv, TypeOK
<1>1. /\ \A s \in Users : \/ pc'[s] = pc[s]
                          \/ pc[s] = "popWait" /\ pc'[s] = "pop"
                          \/ pc[s] = "pushWait" /\ pc'[s] = "push"
      /\ \A j \in Ios \ {i} : pc'[j] = pc[j] /\ cur'[j] = cur[j]
      /\ \A s \in Users : cur'[s] = cur[s]
      /\ url' = url
  BY <1>0, IoMoves, IoFrame, ThreadKinds DEF Wakes
<1>2. \A j \in Ios \ {i}, r \in Reqs : Carried(j, r) => Carried(j, r)'
  BY <1>0, <1>1, IoAside DEF Carried
<1>3. \A j \in Ios : back'[j] # "pull"
  <2>1. back' = back \/ back' = [back EXCEPT ![i] = "each"] \/ back' = [back EXCEPT ![i] = "check"]
    BY DEF IoStep, IoCreate, IoReady, IoReadyFail, HandleRead, Launch, SetupFail, SetupFailed, Pulling, PullNothing,
         EachAged, CheckDone, EachEnd, CheckEnd, ReturnConn, IoLeave, IoTest, MultiEvent
  <2> QED BY <1>0, <2>1 DEF PoolInv
<1>4. ASSUME \A u \in Urls : pool[u].in => pool'[u].in
      PROVE  \A s \in Users : pc'[s] \in {"pop", "popWait"} => pool'[url'[cur'[s]]].in
  <2>1. \A s \in Users : pc'[s] \in {"pop", "popWait"} => pc[s] \in {"pop", "popWait"}
    BY <1>1
  <2>2. \A s \in Users : pc[s] \in {"pop", "popWait"} => url[cur[s]] \in Urls
    BY <1>0 DEF ThreadInv, UserInv, InCall, Counted
  <2> QED BY <1>1, <1>4, <2>1, <2>2 DEF PoolInv
<1>5. ASSUME NEW v \in Urls, ReturnConn(i, v) PROVE PoolInv'
  <2>1. pool' = Returned(i, v) /\ v = url[cur[i]]
    BY <1>5 DEF ReturnConn
  <2>2. pool'[v].in /\ pool'[v].queue # <<>> /\ \A u \in Urls \ {v} : pool'[u] = pool[u]
    <3>1. /\ pool'[v].queue = IF pool[v].in THEN Append(pool[v].queue, i) ELSE <<i>>
          /\ pool'[v].in
          /\ \A u \in Urls \ {v} : pool'[u] = pool[u]
      BY <1>0, <2>1, ReturnedPool
    <3>2. Append(pool[v].queue, i) # <<>> /\ <<i>> # <<>>
      <4>1. pool[v].queue \in Seq(Ios)
        BY <1>0, TakenCount
      <4>2. Has(Append(pool[v].queue, i), i)
        BY <4>1, AppendHas
      <4>3. ~Has(<<>>, i)
        BY DEF Has
      <4>4. Append(pool[v].queue, i) # <<>>
        BY <4>2, <4>3
      <4> QED BY <4>4
    <3> QED BY <3>1, <3>2
  <2>3. ASSUME NEW u \in Urls \ {v}, NEW r \in Reqs, url[r] = u, Flying(r) PROVE Flying(r)'
    <3>1. cur[i] # r
      BY <2>1, <2>3
    <3>2. PICK j \in Ios : Carried(j, r)
      BY <2>3 DEF Flying
    <3>3. Carried(j, r)'
      BY <1>2, <3>1, <3>2, IoFlies
    <3> QED BY <3>3 DEF Flying
  <2>4. \A u \in Urls : pool'[u].in => Owed(u)'
    <3> SUFFICES ASSUME NEW u \in Urls PROVE pool'[u].in => Owed(u)'
      OBVIOUS
    <3>1. CASE u = v
      BY <2>2, <3>1 DEF Owed
    <3>2. CASE u # v
      BY <1>1, <2>2, <2>3, <3>2, PoolKeeps
    <3> QED BY <3>1, <3>2
  <2>5. \A u \in Urls : pool[u].in => pool'[u].in
    BY <2>2
  <2> QED BY <1>3, <1>4, <2>4, <2>5 DEF PoolInv
<1>6. CASE ~\E v \in Urls : ReturnConn(i, v)
  <2>1. pool' = pool
    BY <1>6 DEF IoStep, IoCreate, IoReady, IoReadyFail, HandleRead, Launch, SetupFail, SetupFailed, Pulling, PullNothing,
         EachAged, CheckDone, EachEnd, CheckEnd, IoLeave, IoTest, MultiEvent
  <2>2. \A r \in Reqs : Flying(r) => Flying(r)'
    BY <1>2, <1>6, IoFlies DEF Flying
  <2>3. \A u \in Urls : pool'[u].in => Owed(u)'
    BY <1>1, <2>1, <2>2, PoolKeeps
  <2> QED BY <1>3, <1>4, <2>1, <2>3 DEF PoolInv
<1> QED BY <1>5, <1>6

\* The other steps
LEMMA PoolOther ==
  ASSUME IInv, PoolInv, OtherStep
  PROVE  PoolInv'
<1>0. TypeInv /\ ThreadInv
  BY DEF IInv
<1>1. /\ \A s \in Users : \/ pc'[s] = pc[s]
                          \/ pc[s] = "popWait" /\ pc'[s] = "pop"
                          \/ pc[s] = "pushWait" /\ pc'[s] = "push"
      /\ \A j \in Ios : pc'[j] = pc[j] /\ cur'[j] = cur[j]
      /\ \A s \in Users : cur'[s] = cur[s]
      /\ url' = url /\ pool' = pool /\ back' = back
  BY <1>0, OtherFrame, ThreadKinds
<1>2. \A r \in Reqs : Flying(r) => Flying(r)'
  BY <1>0, <1>1, OtherEffect DEF Flying, Carried
<1>3. \A u \in Urls : pool'[u].in => Owed(u)'
  BY <1>1, <1>2, PoolKeeps
<1>4. \A s \in Users : pc'[s] \in {"pop", "popWait"} => pc[s] \in {"pop", "popWait"}
  BY <1>1
<1> QED BY <1>1, <1>3, <1>4 DEF PoolInv

\* Without redirects, without requests given up and with a quiet exit, a call
\* blocked in httpcliConnPop has someone to wait for: a request of its URL whose
\* connection will come back, or a caller awake to take one that has.
THEOREM BlockedIsOwedAlways ==
  ASSUME QuietExit, ~Redirect, ~SetupMayFail
  PROVE  Spec => []BlockedIsOwed
<1>1. ASSUME Init PROVE PoolInv
  <2>1. \A t \in Users : pc[t] = "idle"
    BY <1>1, ThreadKinds DEF Init
  <2>2. (\A u \in Urls : ~pool[u].in) /\ \A i \in Ios : back[i] = "each"
    BY <1>1 DEF Init
  <2> QED BY <2>1, <2>2 DEF PoolInv
<1>2. ASSUME IInv, QuietInv, PoolInv, [Next]_vars PROVE PoolInv'
  <2>1. ASSUME NEW t \in Users, UserStep(t) PROVE PoolInv'
    BY <1>2, <2>1, PoolUser
  <2>2. ASSUME NEW i \in Ios, IoStep(i) \/ IoReadyFail(i) \/ MultiEvent(i) PROVE PoolInv'
    BY <1>2, <2>2, PoolIo
  <2>3. CASE OtherStep
    BY <1>2, <2>3, PoolOther
  <2>4. CASE UNCHANGED vars
    BY <1>2, <2>4 DEF vars, mgrVars, ioVars, multiVars, respVars, PoolInv, Owed, Passed, Flying, Carried, IoHas, Held, GaveUp
  <2> QED BY <1>2, <2>1, <2>2, <2>3, <2>4 DEF Next, OtherStep
<1>3. ASSUME IInv, PoolInv, NoLostConnNotify PROVE BlockedIsOwed
  <2> SUFFICES ASSUME NEW u \in Urls, NEW t \in PoolWaiters(u)
               PROVE  \/ Admitted(u, t) # {} \/ InFlight(u) # {}
                      \/ \E s \in Users \ {t} : pc[s] = "pop" /\ url[cur[s]] = u /\ pool[u].queue # <<>>
    BY DEF BlockedIsOwed
  <2>1. t \in Users /\ pc[t] = "popWait" /\ pool[u].in
    BY <1>3 DEF PoolWaiters, PoolInv
  <2>2. Owed(u)
    BY <1>3, <2>1 DEF PoolInv
  <2>3. ASSUME pool[u].queue # <<>> PROVE \E s \in Users \ {t} : pc[s] = "pop" /\ url[cur[s]] = u
    <3>1. Len(pool[u].queue) <= Cardinality(Awake(u))
      BY <1>3 DEF NoLostConnNotify, Awake
    <3>2. pool[u].queue \in Seq(Ios) /\ IsFiniteSet(Awake(u)) /\ Cardinality(Awake(u)) \in Nat
      BY <1>3, TakenCount DEF IInv
    <3>3. Len(pool[u].queue) \in Nat \ {0}
      BY <2>3, <3>2, TailElements
    <3>4. Cardinality(Awake(u)) # 0
      BY <3>1, <3>2, <3>3
    <3>5. Awake(u) # {}
      BY <3>4, FS_EmptySet
    <3> QED BY <2>1, <3>5 DEF Awake
  <2>4. ASSUME NEW s \in Users, Passed(s, u) PROVE Admitted(u, t) # {}
    BY <2>1, <2>4 DEF Passed, Admitted
  <2>5. ASSUME NEW r \in Reqs, url[r] = u, Flying(r) PROVE InFlight(u) # {}
    <3>1. r \in Queued \cup InMulti \/ \E i \in Ios : pc[i] = "return" /\ cur[i] = r
      BY <1>3, <2>5, PlacesAreStages DEF Flying, Carried, IoHas, GaveUp
    <3> QED BY <2>5, <3>1 DEF InFlight
  <2> QED BY <2>2, <2>3, <2>4, <2>5 DEF Owed
<1> QED BY <1>1, <1>2, <1>3, QuietAlways, NoLostConnNotifyAlways, Inductive, PTL DEF Spec

=============================================================================
