-------------------------- MODULE RedisAsyncProofs --------------------------
(***************************************************************************)
(* Proofs about RedisAsync, for any numbers of callers, callback threads,  *)
(* commands, lost connections and failed attempts.                         *)
(*                                                                         *)
(* A command is followed through the stages of its life by predicates: in  *)
(* the hands of its caller, Queued, Pending, in a Result, Calling. MoveInv *)
(* says that it is in one stage at a time, DriverInv the same of what will *)
(* connect the server, ToldInv of the last state task of the pool,         *)
(* and ExitInv ties asyncCmdNum to the commands that are open.             *)
(***************************************************************************)
EXTENDS RedisAsync, FiniteSetTheorems, TLAPS

\* c is in the sequence s, and not twice; and the same for orders
Has(s, c) == \E k \in 1 .. Len(s) : s[k] = c
Once(s, c) == \A j, k \in 1 .. Len(s) : s[j] = c /\ s[k] = c => j = k
HasCmd(s, c) == \E k \in 1 .. Len(s) : s[k].cmd = c
OnceCmd(s, c) == \A j, k \in 1 .. Len(s) : s[j].cmd = c /\ s[k].cmd = c => j = k

-----------------------------------------------------------------------------
(* Sequences                                                                *)

\* What Append adds
LEMMA AppendHas ==
  ASSUME NEW S, NEW s \in Seq(S), NEW e \in S, NEW c
  PROVE  /\ Append(s, e) \in Seq(S)
         /\ Has(Append(s, e), c) <=> Has(s, c) \/ e = c
         /\ Once(s, c) /\ (e = c => ~Has(s, c)) => Once(Append(s, e), c)
<1>1. Len(s) \in Nat /\ Len(Append(s, e)) = Len(s) + 1 /\ Append(s, e) \in Seq(S)
      /\ Append(s, e)[Len(s) + 1] = e /\ \A k \in 1 .. Len(s) : Append(s, e)[k] = s[k]
  OBVIOUS
<1>2. \A k \in 1 .. Len(s) + 1 : k = Len(s) + 1 \/ k \in 1 .. Len(s)
  BY <1>1
<1>3. Len(s) + 1 \in 1 .. Len(s) + 1 /\ \A k \in 1 .. Len(s) : k \in 1 .. Len(s) + 1
  BY <1>1
<1>4. Has(Append(s, e), c) <=> Has(s, c) \/ e = c
  BY <1>1, <1>2, <1>3 DEF Has
<1>5. Once(s, c) /\ (e = c => ~Has(s, c)) => Once(Append(s, e), c)
  BY <1>1, <1>2, <1>3 DEF Has, Once
<1> QED BY <1>1, <1>4, <1>5

\* What Append adds to a sequence of orders
LEMMA AppendHasCmd ==
  ASSUME NEW s \in Seq(Order), NEW e \in Order, NEW c
  PROVE  /\ Append(s, e) \in Seq(Order)
         /\ HasCmd(Append(s, e), c) <=> HasCmd(s, c) \/ e.cmd = c
         /\ OnceCmd(s, c) /\ (e.cmd = c => ~HasCmd(s, c)) => OnceCmd(Append(s, e), c)
<1>1. Len(s) \in Nat /\ Len(Append(s, e)) = Len(s) + 1 /\ Append(s, e) \in Seq(Order)
      /\ Append(s, e)[Len(s) + 1] = e /\ \A k \in 1 .. Len(s) : Append(s, e)[k] = s[k]
  OBVIOUS
<1>2. \A k \in 1 .. Len(s) + 1 : k = Len(s) + 1 \/ k \in 1 .. Len(s)
  BY <1>1
<1>3. Len(s) + 1 \in 1 .. Len(s) + 1 /\ \A k \in 1 .. Len(s) : k \in 1 .. Len(s) + 1
  BY <1>1
<1>4. HasCmd(Append(s, e), c) <=> HasCmd(s, c) \/ e.cmd = c
  BY <1>1, <1>2, <1>3 DEF HasCmd
<1>5. OnceCmd(s, c) /\ (e.cmd = c => ~HasCmd(s, c)) => OnceCmd(Append(s, e), c)
  BY <1>1, <1>2, <1>3 DEF HasCmd, OnceCmd
<1> QED BY <1>1, <1>4, <1>5

\* The elements of a tail are those at the indices after the first.
LEMMA TailElements ==
  ASSUME NEW S, NEW s \in Seq(S), s # <<>>
  PROVE  /\ Head(s) \in S /\ Tail(s) \in Seq(S) /\ Head(s) = s[1]
         /\ Len(s) \in Nat \ {0} /\ Len(Tail(s)) = Len(s) - 1
         /\ \A k \in 1 .. Len(s) - 1 : Tail(s)[k] = s[k + 1] /\ k + 1 \in 1 .. Len(s)
         /\ \A k \in 1 .. Len(s) : k = 1 \/ (k - 1 \in 1 .. Len(s) - 1 /\ s[k] = Tail(s)[k - 1])
<1>1. Head(s) \in S /\ Tail(s) \in Seq(S) /\ Head(s) = s[1] /\ Len(s) \in Nat \ {0}
      /\ Len(Tail(s)) = Len(s) - 1
  OBVIOUS
<1>2. \A k \in 1 .. Len(s) - 1 : Tail(s)[k] = s[k + 1] /\ k + 1 \in 1 .. Len(s)
  BY <1>1
<1>3. ASSUME NEW k \in 1 .. Len(s), k # 1
      PROVE  k - 1 \in 1 .. Len(s) - 1 /\ (k - 1) + 1 = k
  BY <1>1, <1>3
<1>4. ASSUME NEW k \in 1 .. Len(s), k # 1
      PROVE  k - 1 \in 1 .. Len(s) - 1 /\ s[k] = Tail(s)[k - 1]
  BY <1>2, <1>3, <1>4
<1> QED BY <1>1, <1>2, <1>4

\* What Tail takes away
LEMMA TailHas ==
  ASSUME NEW S, NEW s \in Seq(S), s # <<>>, NEW c
  PROVE  /\ Head(s) \in S /\ Tail(s) \in Seq(S)
         /\ Has(s, c) <=> Has(Tail(s), c) \/ Head(s) = c
         /\ Once(s, c) => Once(Tail(s), c) /\ (Head(s) = c => ~Has(Tail(s), c))
<1>1. /\ Head(s) \in S /\ Tail(s) \in Seq(S) /\ Head(s) = s[1]
      /\ Len(s) \in Nat \ {0} /\ Len(Tail(s)) = Len(s) - 1
      /\ \A k \in 1 .. Len(s) - 1 : Tail(s)[k] = s[k + 1] /\ k + 1 \in 1 .. Len(s)
      /\ \A k \in 1 .. Len(s) : k = 1 \/ (k - 1 \in 1 .. Len(s) - 1 /\ s[k] = Tail(s)[k - 1])
  BY TailElements
<1>2. 1 \in 1 .. Len(s) /\ \A j, k \in 1 .. Len(s) - 1 : k + 1 # 1 /\ (j + 1 = k + 1 => j = k)
  BY <1>1
<1>a. Has(s, c) => Has(Tail(s), c) \/ Head(s) = c
  BY <1>1 DEF Has
<1>b. Has(Tail(s), c) \/ Head(s) = c => Has(s, c)
  BY <1>1, <1>2 DEF Has
<1>3. Has(s, c) <=> Has(Tail(s), c) \/ Head(s) = c
  BY <1>a, <1>b
<1>4. Once(s, c) => Once(Tail(s), c)
  BY <1>1, <1>2 DEF Once
<1>5. Once(s, c) /\ Head(s) = c => ~Has(Tail(s), c)
  BY <1>1, <1>2 DEF Once, Has
<1> QED BY <1>1, <1>3, <1>4, <1>5

\* What Tail takes away from a sequence of orders
LEMMA TailHasCmd ==
  ASSUME NEW s \in Seq(Order), s # <<>>, NEW c
  PROVE  /\ Head(s) \in Order /\ Tail(s) \in Seq(Order)
         /\ HasCmd(s, c) <=> HasCmd(Tail(s), c) \/ Head(s).cmd = c
         /\ OnceCmd(s, c) => OnceCmd(Tail(s), c) /\ (Head(s).cmd = c => ~HasCmd(Tail(s), c))
<1>1. /\ Head(s) \in Order /\ Tail(s) \in Seq(Order) /\ Head(s) = s[1]
      /\ Len(s) \in Nat \ {0} /\ Len(Tail(s)) = Len(s) - 1
      /\ \A k \in 1 .. Len(s) - 1 : Tail(s)[k] = s[k + 1] /\ k + 1 \in 1 .. Len(s)
      /\ \A k \in 1 .. Len(s) : k = 1 \/ (k - 1 \in 1 .. Len(s) - 1 /\ s[k] = Tail(s)[k - 1])
  BY TailElements
<1>2. 1 \in 1 .. Len(s) /\ \A j, k \in 1 .. Len(s) - 1 : k + 1 # 1 /\ (j + 1 = k + 1 => j = k)
  BY <1>1
<1>3. HasCmd(s, c) <=> HasCmd(Tail(s), c) \/ Head(s).cmd = c
  BY <1>1, <1>2 DEF HasCmd
<1>4. OnceCmd(s, c) => OnceCmd(Tail(s), c)
  BY <1>1, <1>2 DEF OnceCmd
<1>5. OnceCmd(s, c) /\ Head(s).cmd = c => ~HasCmd(Tail(s), c)
  BY <1>1, <1>2 DEF OnceCmd, HasCmd
<1> QED BY <1>1, <1>3, <1>4, <1>5

\* The elements of a concatenation
LEMMA ConcatElements ==
  ASSUME NEW S, NEW s \in Seq(S), NEW t \in Seq(S)
  PROVE  /\ s \o t \in Seq(S) /\ Len(s) \in Nat /\ Len(t) \in Nat
         /\ Len(s \o t) = Len(s) + Len(t)
         /\ \A k \in 1 .. Len(s) : k \in 1 .. Len(s \o t) /\ (s \o t)[k] = s[k]
         /\ \A k \in 1 .. Len(t) : Len(s) + k \in 1 .. Len(s \o t) /\ (s \o t)[Len(s) + k] = t[k]
         /\ \A k \in 1 .. Len(s \o t) : \/ k \in 1 .. Len(s) /\ (s \o t)[k] = s[k]
                                        \/ \E i \in 1 .. Len(t) : k = Len(s) + i /\ (s \o t)[k] = t[i]
<1>1. s \o t \in Seq(S) /\ Len(s) \in Nat /\ Len(t) \in Nat /\ Len(s \o t) = Len(s) + Len(t)
  OBVIOUS
<1>2. \A k \in 1 .. Len(s) : k \in 1 .. Len(s \o t) /\ (s \o t)[k] = s[k]
  BY <1>1
<1>3. ASSUME NEW k \in 1 .. Len(t)
      PROVE  Len(s) + k \in 1 .. Len(s \o t) /\ (s \o t)[Len(s) + k] = t[k]
  <2>1. Len(s) + k \in 1 .. Len(s) + Len(t) /\ Len(s) + k > Len(s) /\ Len(s) + k - Len(s) = k
    BY <1>1
  <2> QED BY <1>1, <2>1
<1>4. ASSUME NEW k \in 1 .. Len(s \o t), k \notin 1 .. Len(s)
      PROVE  \E i \in 1 .. Len(t) : k = Len(s) + i /\ (s \o t)[k] = t[i]
  <2>1. k - Len(s) \in 1 .. Len(t) /\ k = Len(s) + (k - Len(s))
    BY <1>1, <1>4
  <2> QED BY <1>3, <2>1
<1> QED BY <1>1, <1>2, <1>3, <1>4

\* What a concatenation has
LEMMA ConcatHas ==
  ASSUME NEW S, NEW s \in Seq(S), NEW t \in Seq(S), NEW c
  PROVE  /\ s \o t \in Seq(S)
         /\ Has(s \o t, c) <=> Has(s, c) \/ Has(t, c)
         /\ Once(s, c) /\ Once(t, c) /\ ~(Has(s, c) /\ Has(t, c)) => Once(s \o t, c)
<1>1. /\ s \o t \in Seq(S) /\ Len(s) \in Nat /\ Len(t) \in Nat
      /\ Len(s \o t) = Len(s) + Len(t)
      /\ \A k \in 1 .. Len(s) : k \in 1 .. Len(s \o t) /\ (s \o t)[k] = s[k]
      /\ \A k \in 1 .. Len(t) : Len(s) + k \in 1 .. Len(s \o t) /\ (s \o t)[Len(s) + k] = t[k]
      /\ \A k \in 1 .. Len(s \o t) : \/ k \in 1 .. Len(s) /\ (s \o t)[k] = s[k]
                                     \/ \E i \in 1 .. Len(t) : k = Len(s) + i /\ (s \o t)[k] = t[i]
  BY ConcatElements
<1>2. Has(s \o t, c) <=> Has(s, c) \/ Has(t, c)
  <2>1. ASSUME Has(s \o t, c) PROVE Has(s, c) \/ Has(t, c)
    BY <1>1, <2>1 DEF Has
  <2>2. ASSUME Has(s, c) \/ Has(t, c) PROVE Has(s \o t, c)
    BY <1>1, <2>2 DEF Has
  <2> QED BY <2>1, <2>2
<1>3. ASSUME Once(s, c), Once(t, c), ~(Has(s, c) /\ Has(t, c)),
             NEW j \in 1 .. Len(s \o t), NEW k \in 1 .. Len(s \o t),
             (s \o t)[j] = c, (s \o t)[k] = c
      PROVE  j = k
  <2>1. CASE j \in 1 .. Len(s) /\ (s \o t)[j] = s[j]
    <3>1. Has(s, c)
      BY <2>1, <1>3 DEF Has
    <3>2. ~Has(t, c)
      BY <3>1, <1>3
    <3>3. k \in 1 .. Len(s) /\ (s \o t)[k] = s[k]
      BY <1>1, <1>3, <3>2 DEF Has
    <3> QED BY <2>1, <3>3, <1>3 DEF Once
  <2>2. CASE \E i \in 1 .. Len(t) : j = Len(s) + i /\ (s \o t)[j] = t[i]
    <3>1. Has(t, c)
      BY <2>2, <1>3 DEF Has
    <3>2. ~Has(s, c)
      BY <3>1, <1>3
    <3>3. \E i \in 1 .. Len(t) : k = Len(s) + i /\ (s \o t)[k] = t[i]
      BY <1>1, <1>3, <3>2 DEF Has
    <3> QED BY <2>2, <3>3, <1>3 DEF Once
  <2> QED BY <1>1, <2>1, <2>2
<1> QED BY <1>1, <1>2, <1>3 DEF Once

\* InOrder keeps exactly the members asked for, each once if s has no doubles.
LEMMA InOrderHas ==
  ASSUME NEW S, NEW s \in Seq(S), NEW T \in SUBSET Members(s), NEW q \in InOrder(s, T), NEW c
  PROVE  /\ q \in Seq(S)
         /\ Has(q, c) <=> c \in T
         /\ Once(s, c) => Once(q, c)
<1> DEFINE n == Cardinality(T)
<1>1. Len(s) \in Nat /\ T \subseteq S
  BY DEF Members
<1>2. IsFiniteSet(T)
  <2>1. IsFiniteSet(1 .. Len(s))
    BY <1>1, FS_Interval
  <2> DEFINE f == [k \in 1 .. Len(s) |-> s[k]]
  <2>2. f \in Surjection(1 .. Len(s), Members(s))
    BY DEF Surjection, Members
  <2>3. IsFiniteSet(Members(s))
    BY <2>1, <2>2, FS_Surjection
  <2> QED BY <2>3, FS_Subset
<1>3. n \in Nat
  BY <1>2, FS_CardinalityType
<1>4. /\ q \in [1 .. n -> T]
      /\ \A d \in T : \E k \in 1 .. n : q[k] = d
      /\ \A j, k \in 1 .. n : j < k => \E a, b \in 1 .. Len(s) : a < b /\ s[a] = q[j] /\ s[b] = q[k]
  BY DEF InOrder
<1> HIDE DEF n
<1>5. q \in Seq(T) /\ Len(q) = n
  BY <1>3, <1>4
<1>6. q \in Seq(S)
  BY <1>1, <1>3, <1>4
<1>7. Has(q, c) <=> c \in T
  BY <1>4, <1>5 DEF Has
<1>8. ASSUME Once(s, c), NEW j \in 1 .. n, NEW k \in 1 .. n, q[j] = c, q[k] = c, j < k
      PROVE  FALSE
  <2>1. PICK a \in 1 .. Len(s), b \in 1 .. Len(s) : a < b /\ s[a] = c /\ s[b] = c
    BY <1>4, <1>8
  <2>2. a = b
    BY <2>1, <1>8 DEF Once
  <2> QED BY <2>1, <2>2, <1>1
<1>9. Once(s, c) => Once(q, c)
  <2>1. \A j, k \in 1 .. n : j = k \/ j < k \/ k < j
    BY <1>3
  <2> QED BY <1>5, <1>8, <2>1 DEF Once
<1> QED BY <1>6, <1>7, <1>9

\* Members and Has are one notion.
LEMMA MembersHas ==
  ASSUME NEW s, NEW c
  PROVE  c \in Members(s) <=> Has(s, c)
  BY DEF Members, Has

-----------------------------------------------------------------------------
(* The inductive invariant                                                  *)

\* The types the steps below need
TypeInv ==
  /\ nowSecond \in Nat /\ timerList \in Seq([cmd : {NoCmd}, out : Nat])
  /\ pc \in [Users -> {"idle", "push", "wake"}] /\ cur \in [Users -> Cmds \cup {NoCmd}]
  /\ deque \in Seq(Order)
  /\ pending \in Seq(Cmds) /\ replies \in Seq(Cmds)
  /\ state \in {"INIT", "CONN"} /\ ctx \in {"none", "connecting", "up"} /\ initState \in Svr
  /\ results \in Seq(Cmds) /\ tasks \in Seq(Svr \cup {"reply"})
  /\ pool \in {"up", "stopped", "gone"}
  /\ cbPc \in [Cbs -> {"idle", "call", "tell", "done"}]
  /\ cbTask \in [Cbs -> Cmds \cup {NoCmd} \cup Svr]
  /\ asyncNum \in Int
  /\ deadline \in [Cmds -> Nat] /\ answered \in [Cmds -> Nat] /\ orphans \subseteq Cmds
  /\ crashed \in BOOLEAN
  /\ \A u \in Users : (pc[u] = "idle" => cur[u] = NoCmd) /\ (pc[u] = "push" => cur[u] \in Cmds)
  /\ \A t \in Cbs : cbPc[t] = "call" => cbTask[t] \in Cmds

\* The stages of a command before its callback has been made
InHand(u, c) == pc[u] = "push" /\ cur[u] = c
Hand(c) == \E u \in Users : InHand(u, c)
OneHand(c) == \A u, v \in Users : InHand(u, c) /\ InHand(v, c) => u = v
Queued(c) == HasCmd(deque, c)
Pending(c) == Has(pending, c)
Result(c) == Has(results, c)
InCall(t, c) == cbPc[t] = "call" /\ cbTask[t] = c
Called(c) == \E t \in Cbs : InCall(t, c)
OneCall(c) == \A s, t \in Cbs : InCall(s, c) /\ InCall(t, c) => s = t

\* A command that is not accepted is nowhere.
Fresh(c) ==
  deadline[c] = 0 => /\ ~Hand(c) /\ ~Queued(c) /\ ~Pending(c) /\ ~Result(c) /\ ~Called(c)
                     /\ answered[c] = 0 /\ c \notin orphans

\* On its way to the server it is in one place, and it is an orphan only there.
Early(c) ==
  /\ OneHand(c)
  /\ OnceCmd(deque, c) /\ Once(pending, c)
  /\ ~(Hand(c) /\ Queued(c)) /\ ~(Hand(c) /\ Pending(c)) /\ ~(Queued(c) /\ Pending(c))
  /\ Hand(c) \/ Queued(c) => c \notin orphans

\* On its way back too, unless it was pending on a lost connection.
Returning(c) ==
  c \notin orphans =>
    /\ Once(results, c)
    /\ OneCall(c)
    /\ answered[c] \in {0, 1}
    /\ Hand(c) \/ Queued(c) \/ Pending(c) => ~Result(c) /\ ~Called(c) /\ answered[c] = 0
    /\ Result(c) => ~Called(c) /\ answered[c] = 0
    /\ Called(c) => answered[c] = 0
    /\ deadline[c] # 0 =>
         Hand(c) \/ Queued(c) \/ Pending(c) \/ Result(c) \/ Called(c) \/ answered[c] # 0

Move(c) == Fresh(c) /\ Early(c) /\ Returning(c)
MoveInv == crashed \/ \A c \in Cmds : Move(c)

\* What will connect the server, or has, is in one place.
DriverInv ==
  crashed \/
    /\ OnceCmd(deque, NoCmd)
    /\ timerList = <<>> \/ Len(timerList) = 1
    /\ ~(Queued(NoCmd) /\ timerList # <<>>) /\ ~(Queued(NoCmd) /\ ctx # "none")
    /\ ~(timerList # <<>> /\ ctx # "none")
    /\ Queued(NoCmd) \/ timerList # <<>> \/ ctx # "none"
    /\ ctx = "up" <=> state = "CONN"
    /\ ctx = "up" <=> initState = "RUNING"

\* The last state task that waits in the pool is the state.
NoSvr(s) == \A k \in 1 .. Len(s) : s[k] \notin Svr
LastSvr(s, v) ==
  \A k \in 1 .. Len(s) :
    s[k] \in Svr /\ (\A j \in 1 .. Len(s) : j > k => s[j] \notin Svr) => s[k] = v
ToldInv == crashed \/ LastSvr(tasks, initState)

\* The commands that redisAsyncExit waits for
Open == {c \in Cmds : deadline[c] # 0 /\ answered[c] = 0 /\ ~Called(c)}
ExitInv ==
  /\ exitPc \in {"idle", "poll", "join", "timer", "io", "done"} /\ (isExit <=> exitPc # "idle")
  /\ exitPc \in {"timer", "io", "done"} <=> pool = "gone"
  /\ pool = "gone" => \A t \in Cbs : cbPc[t] = "done"
  /\ orphans = {} =>
       /\ \A c \in Cmds : answered[c] \in {0, 1}
       /\ crashed \/ asyncNum = Cardinality(Open)
       /\ exitPc \in {"join", "timer", "io", "done"} => Open = {}
-----------------------------------------------------------------------------
(* The pool and the timer                                                   *)

\* A task sequence of replies has no state task.
LEMMA ReplyTasks ==
  ASSUME NEW rs \in Seq(Cmds)
  PROVE  /\ [k \in 1 .. Len(rs) |-> "reply"] \in Seq(Svr \cup {"reply"})
         /\ NoSvr([k \in 1 .. Len(rs) |-> "reply"])
<1>1. Len(rs) \in Nat
  OBVIOUS
<1>2. "reply" \notin Svr
  BY DEF Svr
<1>3. [k \in 1 .. Len(rs) |-> "reply"] \in Seq(Svr \cup {"reply"})
      /\ Len([k \in 1 .. Len(rs) |-> "reply"]) = Len(rs)
  BY <1>1
<1> QED BY <1>2, <1>3 DEF NoSvr

\* State tasks of a concatenation
LEMMA SvrConcat ==
  ASSUME NEW S, NEW s \in Seq(S), NEW t \in Seq(S)
  PROVE  /\ NoSvr(s \o t) <=> NoSvr(s) /\ NoSvr(t)
         /\ NoSvr(t) => \A v : LastSvr(s, v) => LastSvr(s \o t, v)
         /\ \A v : LastSvr(t, v) /\ ~NoSvr(t) => LastSvr(s \o t, v)
<1>1. /\ s \o t \in Seq(S) /\ Len(s) \in Nat /\ Len(t) \in Nat
      /\ Len(s \o t) = Len(s) + Len(t)
      /\ \A k \in 1 .. Len(s) : k \in 1 .. Len(s \o t) /\ (s \o t)[k] = s[k]
      /\ \A k \in 1 .. Len(t) : Len(s) + k \in 1 .. Len(s \o t) /\ (s \o t)[Len(s) + k] = t[k]
      /\ \A k \in 1 .. Len(s \o t) : \/ k \in 1 .. Len(s) /\ (s \o t)[k] = s[k]
                                     \/ \E i \in 1 .. Len(t) : k = Len(s) + i /\ (s \o t)[k] = t[i]
  BY ConcatElements
<1>2. NoSvr(s \o t) <=> NoSvr(s) /\ NoSvr(t)
  <2>1. NoSvr(s \o t) => NoSvr(s) /\ NoSvr(t)
    BY <1>1 DEF NoSvr
  <2>2. NoSvr(s) /\ NoSvr(t) => NoSvr(s \o t)
    BY <1>1 DEF NoSvr
  <2> QED BY <2>1, <2>2
<1>3. ASSUME NoSvr(t), NEW v, LastSvr(s, v), NEW k \in 1 .. Len(s \o t), (s \o t)[k] \in Svr,
             \A j \in 1 .. Len(s \o t) : j > k => (s \o t)[j] \notin Svr
      PROVE  (s \o t)[k] = v
  <2>1. k \in 1 .. Len(s) /\ (s \o t)[k] = s[k]
    BY <1>1, <1>3 DEF NoSvr
  <2>2. \A j \in 1 .. Len(s) : j > k => s[j] \notin Svr
    BY <1>1, <1>3
  <2> QED BY <2>1, <2>2, <1>3 DEF LastSvr
<1>4. ASSUME ~NoSvr(t), NEW v, LastSvr(t, v), NEW k \in 1 .. Len(s \o t), (s \o t)[k] \in Svr,
             \A j \in 1 .. Len(s \o t) : j > k => (s \o t)[j] \notin Svr
      PROVE  (s \o t)[k] = v
  <2>1. PICK m \in 1 .. Len(t) : t[m] \in Svr
    BY <1>4 DEF NoSvr
  <2>2. (s \o t)[Len(s) + m] \in Svr /\ Len(s) + m \in 1 .. Len(s \o t) /\ Len(s) + m > Len(s)
    BY <1>1, <2>1
  <2>3. ~(Len(s) + m > k)
    BY <2>2, <1>4
  <2>4. k \notin 1 .. Len(s)
    BY <2>2, <2>3, <1>1
  <2>5. PICK i \in 1 .. Len(t) : k = Len(s) + i /\ (s \o t)[k] = t[i]
    BY <1>1, <2>4
  <2>6. ASSUME NEW j \in 1 .. Len(t), j > i PROVE t[j] \notin Svr
    <3>1. Len(s) + j > k
      BY <2>5, <2>6, <1>1
    <3> QED BY <3>1, <1>1, <1>4
  <2> QED BY <2>5, <2>6, <1>4 DEF LastSvr
<1> QED BY <1>2, <1>3, <1>4 DEF LastSvr

\* Posted with no state task
LEMMA PostedReplies ==
  ASSUME TypeInv, NEW rs \in Seq(Cmds), Posted(rs, <<>>)
  PROVE  /\ results' \in Seq(Cmds) /\ tasks' \in Seq(Svr \cup {"reply"}) /\ crashed' \in BOOLEAN
         /\ crashed' # crashed => pool = "gone"
         /\ crashed' \/ /\ results' = results \o rs
                        /\ NoSvr(tasks)' <=> NoSvr(tasks)
                        /\ \A v : LastSvr(tasks, v) => LastSvr(tasks', v)
<1> DEFINE T == Svr \cup {"reply"}
           r == [k \in 1 .. Len(rs) |-> "reply"]
<1>1. results \in Seq(Cmds) /\ tasks \in Seq(T) /\ crashed \in BOOLEAN
  BY DEF TypeInv
<1>2. r \in Seq(T) /\ NoSvr(r)
  BY ReplyTasks
<1> HIDE DEF T, r
<1>3. CASE PostCrash
  <2>1. results' \in Seq(Cmds) /\ tasks' \in Seq(T) /\ pool = "gone"
    BY <1>1, <1>3 DEF PostCrash
  <2>2. crashed'
    BY <1>3 DEF PostCrash
  <2>3. crashed' \in BOOLEAN
    BY <1>3 DEF PostCrash
  <2> QED BY <2>1, <2>2, <2>3 DEF T
<1>4. CASE Post(rs, <<>>)
  <2>1. results' = results \o rs /\ tasks' = tasks \o r \o <<>> /\ crashed' = crashed
    BY <1>4 DEF Post, r
  <2>2. tasks \o r \in Seq(T)
    BY <1>1, <1>2
  <2>3. tasks \o r \o <<>> = tasks \o r
    BY <2>2
  <2>4. NoSvr(tasks \o r) <=> NoSvr(tasks)
    BY <1>1, <1>2, SvrConcat
  <2>5. \A v : LastSvr(tasks, v) => LastSvr(tasks \o r, v)
    BY <1>1, <1>2, SvrConcat
  <2>6. results' \in Seq(Cmds)
    BY <2>1, <1>1
  <2> QED BY <2>1, <2>2, <2>3, <2>4, <2>5, <2>6, <1>1 DEF T
<1> QED BY <1>3, <1>4 DEF Posted

\* Posted with the state v
LEMMA PostedState ==
  ASSUME TypeInv, NEW rs \in Seq(Cmds), NEW v \in Svr, Posted(rs, <<v>>)
  PROVE  /\ results' \in Seq(Cmds) /\ tasks' \in Seq(Svr \cup {"reply"}) /\ crashed' \in BOOLEAN
         /\ crashed' # crashed => pool = "gone"
         /\ crashed' \/ (results' = results \o rs /\ ~NoSvr(tasks)' /\ LastSvr(tasks', v))
<1> DEFINE T == Svr \cup {"reply"}
           r == [k \in 1 .. Len(rs) |-> "reply"]
<1>1. results \in Seq(Cmds) /\ tasks \in Seq(T) /\ crashed \in BOOLEAN
  BY DEF TypeInv
<1>2. r \in Seq(T) /\ <<v>> \in Seq(T)
  <2>1. v \in T
    OBVIOUS
  <2> QED BY <2>1, ReplyTasks
<1> HIDE DEF T, r
<1>3. CASE PostCrash
  <2>1. results' \in Seq(Cmds) /\ tasks' \in Seq(T) /\ pool = "gone"
    BY <1>1, <1>3 DEF PostCrash
  <2>2. crashed'
    BY <1>3 DEF PostCrash
  <2>3. crashed' \in BOOLEAN
    BY <1>3 DEF PostCrash
  <2> QED BY <2>1, <2>2, <2>3 DEF T
<1>4. CASE Post(rs, <<v>>)
  <2>1. results' = results \o rs /\ tasks' = tasks \o r \o <<v>> /\ crashed' = crashed
    BY <1>4 DEF Post, r
  <2>2. tasks \o r \in Seq(T) /\ tasks \o r \o <<v>> \in Seq(T)
    BY <1>1, <1>2
  <2>3. LastSvr(<<v>>, v) /\ ~NoSvr(<<v>>)
    BY DEF LastSvr, NoSvr
  <2>4. ~NoSvr(tasks \o r \o <<v>>) /\ LastSvr(tasks \o r \o <<v>>, v)
    BY <2>2, <2>3, <1>2, SvrConcat
  <2>5. results' \in Seq(Cmds)
    BY <2>1, <1>1
  <2> QED BY <2>1, <2>2, <2>4, <2>5, <1>1 DEF T
<1> QED BY <1>3, <1>4 DEF Posted

\* insertTimerOrder into the empty list
LEMMA TimerInsertEmpty ==
  ASSUME timerList = <<>>, NEW out \in Nat, TimerInsert(out)
  PROVE  timerList' = <<[cmd |-> NoCmd, out |-> out]>>
<1> DEFINE P(k) == /\ k <= Len(timerList) => out <= timerList[k].out
                   /\ \A j \in 1 .. k - 1 : out > timerList[j].out
           e == [cmd |-> NoCmd, out |-> out]
<1>1. Len(timerList) = 0
  OBVIOUS
<1>2. 1 .. Len(timerList) + 1 = {1} /\ P(1)
  BY <1>1
<1>3. (CHOOSE k \in 1 .. Len(timerList) + 1 : P(k)) = 1
  BY <1>2
<1>4. [Connect EXCEPT !.out = out] = e
  BY DEF Connect
<1>5. timerList' = SubSeq(timerList, 1, 1 - 1) \o <<e>> \o SubSeq(timerList, 1, Len(timerList))
  BY <1>3, <1>4 DEF TimerInsert
<1>6. SubSeq(timerList, 1, 1 - 1) = <<>> /\ SubSeq(timerList, 1, Len(timerList)) = <<>>
  BY <1>1
<1>7. <<>> \o <<e>> \o <<>> = <<e>>
  OBVIOUS
<1> QED BY <1>5, <1>6, <1>7

-----------------------------------------------------------------------------
(* Types                                                                    *)

\* The initial state has the types.
LEMMA TypeInit ==
  ASSUME Init
  PROVE  TypeInv
<1> USE RedisAssumption DEF Init
<1>1. Connect \in Order
  BY DEF Connect, Order
<1>2. deque \in Seq(Order)
  BY <1>1
<1>3. /\ pending \in Seq(Cmds) /\ replies \in Seq(Cmds) /\ results \in Seq(Cmds)
      /\ tasks \in Seq(Svr \cup {"reply"}) /\ timerList \in Seq([cmd : {NoCmd}, out : Nat])
  OBVIOUS
<1>4. initState \in Svr
  BY DEF Svr
<1>5. /\ pc \in [Users -> {"idle", "push", "wake"}] /\ cur \in [Users -> Cmds \cup {NoCmd}]
      /\ \A u \in Users : (pc[u] = "idle" => cur[u] = NoCmd) /\ (pc[u] = "push" => cur[u] \in Cmds)
  OBVIOUS
<1>6. /\ cbPc \in [Cbs -> {"idle", "call", "tell", "done"}]
      /\ cbTask \in [Cbs -> Cmds \cup {NoCmd} \cup Svr]
      /\ \A t \in Cbs : cbPc[t] = "call" => cbTask[t] \in Cmds
  OBVIOUS
<1>7. nowSecond \in Nat /\ asyncNum \in Int /\ deadline \in [Cmds -> Nat] /\ answered \in [Cmds -> Nat]
  OBVIOUS
<1>8. crashed \in BOOLEAN
  OBVIOUS
<1> QED BY <1>2, <1>3, <1>4, <1>5, <1>6, <1>7, <1>8 DEF TypeInv

\* Every step keeps the types. (An order enters the list of the timer only
\* when it is empty: DriverInv.)
LEMMA TypeStep ==
  ASSUME TypeInv, DriverInv, Next
  PROVE  TypeInv'
<1> USE RedisAssumption DEF TypeInv
<1> USE DEF timerVars, userVars, ioVars, cliVars, svrVars, poolVars, exitVars, logVars
<1>0. ~crashed
  BY DEF Next
<1>a. "idle" # "push" /\ "wake" # "push" /\ "wake" # "idle" /\ "INIT" \in Svr /\ "ERROR" \in Svr
      /\ "RUNING" \in Svr
  BY DEF Svr
<1>b. <<>> \in Seq(Cmds)
  OBVIOUS
<1>c. Connect \in Order
  BY DEF Connect, Order
<1>1. ASSUME NEW u \in Users, NEW c \in Cmds, Command(u, c) PROVE TypeInv'
  <2>1. nowSecond + OutSecond \in Nat /\ asyncNum + 1 \in Int
    OBVIOUS
  <2>2. deadline' \in [Cmds -> Nat] /\ asyncNum' \in Int
    BY <1>1, <2>1 DEF Command
  <2>3. pc' \in [Users -> {"idle", "push", "wake"}] /\ cur' \in [Users -> Cmds \cup {NoCmd}]
    BY <1>1 DEF Command
  <2>4. \A v \in Users : (pc'[v] = "idle" => cur'[v] = NoCmd) /\ (pc'[v] = "push" => cur'[v] \in Cmds)
    BY <1>1 DEF Command
  <2> QED BY <1>1, <2>2, <2>3, <2>4 DEF Command
<1>2. ASSUME NEW u \in Users, Push(u) PROVE TypeInv'
  <2> DEFINE e == [cmd |-> cur[u], out |-> deadline[cur[u]]]
  <2>1. cur[u] \in Cmds
    BY <1>2 DEF Push
  <2>2. e \in Order
    BY <2>1 DEF Order
  <2>3. deque' \in Seq(Order)
    BY <1>2, <2>2 DEF Push
  <2>4. pc' \in [Users -> {"idle", "push", "wake"}]
        /\ \A v \in Users : (pc'[v] = "idle" => cur[v] = NoCmd) /\ (pc'[v] = "push" => cur[v] \in Cmds)
    BY <1>2 DEF Push
  <2> QED BY <1>2, <2>3, <2>4 DEF Push
<1>3. ASSUME NEW u \in Users, Wake(u) PROVE TypeInv'
  <2>1. pc' \in [Users -> {"idle", "push", "wake"}] /\ cur' \in [Users -> Cmds \cup {NoCmd}]
    BY <1>3 DEF Wake
  <2>2. \A v \in Users : (pc'[v] = "idle" => cur'[v] = NoCmd) /\ (pc'[v] = "push" => cur'[v] \in Cmds)
    BY <1>3 DEF Wake
  <2> QED BY <1>3, <2>1, <2>2 DEF Wake, Wakeup
<1>4. ASSUME TimerTick PROVE TypeInv'
  BY <1>4 DEF TimerTick, Wakeup
<1>5. ASSUME TimerDeal PROVE TypeInv'
  <2>1. deque' \in Seq(Order)
    BY <1>5, <1>c DEF TimerDeal
  <2>2. timerList' \in Seq([cmd : {NoCmd}, out : Nat])
    BY <1>5 DEF TimerDeal, Due
  <2> QED BY <1>5, <2>1, <2>2 DEF TimerDeal
<1>6. ASSUME TimerWake \/ TimerEnd PROVE TypeInv'
  BY <1>6 DEF TimerWake, TimerEnd, Wakeup
<1>7. ASSUME HandleRead \/ DrainLeave \/ DrainEnd PROVE TypeInv'
  BY <1>7 DEF HandleRead, DrainLeave, DrainEnd, Drained
<1>8. ASSUME Deal PROVE deque' \in Seq(Order) /\ Head(deque) \in Order
                        /\ Head(deque).cmd \in Cmds \cup {NoCmd}
  <2>1. deque' \in Seq(Order) /\ Head(deque) \in Order
    BY <1>8 DEF Deal
  <2> QED BY <2>1 DEF Order
<1>9. ASSUME DealAnswer \/ DealCommandFail PROVE TypeInv'
  <2> DEFINE c == Head(deque).cmd
  <2>1. Deal /\ c # NoCmd /\ Posted(<<c>>, <<>>)
    BY <1>9 DEF DealAnswer, DealCommandFail
  <2>2. c \in Cmds /\ deque' \in Seq(Order)
    BY <2>1, <1>8
  <2>3. <<c>> \in Seq(Cmds)
    BY <2>2
  <2>4. results' \in Seq(Cmds) /\ tasks' \in Seq(Svr \cup {"reply"}) /\ crashed' \in BOOLEAN
    BY <2>1, <2>3, PostedReplies
  <2> QED BY <1>9, <2>2, <2>4 DEF DealAnswer, DealCommandFail, DealRest
<1>10. ASSUME DealCommand PROVE TypeInv'
  <2> DEFINE c == Head(deque).cmd
  <2>1. Deal /\ c # NoCmd /\ pending' = Append(pending, c) /\ replies' = Append(replies, c)
    BY <1>10 DEF DealCommand
  <2>2. c \in Cmds /\ deque' \in Seq(Order)
    BY <2>1, <1>8
  <2>3. pending' \in Seq(Cmds) /\ replies' \in Seq(Cmds)
    BY <2>1, <2>2
  <2> QED BY <1>10, <2>2, <2>3 DEF DealCommand, DealRest
<1>11. ASSUME DealConnect PROVE TypeInv'
  <2>1. deque' \in Seq(Order)
    BY <1>8, <1>11 DEF DealConnect
  <2> QED BY <1>11, <2>1 DEF DealConnect, DealRest
<1>12. ASSUME NEW out \in Nat, timerList = <<>>, TimerInsert(out)
       PROVE  timerList' \in Seq([cmd : {NoCmd}, out : Nat])
  <2>1. timerList' = <<[cmd |-> NoCmd, out |-> out]>>
    BY <1>12, TimerInsertEmpty
  <2>2. [cmd |-> NoCmd, out |-> out] \in [cmd : {NoCmd}, out : Nat]
    OBVIOUS
  <2> QED BY <2>1, <2>2
<1>13. ASSUME OnReset, timerList = <<>>
       PROVE  /\ timerList' \in Seq([cmd : {NoCmd}, out : Nat])
              /\ results' \in Seq(Cmds) /\ tasks' \in Seq(Svr \cup {"reply"}) /\ crashed' \in BOOLEAN
  <2>1. nowSecond + DelaySecond \in Nat
    OBVIOUS
  <2>2. CASE initState = "RUNING"
    BY <1>13, <2>2 DEF OnReset
  <2>3. CASE initState # "RUNING"
    <3>1. TimerInsert(nowSecond + DelaySecond) /\ Posted(<<>>, <<>>)
      BY <1>13, <2>3 DEF OnReset
    <3> QED BY <3>1, <2>1, <1>12, <1>13, <1>b, PostedReplies
  <2> QED BY <2>2, <2>3
<1>14. ASSUME DealConnectFail PROVE TypeInv'
  <2>1. Deal /\ Head(deque).cmd = NoCmd /\ OnReset
    BY <1>14 DEF DealConnectFail
  <2>2. deque' \in Seq(Order) /\ deque # <<>>
    BY <1>8, <2>1 DEF Deal
  <2>3. Queued(NoCmd)
    BY <2>1, <2>2, TailHasCmd DEF Queued
  <2>4. timerList = <<>>
    BY <2>3, <1>0 DEF DriverInv
  <2> QED BY <1>14, <2>1, <2>2, <2>4, <1>13 DEF DealConnectFail
<1>15. ASSUME CheckOutSecond PROVE TypeInv'
  <2> DEFINE A == {c \in Members(pending) : Overdue(c)}
             B == {c \in Members(pending) : ~Overdue(c)}
  <2>1. PICK late \in InOrder(pending, A) : Posted(late, <<>>)
    BY <1>15 DEF CheckOutSecond
  <2>a. A \in SUBSET Members(pending) /\ B \in SUBSET Members(pending) /\ pending \in Seq(Cmds)
    OBVIOUS
  <2>b. pending' \in InOrder(pending, B)
    BY <1>15 DEF CheckOutSecond
  <2> HIDE DEF A, B
  <2>2. late \in Seq(Cmds)
    BY <2>1, <2>a, InOrderHas
  <2>3. pending' \in Seq(Cmds)
    BY <2>a, <2>b, InOrderHas
  <2>4. results' \in Seq(Cmds) /\ tasks' \in Seq(Svr \cup {"reply"}) /\ crashed' \in BOOLEAN
    BY <2>1, <2>2, PostedReplies
  <2> QED BY <1>15, <2>3, <2>4 DEF CheckOutSecond, Drained
<1>16. ASSUME OnConnected PROVE TypeInv'
  <2>1. /\ results' \in Seq(Cmds) /\ tasks' \in Seq(Svr \cup {"reply"}) /\ crashed' \in BOOLEAN
        /\ initState' \in Svr
    <3>1. CASE initState = "RUNING"
      BY <1>16, <3>1 DEF OnConnected, OnSuccess
    <3>2. CASE initState # "RUNING"
      <4>1. initState' = "RUNING" /\ Posted(<<>>, <<"RUNING">>)
        BY <1>16, <3>2 DEF OnConnected, OnSuccess
      <4> QED BY <4>1, <1>a, <1>b, PostedState
    <3> QED BY <3>1, <3>2
  <2> QED BY <1>16, <2>1 DEF OnConnected
<1>17. ASSUME ConnectFailed PROVE TypeInv'
  <2>1. OnReset /\ ctx = "connecting"
    BY <1>17 DEF ConnectFailed
  <2>2. timerList = <<>>
    BY <2>1, <1>0 DEF DriverInv
  <2> QED BY <1>17, <2>1, <2>2, <1>13 DEF ConnectFailed
<1>18. ASSUME Disconnected PROVE TypeInv'
  <2>1. OnDisconn(pending) /\ ctx = "up"
    BY <1>18 DEF Disconnected
  <2>2. initState = "RUNING" /\ timerList = <<>>
    BY <2>1, <1>0 DEF DriverInv
  <2>3. initState' = "ERROR" /\ Posted(pending, <<"ERROR">>) /\ TimerInsert(0)
    BY <2>1, <2>2 DEF OnDisconn
  <2>4. /\ results' \in Seq(Cmds) /\ tasks' \in Seq(Svr \cup {"reply"}) /\ crashed' \in BOOLEAN
        /\ timerList' \in Seq([cmd : {NoCmd}, out : Nat]) /\ initState' \in Svr
    BY <2>2, <2>3, <1>a, <1>12, PostedState
  <2>5. orphans' \subseteq Cmds /\ replies' \in Seq(Cmds)
    BY SMTT(20), <1>18 DEF Disconnected, Members
  <2> QED BY <1>18, <2>4, <2>5 DEF Disconnected
<1>19. ASSUME Reply PROVE TypeInv'
  <2> DEFINE A == Members(pending) \cap {Head(replies)}
             B == Members(pending) \ {Head(replies)}
  <2>1. PICK found \in InOrder(pending, A) : Posted(found, <<>>)
    BY <1>19 DEF Reply
  <2>a. A \in SUBSET Members(pending) /\ B \in SUBSET Members(pending) /\ pending \in Seq(Cmds)
    OBVIOUS
  <2>b. pending' \in InOrder(pending, B)
    BY <1>19 DEF Reply
  <2> HIDE DEF A, B
  <2>2. found \in Seq(Cmds)
    BY <2>1, <2>a, InOrderHas
  <2>3. pending' \in Seq(Cmds)
    BY <2>a, <2>b, InOrderHas
  <2>4. results' \in Seq(Cmds) /\ tasks' \in Seq(Svr \cup {"reply"}) /\ crashed' \in BOOLEAN
    BY <2>1, <2>2, PostedReplies
  <2>5. replies' \in Seq(Cmds)
    BY <1>19 DEF Reply
  <2> QED BY <1>19, <2>3, <2>4, <2>5 DEF Reply
<1>20. ASSUME NEW t \in Cbs, CbReply(t) PROVE TypeInv'
  <2>1. tasks' \in Seq(Svr \cup {"reply"}) /\ results' \in Seq(Cmds) /\ Head(results) \in Cmds
    BY <1>20 DEF CbReply, Take
  <2>2. cbTask' \in [Cbs -> Cmds \cup {NoCmd} \cup Svr]
        /\ cbPc' \in [Cbs -> {"idle", "call", "tell", "done"}]
    BY <1>20, <2>1 DEF CbReply
  <2>3. \A s \in Cbs : cbPc'[s] = "call" => cbTask'[s] \in Cmds
    BY <1>20, <2>1 DEF CbReply
  <2>4. asyncNum' \in Int
    BY <1>20 DEF CbReply
  <2> QED BY <1>20, <2>1, <2>2, <2>3, <2>4 DEF CbReply
<1>21. ASSUME NEW t \in Cbs, CbCall(t) PROVE TypeInv'
  <2>1. cbTask[t] \in Cmds
    BY <1>21 DEF CbCall
  <2>2. answered' \in [Cmds -> Nat]
    <3>1. answered[cbTask[t]] + 1 \in Nat
      BY <2>1
    <3>2. answered' = [answered EXCEPT ![cbTask[t]] = answered[cbTask[t]] + 1]
      BY <1>21 DEF CbCall
    <3> QED BY <3>1, <3>2, <2>1
  <2>3. cbTask' \in [Cbs -> Cmds \cup {NoCmd} \cup Svr]
        /\ cbPc' \in [Cbs -> {"idle", "call", "tell", "done"}]
    BY <1>21 DEF CbCall
  <2>4. \A s \in Cbs : cbPc'[s] = "call" => cbTask'[s] \in Cmds
    BY <1>21 DEF CbCall
  <2> QED BY <1>21, <2>2, <2>3, <2>4 DEF CbCall
<1>22. ASSUME NEW t \in Cbs, CbState(t) PROVE TypeInv'
  <2>1. tasks' \in Seq(Svr \cup {"reply"})
    BY <1>22 DEF CbState, Take
  <2>2. cbTask' \in [Cbs -> Cmds \cup {NoCmd} \cup Svr]
        /\ cbPc' \in [Cbs -> {"idle", "call", "tell", "done"}]
    BY <1>22 DEF CbState
  <2>3. \A s \in Cbs : cbPc'[s] = "call" => cbTask'[s] \in Cmds
    BY <1>22 DEF CbState
  <2> QED BY <1>22, <2>1, <2>2, <2>3 DEF CbState
<1>23. ASSUME NEW t \in Cbs, CbTell(t) \/ CbLeave(t) PROVE TypeInv'
  <2>1. cbTask' \in [Cbs -> Cmds \cup {NoCmd} \cup Svr]
        /\ cbPc' \in [Cbs -> {"idle", "call", "tell", "done"}]
    BY <1>23 DEF CbTell, CbLeave
  <2>2. \A s \in Cbs : cbPc'[s] = "call" => cbTask'[s] \in Cmds
    BY <1>23 DEF CbTell, CbLeave
  <2> QED BY <1>23, <2>1, <2>2 DEF CbTell, CbLeave
<1>24. ASSUME ExitCall \/ ExitStep PROVE TypeInv'
  BY <1>24 DEF ExitCall, ExitStep, ExitPoll, ExitReset, ExitWrite, ExitReturn
<1> QED
  BY <1>1, <1>2, <1>3, <1>4, <1>5, <1>6, <1>7, <1>9, <1>10, <1>11, <1>14, <1>15, <1>16, <1>17,
     <1>18, <1>19, <1>20, <1>21, <1>22, <1>23, <1>24
  DEF Next, UserStep, TimerStep, IoStep, NetStep, CbStep

-----------------------------------------------------------------------------
(* One driver                                                               *)

\* Every step keeps what will connect the server in one place: a connect order
\* becomes an attempt or a delayed order, an attempt a connection or a delayed
\* order, a lost connection a delayed order, a delayed order a connect order.
LEMMA DriverStep ==
  ASSUME TypeInv, DriverInv, Next
  PROVE  DriverInv'
<1> USE RedisAssumption
<1> USE DEF timerVars, userVars, ioVars, cliVars, svrVars, poolVars, exitVars, logVars
<1>0. ~crashed
  BY DEF Next
<1>a. /\ OnceCmd(deque, NoCmd)
      /\ timerList = <<>> \/ Len(timerList) = 1
      /\ ~(Queued(NoCmd) /\ timerList # <<>>) /\ ~(Queued(NoCmd) /\ ctx # "none")
      /\ ~(timerList # <<>> /\ ctx # "none")
      /\ Queued(NoCmd) \/ timerList # <<>> \/ ctx # "none"
      /\ ctx = "up" <=> state = "CONN"
      /\ ctx = "up" <=> initState = "RUNING"
  BY <1>0 DEF DriverInv
<1>b. deque \in Seq(Order) /\ ctx \in {"none", "connecting", "up"}
  BY DEF TypeInv
<1>c. ASSUME UNCHANGED <<deque, timerList, ctx, state, initState>> PROVE DriverInv'
  BY <1>a, <1>c DEF DriverInv, Queued
<1>d. ASSUME OnceCmd(deque, NoCmd)', Queued(NoCmd)' <=> Queued(NoCmd),
             UNCHANGED <<timerList, ctx, state, initState>> PROVE DriverInv'
  BY <1>a, <1>d DEF DriverInv
<1>e. ASSUME NEW out, timerList' = <<out>> PROVE timerList' # <<>> /\ Len(timerList') = 1
  BY <1>e
<1>1. ASSUME NEW u \in Users, NEW c \in Cmds, Command(u, c) PROVE DriverInv'
  BY <1>1, <1>c DEF Command
<1>2. ASSUME NEW u \in Users, Push(u) PROVE DriverInv'
  <2> DEFINE e == [cmd |-> cur[u], out |-> deadline[cur[u]]]
  <2>1. cur[u] \in Cmds
    BY <1>2 DEF Push, TypeInv
  <2>2. e \in Order /\ e.cmd # NoCmd
    BY <2>1 DEF Order, TypeInv
  <2>3. deque' = Append(deque, e)
    BY <1>2 DEF Push
  <2>4. OnceCmd(deque', NoCmd) /\ (HasCmd(deque', NoCmd) <=> HasCmd(deque, NoCmd))
    BY <1>a, <1>b, <2>2, <2>3, AppendHasCmd
  <2>5. UNCHANGED <<timerList, ctx, state, initState>>
    BY <1>2 DEF Push
  <2> QED BY <2>4, <2>5, <1>d DEF Queued
<1>3. ASSUME NEW u \in Users, Wake(u) PROVE DriverInv'
  BY <1>3, <1>c DEF Wake
<1>4. ASSUME TimerTick \/ TimerWake \/ TimerEnd PROVE DriverInv'
  BY <1>4, <1>c DEF TimerTick, TimerWake, TimerEnd
<1>5. ASSUME TimerDeal PROVE DriverInv'
  <2>1. timerList # <<>> /\ deque' = Append(deque, Connect) /\ timerList' = Tail(timerList)
        /\ UNCHANGED <<ctx, state, initState>>
    BY <1>5 DEF TimerDeal, Due
  <2>2. timerList' = <<>>
    <3>1. timerList \in Seq([cmd : {NoCmd}, out : Nat]) /\ Len(timerList) = 1
      BY <2>1, <1>a DEF TypeInv
    <3>2. timerList' \in Seq([cmd : {NoCmd}, out : Nat]) /\ Len(timerList') = 0
      BY <2>1, <3>1
    <3> QED BY <3>2
  <2>3. Connect \in Order /\ Connect.cmd = NoCmd
    BY DEF Connect, Order
  <2>4. ~HasCmd(deque, NoCmd)
    BY <2>1, <1>a DEF Queued
  <2>5. HasCmd(deque', NoCmd) /\ OnceCmd(deque', NoCmd)
    BY <2>1, <2>3, <2>4, <1>a, <1>b, AppendHasCmd
  <2> QED BY <2>1, <2>2, <2>5, <1>a DEF DriverInv, Queued
<1>6. ASSUME HandleRead \/ DrainLeave \/ DrainEnd \/ CheckOutSecond PROVE DriverInv'
  BY <1>6, <1>c DEF HandleRead, DrainLeave, DrainEnd, CheckOutSecond, Drained
<1>7. ASSUME Deal
      PROVE  /\ OnceCmd(deque, NoCmd)' /\ (Head(deque).cmd # NoCmd => (Queued(NoCmd)' <=> Queued(NoCmd)))
             /\ Head(deque).cmd = NoCmd => Queued(NoCmd) /\ ~Queued(NoCmd)'
  <2>1. deque # <<>> /\ deque' = Tail(deque)
    BY <1>7 DEF Deal
  <2> QED BY <2>1, <1>a, <1>b, TailHasCmd DEF Queued
<1>8. ASSUME DealAnswer \/ DealCommand \/ DealCommandFail PROVE DriverInv'
  <2>1. Deal /\ Head(deque).cmd # NoCmd /\ UNCHANGED <<timerList, ctx, state, initState>>
    BY <1>8 DEF DealAnswer, DealCommand, DealCommandFail, DealRest
  <2> QED BY <2>1, <1>7, <1>d
<1>9. ASSUME DealConnect PROVE DriverInv'
  <2>1. Deal /\ Head(deque).cmd = NoCmd /\ UNCHANGED <<timerList, state, initState>>
        /\ ctx' = "connecting"
    BY <1>9 DEF DealConnect, DealRest
  <2>2. /\ OnceCmd(deque, NoCmd)' /\ Queued(NoCmd) /\ ~Queued(NoCmd)'
    BY <2>1, <1>7
  <2> QED BY <2>1, <2>2, <1>a DEF DriverInv
<1>10. ASSUME OnReset, initState # "RUNING", timerList = <<>>
       PROVE  timerList' # <<>> /\ Len(timerList') = 1
  <2>1. TimerInsert(nowSecond + DelaySecond) /\ nowSecond + DelaySecond \in Nat
    BY <1>10 DEF OnReset, TypeInv
  <2>2. timerList' = <<[cmd |-> NoCmd, out |-> nowSecond + DelaySecond]>>
    BY <2>1, <1>10, TimerInsertEmpty
  <2> QED BY <2>2, <1>e
<1>11. ASSUME DealConnectFail PROVE DriverInv'
  <2>1. Deal /\ Head(deque).cmd = NoCmd /\ UNCHANGED <<ctx, state, initState>> /\ OnReset
    BY <1>11 DEF DealConnectFail
  <2>2. /\ OnceCmd(deque, NoCmd)' /\ Queued(NoCmd) /\ ~Queued(NoCmd)'
    BY <2>1, <1>7
  <2>3. ctx = "none" /\ timerList = <<>> /\ initState # "RUNING"
    BY <2>2, <1>a
  <2>4. timerList' # <<>> /\ Len(timerList') = 1
    BY <2>1, <2>3, <1>10
  <2> QED BY <2>1, <2>2, <2>3, <2>4, <1>a DEF DriverInv
<1>12. ASSUME OnConnected PROVE DriverInv'
  <2>1. ctx = "connecting" /\ ctx' = "up" /\ state' = "CONN" /\ UNCHANGED <<deque, timerList>> /\ OnSuccess
    BY <1>12 DEF OnConnected
  <2>2. initState' = "RUNING"
    BY <2>1, <1>a DEF OnSuccess
  <2> QED BY <2>1, <2>2, <1>a DEF DriverInv, Queued
<1>13. ASSUME ConnectFailed PROVE DriverInv'
  <2>1. ctx = "connecting" /\ ctx' = "none" /\ UNCHANGED <<deque, state, initState>> /\ OnReset
    BY <1>13 DEF ConnectFailed
  <2>2. timerList = <<>> /\ initState # "RUNING" /\ ~Queued(NoCmd) /\ state # "CONN"
    BY <2>1, <1>a
  <2>3. timerList' # <<>> /\ Len(timerList') = 1
    BY <2>1, <2>2, <1>10
  <2> QED BY <2>1, <2>2, <2>3, <1>a DEF DriverInv, Queued
<1>14. ASSUME Disconnected PROVE DriverInv'
  <2>1. ctx = "up" /\ ctx' = "none" /\ state' = "INIT" /\ deque' = deque /\ OnDisconn(pending)
    BY <1>14 DEF Disconnected
  <2>2. timerList = <<>> /\ initState = "RUNING" /\ ~Queued(NoCmd)
    BY <2>1, <1>a
  <2>3. initState' = "ERROR" /\ TimerInsert(0)
    BY <2>1, <2>2 DEF OnDisconn
  <2>4. timerList' = <<[cmd |-> NoCmd, out |-> 0]>>
    BY <2>2, <2>3, TimerInsertEmpty
  <2>5. timerList' # <<>> /\ Len(timerList') = 1
    BY <2>4, <1>e
  <2> QED BY <2>1, <2>2, <2>3, <2>5, <1>a DEF DriverInv, Queued
<1>15. ASSUME Reply PROVE DriverInv'
  BY <1>15, <1>c DEF Reply
<1>16. ASSUME NEW t \in Cbs, CbStep(t) PROVE DriverInv'
  BY <1>16, <1>c DEF CbStep, CbReply, CbCall, CbState, CbTell, CbLeave
<1>17. ASSUME ExitCall \/ ExitStep PROVE DriverInv'
  BY <1>17, <1>c DEF ExitCall, ExitStep, ExitPoll, ExitReset, ExitWrite, ExitReturn
<1> QED
  BY <1>1, <1>2, <1>3, <1>4, <1>5, <1>6, <1>8, <1>9, <1>11, <1>12, <1>13, <1>14, <1>15, <1>16, <1>17
  DEF Next, UserStep, TimerStep, IoStep, NetStep

\* The driver is one in the initial state.
LEMMA DriverInit ==
  ASSUME Init
  PROVE  DriverInv
<1>1. deque = <<Connect>> /\ Connect.cmd = NoCmd /\ timerList = <<>> /\ ctx = "none" /\ state = "INIT"
      /\ initState = "INIT"
  BY DEF Init, Connect
<1>2. HasCmd(<<Connect>>, NoCmd) /\ OnceCmd(<<Connect>>, NoCmd)
  BY <1>1 DEF HasCmd, OnceCmd
<1> QED BY <1>1, <1>2 DEF DriverInv, Queued

\* What DriverInv says of the count in OneDriver
LEMMA DriverOne ==
  ASSUME TypeInv, DriverInv
  PROVE  OneDriver
<1> SUFFICES ASSUME ~crashed
             PROVE  InDeque(NoCmd) + Len(timerList) + (IF ctx = "none" THEN 0 ELSE 1) = 1
  BY DEF OneDriver
<1> DEFINE D == {k \in 1 .. Len(deque) : deque[k].cmd = NoCmd}
<1>1. /\ OnceCmd(deque, NoCmd)
      /\ timerList = <<>> \/ Len(timerList) = 1
      /\ ~(Queued(NoCmd) /\ timerList # <<>>) /\ ~(Queued(NoCmd) /\ ctx # "none")
      /\ ~(timerList # <<>> /\ ctx # "none")
      /\ Queued(NoCmd) \/ timerList # <<>> \/ ctx # "none"
  BY DEF DriverInv
<1>2. Queued(NoCmd) => Cardinality(D) = 1
  <2> HAVE Queued(NoCmd)
  <2>1. PICK k \in 1 .. Len(deque) : deque[k].cmd = NoCmd
    BY DEF Queued, HasCmd
  <2>2. D = {k}
    BY <2>1, <1>1 DEF OnceCmd
  <2> QED BY <2>2, FS_Singleton
<1>3. ~Queued(NoCmd) => Cardinality(D) = 0
  <2> HAVE ~Queued(NoCmd)
  <2>1. D = {}
    BY DEF Queued, HasCmd
  <2> QED BY <2>1, FS_EmptySet
<1>4. InDeque(NoCmd) = Cardinality(D)
  BY DEF InDeque
<1> HIDE DEF D
<1>5. timerList = <<>> => Len(timerList) = 0
  OBVIOUS
<1>6. timerList # <<>> => Len(timerList) = 1
  BY <1>1
<1>7. CASE Queued(NoCmd)
  BY <1>1, <1>2, <1>4, <1>5, <1>7
<1>8. CASE ~Queued(NoCmd) /\ timerList # <<>>
  BY <1>1, <1>3, <1>4, <1>6, <1>8
<1>9. CASE ~Queued(NoCmd) /\ timerList = <<>>
  BY <1>1, <1>3, <1>4, <1>5, <1>9
<1> QED BY <1>7, <1>8, <1>9

-----------------------------------------------------------------------------
(* One stage at a time                                                      *)

\* What taking an order from the deque does to a command
LEMMA DealMoves ==
  ASSUME TypeInv, Deal, NEW c, OnceCmd(deque, c)
  PROVE  /\ OnceCmd(deque, c)'
         /\ Head(deque).cmd = c => Queued(c) /\ ~Queued(c)'
         /\ Head(deque).cmd # c => (Queued(c)' <=> Queued(c))
<1>1. deque \in Seq(Order) /\ deque # <<>> /\ deque' = Tail(deque)
  BY DEF TypeInv, Deal
<1> QED BY <1>1, TailHasCmd DEF Queued

\* What a reply or a timeout does to a pending command: the members A of
\* pending are answered, the others stay.
LEMMA PendingMoves ==
  ASSUME TypeInv, NEW A \in SUBSET Members(pending), NEW a \in InOrder(pending, A), Posted(a, <<>>),
         pending' \in InOrder(pending, Members(pending) \ A), ~crashed',
         NEW c, Once(pending, c)
  PROVE  /\ Once(pending, c)'
         /\ Pending(c)' <=> Pending(c) /\ c \notin A
         /\ Result(c)' <=> Result(c) \/ (Pending(c) /\ c \in A)
         /\ Once(results, c) /\ ~(Result(c) /\ Pending(c)) => Once(results, c)'
<1>1. pending \in Seq(Cmds) /\ results \in Seq(Cmds)
  BY DEF TypeInv
<1>2. a \in Seq(Cmds) /\ (Has(a, c) <=> c \in A) /\ Once(a, c)
  BY <1>1, InOrderHas
<1>3. /\ Has(pending', c) <=> c \in Members(pending) \ A
      /\ Once(pending', c)
  <2>1. Members(pending) \ A \in SUBSET Members(pending)
    OBVIOUS
  <2> QED BY <1>1, <2>1, InOrderHas
<1>4. c \in Members(pending) <=> Pending(c)
  BY MembersHas DEF Pending
<1>5. results' = results \o a
  BY <1>2, PostedReplies
<1>6. /\ Has(results', c) <=> Has(results, c) \/ Has(a, c)
      /\ Once(results, c) /\ Once(a, c) /\ ~(Has(results, c) /\ Has(a, c)) => Once(results', c)
  BY <1>1, <1>2, <1>5, ConcatHas
<1> QED BY <1>2, <1>3, <1>4, <1>6 DEF Pending, Result

\* Every step keeps a command in one stage at a time.
LEMMA MoveStep ==
  ASSUME TypeInv, MoveInv, Next, NEW c \in Cmds, ~crashed'
  PROVE  Move(c)'
<1> USE RedisAssumption
<1> USE DEF timerVars, userVars, ioVars, cliVars, svrVars, poolVars, exitVars, logVars
<1>0. ~crashed /\ Fresh(c) /\ Early(c) /\ Returning(c) /\ c # NoCmd
  BY DEF Next, MoveInv, Move
<1>a. ASSUME UNCHANGED <<pc, cur>> PROVE (Hand(c)' <=> Hand(c)) /\ (OneHand(c)' <=> OneHand(c))
  BY <1>a DEF Hand, OneHand, InHand
<1>b. ASSUME UNCHANGED <<cbPc, cbTask>> PROVE (Called(c)' <=> Called(c)) /\ (OneCall(c)' <=> OneCall(c))
  BY <1>b DEF Called, OneCall, InCall
<1>c. ASSUME deque' = deque PROVE (Queued(c)' <=> Queued(c)) /\ (OnceCmd(deque, c)' <=> OnceCmd(deque, c))
  BY <1>c DEF Queued
<1>d. ASSUME pending' = pending PROVE (Pending(c)' <=> Pending(c)) /\ (Once(pending, c)' <=> Once(pending, c))
  BY <1>d DEF Pending
<1>e. ASSUME results' = results PROVE (Result(c)' <=> Result(c)) /\ (Once(results, c)' <=> Once(results, c))
  BY <1>e DEF Result
<1>f. ASSUME UNCHANGED <<deadline, answered, orphans>>,
             Hand(c)' <=> Hand(c), OneHand(c)', Queued(c)' <=> Queued(c), OnceCmd(deque, c)',
             Pending(c)' <=> Pending(c), Once(pending, c)', Result(c)' <=> Result(c),
             Once(results, c) => Once(results, c)', Called(c)' <=> Called(c), OneCall(c) => OneCall(c)'
      PROVE  Move(c)'
  BY <1>0, <1>f DEF Move, Fresh, Early, Returning
<1>g. ASSUME UNCHANGED <<deadline, answered, orphans>>, UNCHANGED <<pc, cur, deque, pending, results>>,
             \A t \in Cbs : InCall(t, c)' <=> InCall(t, c)
      PROVE  Move(c)'
  <2>1. (Called(c)' <=> Called(c)) /\ (OneCall(c)' <=> OneCall(c))
    BY <1>g DEF Called, OneCall
  <2>2. OneHand(c) /\ OnceCmd(deque, c) /\ Once(pending, c)
    BY <1>0 DEF Early
  <2> QED BY <1>a, <1>c, <1>d, <1>e, <1>f, <1>g, <2>1, <2>2
<1>h. OneHand(c) /\ OnceCmd(deque, c) /\ Once(pending, c)
  BY <1>0 DEF Early
<1>1. ASSUME NEW u \in Users, NEW d \in Cmds, Command(u, d) PROVE Move(c)'
  <2>1. /\ pc[u] = "idle" /\ deadline[d] = 0
        /\ pc' = [pc EXCEPT ![u] = "push"] /\ cur' = [cur EXCEPT ![u] = d]
        /\ deadline' = [deadline EXCEPT ![d] = nowSecond + OutSecond]
        /\ UNCHANGED <<answered, orphans, deque, pending, results, cbPc, cbTask>>
    BY <1>1 DEF Command
  <2>2. \A v \in Users : InHand(v, c)' <=> InHand(v, c) \/ (v = u /\ c = d)
    BY <2>1 DEF InHand, TypeInv
  <2>3. CASE c = d
    <3>1. Hand(c)' /\ OneHand(c)'
      <4>1. ~Hand(c)
        BY <2>1, <2>3, <1>0 DEF Fresh
      <4> QED BY <4>1, <2>2, <2>3 DEF Hand, OneHand
    <3>2. nowSecond + OutSecond # 0
      BY DEF TypeInv
    <3>3. deadline'[c] # 0 /\ deadline[c] = 0
      BY <2>1, <2>3, <3>2 DEF TypeInv
    <3> QED BY <1>0, <1>b, <1>c, <1>d, <1>e, <2>1, <3>1, <3>3 DEF Move, Fresh, Early, Returning
  <2>4. CASE c # d
    <3>1. (Hand(c)' <=> Hand(c)) /\ (OneHand(c)' <=> OneHand(c))
      BY <2>2, <2>4 DEF Hand, OneHand
    <3>2. deadline'[c] = deadline[c]
      BY <2>1, <2>4 DEF TypeInv
    <3> QED BY <1>0, <1>b, <1>c, <1>d, <1>e, <2>1, <3>1, <3>2 DEF Move, Fresh, Early, Returning
  <2> QED BY <2>3, <2>4
<1>2. ASSUME NEW u \in Users, Push(u) PROVE Move(c)'
  <2> DEFINE e == [cmd |-> cur[u], out |-> deadline[cur[u]]]
  <2>1. /\ pc[u] = "push" /\ pc' = [pc EXCEPT ![u] = "wake"] /\ deque' = Append(deque, e)
        /\ UNCHANGED <<cur, deadline, answered, orphans, pending, results, cbPc, cbTask>>
    BY <1>2 DEF Push
  <2>2. cur[u] \in Cmds
    BY <2>1 DEF TypeInv
  <2>3. e \in Order /\ e.cmd = cur[u] /\ deque \in Seq(Order)
    BY <2>2 DEF Order, TypeInv
  <2>4. \A v \in Users : InHand(v, c)' <=> InHand(v, c) /\ v # u
    BY <2>1 DEF InHand, TypeInv
  <2> HIDE DEF e
  <2>5. /\ Queued(c)' <=> Queued(c) \/ cur[u] = c
        /\ (cur[u] = c => ~Queued(c)) => OnceCmd(deque, c)'
    BY <2>1, <2>3, <1>h, AppendHasCmd DEF Queued
  <2>6. CASE c = cur[u]
    <3>1. InHand(u, c) /\ Hand(c)
      BY <2>1, <2>6 DEF InHand, Hand
    <3>2. ~Hand(c)' /\ OneHand(c)'
      BY <3>1, <2>4, <1>h DEF Hand, OneHand
    <3>3. Queued(c)' /\ OnceCmd(deque, c)' /\ ~Queued(c)
      BY <3>1, <2>5, <2>6, <1>0 DEF Early
    <3> QED BY <1>0, <1>b, <1>d, <1>e, <2>1, <3>1, <3>2, <3>3 DEF Move, Fresh, Early, Returning
  <2>7. CASE c # cur[u]
    <3>1. ~InHand(u, c)
      BY <2>7 DEF InHand
    <3>2. (Hand(c)' <=> Hand(c)) /\ (OneHand(c)' <=> OneHand(c))
      BY <3>1, <2>4 DEF Hand, OneHand
    <3> QED BY <1>b, <1>d, <1>e, <1>f, <1>h, <2>1, <2>5, <2>7, <3>2
  <2> QED BY <2>6, <2>7
<1>3. ASSUME NEW u \in Users, Wake(u) PROVE Move(c)'
  <2>1. /\ pc[u] = "wake" /\ pc' = [pc EXCEPT ![u] = "idle"] /\ cur' = [cur EXCEPT ![u] = NoCmd]
        /\ UNCHANGED <<deque, deadline, answered, orphans, pending, results, cbPc, cbTask>>
    BY <1>3 DEF Wake
  <2>2. \A v \in Users : InHand(v, c)' <=> InHand(v, c)
    BY <2>1 DEF InHand, TypeInv
  <2>3. (Hand(c)' <=> Hand(c)) /\ (OneHand(c)' <=> OneHand(c))
    BY <2>2 DEF Hand, OneHand
  <2> QED BY <1>b, <1>c, <1>d, <1>e, <1>f, <1>h, <2>1, <2>3
<1>4. ASSUME UNCHANGED <<pc, cur, deque, pending, results, cbPc, cbTask, deadline, answered, orphans>>
      PROVE  Move(c)'
  BY <1>4, <1>g DEF InCall
<1>5. ASSUME TimerTick \/ TimerWake \/ TimerEnd PROVE Move(c)'
  BY <1>4, <1>5 DEF TimerTick, TimerWake, TimerEnd
<1>6. ASSUME TimerDeal PROVE Move(c)'
  <2>1. /\ deque' = Append(deque, Connect)
        /\ UNCHANGED <<pc, cur, deadline, answered, orphans, pending, results, cbPc, cbTask>>
    BY <1>6 DEF TimerDeal
  <2>2. Connect \in Order /\ Connect.cmd # c /\ deque \in Seq(Order)
    BY DEF Connect, Order, TypeInv
  <2>3. (Queued(c)' <=> Queued(c)) /\ OnceCmd(deque, c)'
    BY <2>1, <2>2, <1>h, AppendHasCmd DEF Queued
  <2> QED BY <1>a, <1>b, <1>d, <1>e, <1>f, <1>h, <2>1, <2>3
<1>7. ASSUME HandleRead \/ DrainLeave \/ DrainEnd PROVE Move(c)'
  BY <1>4, <1>7 DEF HandleRead, DrainLeave, DrainEnd, Drained
<1>8. ASSUME DealAnswer \/ DealCommandFail PROVE Move(c)'
  <2> DEFINE d == Head(deque).cmd
  <2>1. /\ Deal /\ d # NoCmd /\ Posted(<<d>>, <<>>)
        /\ UNCHANGED <<pc, cur, pending, cbPc, cbTask, deadline, answered, orphans>>
    BY <1>8 DEF DealAnswer, DealCommandFail, DealRest
  <2>2. d \in Cmds
    <3>1. Head(deque) \in Order
      BY <2>1 DEF Deal, TypeInv
    <3> QED BY <2>1, <3>1 DEF Order
  <2>3. <<d>> \in Seq(Cmds) /\ (Has(<<d>>, c) <=> d = c) /\ Once(<<d>>, c)
    BY <2>2 DEF Has, Once
  <2>4. results' = results \o <<d>> /\ results \in Seq(Cmds)
    BY <2>1, <2>3, PostedReplies DEF TypeInv
  <2>5. /\ OnceCmd(deque, c)'
        /\ d = c => Queued(c) /\ ~Queued(c)'
        /\ d # c => (Queued(c)' <=> Queued(c))
    BY <2>1, <1>h, DealMoves
  <2> HIDE DEF d
  <2>6. /\ Result(c)' <=> Result(c) \/ d = c
        /\ Once(results, c) /\ ~(Result(c) /\ d = c) => Once(results, c)'
    <3>1. /\ Has(results', c) <=> Has(results, c) \/ Has(<<d>>, c)
          /\ Once(results, c) /\ ~(Has(results, c) /\ Has(<<d>>, c)) => Once(results', c)
      BY <2>3, <2>4, ConcatHas
    <3> QED BY <3>1, <2>3 DEF Result
  <2>7. CASE d = c
    BY <1>0, <1>a, <1>b, <1>d, <2>1, <2>5, <2>6, <2>7 DEF Move, Fresh, Early, Returning
  <2>8. CASE d # c
    BY <1>a, <1>b, <1>d, <1>f, <1>h, <2>1, <2>5, <2>6, <2>8
  <2> QED BY <2>7, <2>8
<1>9. ASSUME DealCommand PROVE Move(c)'
  <2> DEFINE d == Head(deque).cmd
  <2>1. /\ Deal /\ d # NoCmd /\ pending' = Append(pending, d)
        /\ UNCHANGED <<pc, cur, results, cbPc, cbTask, deadline, answered, orphans>>
    BY <1>9 DEF DealCommand, DealRest
  <2>2. d \in Cmds
    <3>1. Head(deque) \in Order
      BY <2>1 DEF Deal, TypeInv
    <3> QED BY <2>1, <3>1 DEF Order
  <2>3. /\ Pending(c)' <=> Pending(c) \/ d = c
        /\ (d = c => ~Pending(c)) => Once(pending, c)'
    BY <2>1, <2>2, <1>h, AppendHas DEF Pending, TypeInv
  <2>6. /\ OnceCmd(deque, c)'
        /\ d = c => Queued(c) /\ ~Queued(c)'
        /\ d # c => (Queued(c)' <=> Queued(c))
    BY <2>1, <1>h, DealMoves
  <2> HIDE DEF d
  <2>7. CASE d = c
    BY <1>0, <1>a, <1>b, <1>e, <2>1, <2>3, <2>6, <2>7 DEF Move, Fresh, Early, Returning
  <2>8. CASE d # c
    BY <1>a, <1>b, <1>e, <1>f, <1>h, <2>1, <2>3, <2>6, <2>8
  <2> QED BY <2>7, <2>8
<1>10. ASSUME DealConnect \/ DealConnectFail PROVE Move(c)'
  <2>1. /\ Deal /\ Head(deque).cmd = NoCmd
        /\ UNCHANGED <<pc, cur, pending, cbPc, cbTask, deadline, answered, orphans>>
    BY <1>10 DEF DealConnect, DealConnectFail, DealRest
  <2>2. Result(c)' <=> Result(c)
    <3>1. CASE UNCHANGED results
      BY <1>e, <3>1
    <3>2. CASE Posted(<<>>, <<>>)
      <4>0. <<>> \in Seq(Cmds)
        OBVIOUS
      <4>1. results' = results \o <<>> /\ results \in Seq(Cmds)
        BY <3>2, <4>0, PostedReplies DEF TypeInv
      <4> QED BY <4>1, <1>e
    <3> QED BY <1>10, <3>1, <3>2 DEF DealConnect, DealConnectFail, OnReset
  <2>3. Once(results, c) => Once(results, c)'
    <3>1. CASE UNCHANGED results
      BY <1>e, <3>1
    <3>2. CASE Posted(<<>>, <<>>)
      <4>0. <<>> \in Seq(Cmds)
        OBVIOUS
      <4>1. results' = results \o <<>> /\ results \in Seq(Cmds)
        BY <3>2, <4>0, PostedReplies DEF TypeInv
      <4> QED BY <4>1, <1>e
    <3> QED BY <1>10, <3>1, <3>2 DEF DealConnect, DealConnectFail, OnReset
  <2>4. OnceCmd(deque, c)' /\ (Queued(c)' <=> Queued(c))
    BY <2>1, <1>0, <1>h, DealMoves
  <2> QED BY <1>a, <1>b, <1>d, <1>f, <1>h, <2>1, <2>2, <2>3, <2>4
<1>11. ASSUME NEW A \in SUBSET Members(pending), NEW a \in InOrder(pending, A), Posted(a, <<>>),
              pending' \in InOrder(pending, Members(pending) \ A),
              UNCHANGED <<pc, cur, deque, cbPc, cbTask, deadline, answered, orphans>>
       PROVE  Move(c)'
  <2>1. /\ Once(pending, c)'
        /\ Pending(c)' <=> Pending(c) /\ c \notin A
        /\ Result(c)' <=> Result(c) \/ (Pending(c) /\ c \in A)
        /\ Once(results, c) /\ ~(Result(c) /\ Pending(c)) => Once(results, c)'
    BY <1>11, <1>h, PendingMoves
  <2> QED BY <1>0, <1>a, <1>b, <1>c, <1>11, <2>1 DEF Move, Fresh, Early, Returning
<1>12. ASSUME CheckOutSecond PROVE Move(c)'
  <2> DEFINE A == {d \in Members(pending) : Overdue(d)}
  <2>1. PICK a \in InOrder(pending, A) : Posted(a, <<>>)
    BY <1>12 DEF CheckOutSecond
  <2>2. {d \in Members(pending) : ~Overdue(d)} = Members(pending) \ A
    OBVIOUS
  <2>3. pending' \in InOrder(pending, Members(pending) \ A) /\ A \in SUBSET Members(pending)
    BY <1>12, <2>2 DEF CheckOutSecond
  <2>4. UNCHANGED <<pc, cur, deque, cbPc, cbTask, deadline, answered, orphans>>
    BY <1>12 DEF CheckOutSecond
  <2> HIDE DEF A
  <2> QED BY <2>1, <2>3, <2>4, <1>11
<1>13. ASSUME Reply PROVE Move(c)'
  <2> DEFINE A == Members(pending) \cap {Head(replies)}
  <2>1. PICK a \in InOrder(pending, A) : Posted(a, <<>>)
    BY <1>13 DEF Reply
  <2>2. Members(pending) \ {Head(replies)} = Members(pending) \ A
    OBVIOUS
  <2>3. pending' \in InOrder(pending, Members(pending) \ A) /\ A \in SUBSET Members(pending)
    BY <1>13, <2>2 DEF Reply
  <2>4. UNCHANGED <<pc, cur, deque, cbPc, cbTask, deadline, answered, orphans>>
    BY <1>13 DEF Reply
  <2> HIDE DEF A
  <2> QED BY <2>1, <2>3, <2>4, <1>11
<1>14. ASSUME OnConnected \/ ConnectFailed PROVE Move(c)'
  <2>1. UNCHANGED <<pc, cur, deque, pending, cbPc, cbTask, deadline, answered, orphans>>
    BY <1>14 DEF OnConnected, ConnectFailed
  <2>2. UNCHANGED results \/ Posted(<<>>, <<"RUNING">>) \/ Posted(<<>>, <<>>)
    BY <1>14 DEF OnConnected, ConnectFailed, OnSuccess, OnReset
  <2>3. results \in Seq(Cmds) /\ <<>> \in Seq(Cmds) /\ "RUNING" \in Svr
    BY DEF TypeInv, Svr
  <2>4. UNCHANGED results \/ results' = results \o <<>>
    BY <2>2, <2>3, PostedReplies, PostedState
  <2>5. results' = results
    BY <2>3, <2>4
  <2> QED BY <2>1, <2>5, <1>4
<1>15. ASSUME Disconnected PROVE Move(c)'
  <2>1. /\ UNCHANGED <<pc, cur, deque, pending, cbPc, cbTask, deadline, answered>>
        /\ orphans' = orphans \cup Members(pending)
    BY <1>15 DEF Disconnected
  <2>2. Posted(pending, <<>>) \/ Posted(pending, <<"ERROR">>)
    BY <1>15 DEF Disconnected, OnDisconn
  <2>3. results \in Seq(Cmds) /\ pending \in Seq(Cmds) /\ "ERROR" \in Svr
    BY DEF TypeInv, Svr
  <2>4. results' = results \o pending
    BY <2>2, <2>3, PostedReplies, PostedState
  <2>5. /\ Result(c)' <=> Result(c) \/ Pending(c)
        /\ Once(results, c) /\ ~Pending(c) => Once(results, c)'
    BY <2>3, <2>4, <1>h, ConcatHas DEF Result, Pending
  <2>6. c \in orphans' <=> c \in orphans \/ Pending(c)
    BY <2>1, MembersHas DEF Pending
  <2> QED BY <1>0, <1>a, <1>b, <1>c, <1>d, <2>1, <2>5, <2>6 DEF Move, Fresh, Early, Returning
<1>16. ASSUME NEW t \in Cbs, CbReply(t) PROVE Move(c)'
  <2> DEFINE d == Head(results)
  <2>1. /\ cbPc[t] = "idle" /\ results # <<>> /\ results' = Tail(results)
        /\ cbPc' = [cbPc EXCEPT ![t] = "call"] /\ cbTask' = [cbTask EXCEPT ![t] = d]
        /\ UNCHANGED <<pc, cur, deque, pending, deadline, answered, orphans>>
    BY <1>16 DEF CbReply, Take
  <2>2. /\ Result(c) <=> Result(c)' \/ d = c
        /\ Once(results, c) => Once(results, c)' /\ (d = c => ~Result(c)')
    BY <2>1, TailHas DEF Result, TypeInv
  <2>3. \A s \in Cbs : InCall(s, c)' <=> InCall(s, c) \/ (s = t /\ d = c)
    BY <2>1 DEF InCall, TypeInv
  <2>4. Called(c)' <=> Called(c) \/ d = c
    BY <2>3 DEF Called
  <2>5. OneCall(c) /\ (d = c => ~Called(c)) => OneCall(c)'
    BY <2>3 DEF OneCall, Called
  <2> HIDE DEF d
  <2> QED BY <1>0, <1>a, <1>c, <1>d, <2>1, <2>2, <2>4, <2>5 DEF Move, Fresh, Early, Returning
<1>17. ASSUME NEW t \in Cbs, CbCall(t) PROVE Move(c)'
  <2> DEFINE d == cbTask[t]
  <2>1. /\ cbPc[t] = "call" /\ answered' = [answered EXCEPT ![d] = answered[d] + 1]
        /\ cbPc' = [cbPc EXCEPT ![t] = "idle"] /\ cbTask' = [cbTask EXCEPT ![t] = NoCmd]
        /\ UNCHANGED <<pc, cur, deque, pending, results, deadline, orphans>>
    BY <1>17 DEF CbCall
  <2>2. d \in Cmds
    BY <2>1 DEF TypeInv
  <2>3. \A s \in Cbs : InCall(s, c)' <=> InCall(s, c) /\ s # t
    BY <2>1 DEF InCall, TypeInv
  <2>4. CASE d = c
    <3>1. InCall(t, c) /\ Called(c)
      BY <2>1, <2>4 DEF InCall, Called
    <3>2. OneCall(c) => ~Called(c)' /\ OneCall(c)'
      BY <3>1, <2>3 DEF Called, OneCall
    <3>3. answered'[c] = answered[c] + 1 /\ answered[c] \in Nat
      BY <2>1, <2>2, <2>4 DEF TypeInv
    <3>4. answered'[c] # 0 /\ (answered[c] = 0 => answered'[c] = 1)
      BY <3>3
    <3> QED BY <1>0, <1>a, <1>c, <1>d, <1>e, <2>1, <3>1, <3>2, <3>4 DEF Move, Fresh, Early, Returning
  <2>5. CASE d # c
    <3>1. ~InCall(t, c)
      BY <2>5 DEF InCall
    <3>2. (Called(c)' <=> Called(c)) /\ (OneCall(c) => OneCall(c)')
      BY <3>1, <2>3 DEF Called, OneCall
    <3>3. answered'[c] = answered[c]
      BY <2>1, <2>2, <2>5 DEF TypeInv
    <3> QED BY <1>0, <1>a, <1>c, <1>d, <1>e, <2>1, <3>2, <3>3 DEF Move, Fresh, Early, Returning
  <2> QED BY <2>4, <2>5
<1>18. ASSUME NEW t \in Cbs, CbState(t) \/ CbTell(t) \/ CbLeave(t) PROVE Move(c)'
  <2>1. UNCHANGED <<pc, cur, deque, pending, results, deadline, answered, orphans>>
    BY <1>18 DEF CbState, CbTell, CbLeave
  <2>2. \A s \in Cbs : InCall(s, c)' <=> InCall(s, c)
    BY <1>18 DEF CbState, CbTell, CbLeave, Take, InCall, TypeInv
  <2> QED BY <2>1, <2>2, <1>g
<1>19. ASSUME ExitCall \/ ExitStep PROVE Move(c)'
  BY <1>4, <1>19 DEF ExitCall, ExitStep, ExitPoll, ExitReset, ExitWrite, ExitReturn
<1> QED
  BY <1>1, <1>2, <1>3, <1>5, <1>6, <1>7, <1>8, <1>9, <1>10, <1>12, <1>13, <1>14, <1>15, <1>16,
     <1>17, <1>18, <1>19
  DEF Next, UserStep, TimerStep, IoStep, NetStep, CbStep

\* In the initial state no command is anywhere.
LEMMA MoveInit ==
  ASSUME Init
  PROVE  MoveInv
<1> SUFFICES ASSUME NEW c \in Cmds PROVE Move(c)
  BY DEF MoveInv
<1>1. /\ deque = <<Connect>> /\ Connect.cmd # c /\ pending = <<>> /\ results = <<>> /\ orphans = {}
      /\ deadline[c] = 0 /\ answered[c] = 0
  BY RedisAssumption DEF Init, Connect
<1>2. ~Queued(c) /\ OnceCmd(deque, c)
  BY <1>1 DEF Queued, HasCmd, OnceCmd
<1>3. ~Pending(c) /\ ~Result(c) /\ Once(pending, c) /\ Once(results, c)
  BY <1>1 DEF Pending, Result, Has, Once
<1>4. ~Hand(c) /\ OneHand(c) /\ ~Called(c) /\ OneCall(c)
  BY DEF Init, Hand, OneHand, InHand, Called, OneCall, InCall
<1> QED BY <1>1, <1>2, <1>3, <1>4 DEF Move, Fresh, Early, Returning

\* The size of a set with at most one element
LEMMA CountOne ==
  ASSUME NEW S, \A x, y \in S : x = y
  PROVE  Cardinality(S) = IF S = {} THEN 0 ELSE 1
<1>1. CASE S = {}
  BY <1>1, FS_EmptySet
<1>2. CASE S # {}
  <2>1. PICK x : S = {x}
    BY <1>2
  <2> QED BY <2>1, <1>2, FS_Singleton
<1> QED BY <1>1, <1>2

\* What MoveInv says of the counts in AnsweredOnce
LEMMA MoveOnce ==
  ASSUME TypeInv, MoveInv
  PROVE  AnsweredOnce
<1> SUFFICES ASSUME ~crashed, NEW c \in Accepted \ orphans
             PROVE  InHands(c) + InDeque(c) + Count1(pending, c) + Count1(results, c) + Calling(c)
                      + answered[c] = 1
  BY DEF AnsweredOnce
<1>1. c \in Cmds /\ deadline[c] # 0 /\ c # NoCmd /\ c \notin orphans
  BY RedisAssumption DEF Accepted
<1>2. Early(c) /\ Returning(c)
  BY <1>1 DEF MoveInv, Move
<1>3. InHands(c) = IF Hand(c) THEN 1 ELSE 0
  <2> DEFINE S == {u \in Users : cur[u] = c /\ pc[u] # "wake"}
  <2>1. \A u \in Users : u \in S <=> InHand(u, c)
    BY <1>1 DEF TypeInv, InHand
  <2>2. \A u, v \in S : u = v
    BY <2>1, <1>2 DEF Early, OneHand
  <2>3. S = {} <=> ~Hand(c)
    BY <2>1 DEF Hand
  <2> HIDE DEF S
  <2>4. Cardinality(S) = IF Hand(c) THEN 1 ELSE 0
    BY <2>2, <2>3, CountOne
  <2> QED BY <2>4 DEF InHands, S
<1>4. InDeque(c) = IF Queued(c) THEN 1 ELSE 0
  <2> DEFINE S == {k \in 1 .. Len(deque) : deque[k].cmd = c}
  <2>1. \A u, v \in S : u = v
    BY <1>2 DEF Early, OnceCmd
  <2>2. S = {} <=> ~Queued(c)
    BY DEF Queued, HasCmd
  <2> HIDE DEF S
  <2>3. Cardinality(S) = IF Queued(c) THEN 1 ELSE 0
    BY <2>1, <2>2, CountOne
  <2> QED BY <2>3 DEF InDeque, S
<1>5. ASSUME NEW s, Once(s, c) PROVE Count1(s, c) = IF Has(s, c) THEN 1 ELSE 0
  <2> DEFINE S == {k \in 1 .. Len(s) : s[k] = c}
  <2>1. \A u, v \in S : u = v
    BY <1>5 DEF Once
  <2>2. S = {} <=> ~Has(s, c)
    BY DEF Has
  <2> HIDE DEF S
  <2>3. Cardinality(S) = IF Has(s, c) THEN 1 ELSE 0
    BY <2>1, <2>2, CountOne
  <2> QED BY <2>3 DEF Count1, S
<1>6. Once(pending, c) /\ Once(results, c) /\ OneCall(c)
  BY <1>1, <1>2 DEF Early, Returning
<1>7. Count1(pending, c) = IF Pending(c) THEN 1 ELSE 0
  BY <1>5, <1>6 DEF Pending
<1>8. Count1(results, c) = IF Result(c) THEN 1 ELSE 0
  BY <1>5, <1>6 DEF Result
<1>9. Calling(c) = IF Called(c) THEN 1 ELSE 0
  <2> DEFINE S == {t \in Cbs : cbPc[t] = "call" /\ cbTask[t] = c}
  <2>1. \A u, v \in S : u = v
    BY <1>6 DEF OneCall, InCall
  <2>2. S = {} <=> ~Called(c)
    BY DEF Called, InCall
  <2> HIDE DEF S
  <2>3. Cardinality(S) = IF Called(c) THEN 1 ELSE 0
    BY <2>1, <2>2, CountOne
  <2> QED BY <2>3 DEF Calling, S
<1>10. /\ ~(Hand(c) /\ Queued(c)) /\ ~(Hand(c) /\ Pending(c)) /\ ~(Queued(c) /\ Pending(c))
       /\ answered[c] \in {0, 1}
       /\ Hand(c) \/ Queued(c) \/ Pending(c) => ~Result(c) /\ ~Called(c) /\ answered[c] = 0
       /\ Result(c) => ~Called(c) /\ answered[c] = 0
       /\ Called(c) => answered[c] = 0
       /\ Hand(c) \/ Queued(c) \/ Pending(c) \/ Result(c) \/ Called(c) \/ answered[c] # 0
  BY <1>1, <1>2 DEF Early, Returning
<1> QED BY <1>3, <1>4, <1>7, <1>8, <1>9, <1>10

-----------------------------------------------------------------------------
(* What the application is told                                             *)

\* State tasks of a tail
LEMMA SvrTail ==
  ASSUME NEW S, NEW s \in Seq(S), s # <<>>
  PROVE  \A v : LastSvr(s, v) => LastSvr(Tail(s), v)
<1>1. /\ Head(s) \in S /\ Tail(s) \in Seq(S) /\ Head(s) = s[1]
      /\ Len(s) \in Nat \ {0} /\ Len(Tail(s)) = Len(s) - 1
      /\ \A k \in 1 .. Len(s) - 1 : Tail(s)[k] = s[k + 1] /\ k + 1 \in 1 .. Len(s)
      /\ \A k \in 1 .. Len(s) : k = 1 \/ (k - 1 \in 1 .. Len(s) - 1 /\ s[k] = Tail(s)[k - 1])
  BY TailElements
<1>2. 1 \in 1 .. Len(s)
  BY <1>1
<1>4. ASSUME NEW v, LastSvr(s, v), NEW k \in 1 .. Len(s) - 1, Tail(s)[k] \in Svr,
             \A j \in 1 .. Len(s) - 1 : j > k => Tail(s)[j] \notin Svr
      PROVE  Tail(s)[k] = v
  <2>1. k + 1 \in 1 .. Len(s) /\ s[k + 1] = Tail(s)[k]
    BY <1>1
  <2>2. ASSUME NEW j \in 1 .. Len(s), j > k + 1 PROVE s[j] \notin Svr
    <3>1. j # 1 /\ j - 1 > k
      BY <2>2, <1>1
    <3> QED BY <3>1, <1>1, <1>4
  <2> QED BY <2>1, <2>2, <1>4 DEF LastSvr
<1> QED BY <1>1, <1>4 DEF LastSvr

\* Every step keeps the last state task equal to the state.
LEMMA ToldStep ==
  ASSUME TypeInv, ToldInv, Next
  PROVE  ToldInv'
<1> USE DEF timerVars, userVars, ioVars, cliVars, svrVars, poolVars, exitVars, logVars
<1>0. ~crashed /\ tasks \in Seq(Svr \cup {"reply"}) /\ results \in Seq(Cmds) /\ <<>> \in Seq(Cmds)
  BY DEF Next, TypeInv
<1>a. LastSvr(tasks, initState)
  BY <1>0 DEF ToldInv
<1>b. ASSUME UNCHANGED <<tasks, initState>> PROVE ToldInv'
  BY <1>a, <1>b DEF ToldInv
<1>c. ASSUME NEW rs \in Seq(Cmds), Posted(rs, <<>>), UNCHANGED initState
      PROVE  ToldInv'
  <2>1. crashed' \/ LastSvr(tasks', initState)
    BY <1>a, <1>c, PostedReplies
  <2> QED BY <1>c, <2>1 DEF ToldInv
<1>d. ASSUME NEW rs \in Seq(Cmds), NEW v \in Svr, Posted(rs, <<v>>), initState' = v
      PROVE  ToldInv'
  <2>1. crashed' \/ LastSvr(tasks', v)
    BY <1>d, PostedState
  <2> QED BY <1>d, <2>1 DEF ToldInv
<1>1. ASSUME NEW u \in Users, UserStep(u) \/ \E c \in Cmds : Command(u, c) PROVE ToldInv'
  BY <1>1, <1>b DEF UserStep, Push, Wake, Command
<1>2. ASSUME TimerStep PROVE ToldInv'
  BY <1>2, <1>b DEF TimerStep, TimerTick, TimerDeal, TimerWake, TimerEnd
<1>3. ASSUME HandleRead \/ DrainLeave \/ DrainEnd \/ DealCommand \/ DealConnect PROVE ToldInv'
  BY <1>3, <1>b DEF HandleRead, DrainLeave, DrainEnd, Drained, DealCommand, DealConnect, DealRest
<1>4. ASSUME DealAnswer \/ DealCommandFail PROVE ToldInv'
  <2> DEFINE d == Head(deque).cmd
  <2>1. /\ Deal /\ d # NoCmd /\ Posted(<<d>>, <<>>)
        /\ UNCHANGED initState
    BY <1>4 DEF DealAnswer, DealCommandFail, DealRest
  <2>2. d \in Cmds
    <3>1. Head(deque) \in Order
      BY <2>1 DEF Deal, TypeInv
    <3> QED BY <2>1, <3>1 DEF Order
  <2>3. <<d>> \in Seq(Cmds)
    BY <2>2
  <2> QED BY <2>1, <2>3, <1>c
<1>5. ASSUME DealConnectFail \/ ConnectFailed PROVE ToldInv'
  <2>1. UNCHANGED initState /\ OnReset
    BY <1>5 DEF DealConnectFail, ConnectFailed
  <2> QED BY <2>1, <1>0, <1>b, <1>c DEF OnReset
<1>6. ASSUME CheckOutSecond PROVE ToldInv'
  <2> DEFINE A == {d \in Members(pending) : Overdue(d)}
  <2>1. PICK a \in InOrder(pending, A) : Posted(a, <<>>)
    BY <1>6 DEF CheckOutSecond
  <2>2. A \in SUBSET Members(pending) /\ pending \in Seq(Cmds)
    BY DEF TypeInv
  <2> HIDE DEF A
  <2>3. a \in Seq(Cmds)
    BY <2>1, <2>2, InOrderHas
  <2>4. UNCHANGED initState
    BY <1>6 DEF CheckOutSecond
  <2> QED BY <2>1, <2>3, <2>4, <1>c
<1>7. ASSUME Reply PROVE ToldInv'
  <2> DEFINE A == Members(pending) \cap {Head(replies)}
  <2>1. PICK a \in InOrder(pending, A) : Posted(a, <<>>)
    BY <1>7 DEF Reply
  <2>2. A \in SUBSET Members(pending) /\ pending \in Seq(Cmds)
    BY DEF TypeInv
  <2> HIDE DEF A
  <2>3. a \in Seq(Cmds)
    BY <2>1, <2>2, InOrderHas
  <2>4. UNCHANGED initState
    BY <1>7 DEF Reply
  <2> QED BY <2>1, <2>3, <2>4, <1>c
<1>8. ASSUME OnConnected PROVE ToldInv'
  <2>1. OnSuccess /\ "RUNING" \in Svr
    BY <1>8 DEF OnConnected, Svr
  <2> QED BY <2>1, <1>0, <1>b, <1>d DEF OnSuccess
<1>9. ASSUME Disconnected PROVE ToldInv'
  <2>1. OnDisconn(pending) /\ "ERROR" \in Svr /\ pending \in Seq(Cmds)
    BY <1>9 DEF Disconnected, Svr, TypeInv
  <2> QED BY <2>1, <1>0, <1>c, <1>d DEF OnDisconn
<1>10. ASSUME NEW t \in Cbs, CbReply(t) \/ CbState(t) PROVE ToldInv'
  <2>1. tasks # <<>> /\ tasks' = Tail(tasks) /\ UNCHANGED <<initState, crashed>>
    BY <1>10 DEF CbReply, CbState, Take
  <2>2. LastSvr(tasks', initState)
    BY <1>0, <1>a, <2>1, SvrTail
  <2> QED BY <2>1, <2>2 DEF ToldInv
<1>11. ASSUME NEW t \in Cbs, CbCall(t) \/ CbTell(t) \/ CbLeave(t) PROVE ToldInv'
  BY <1>11, <1>b DEF CbCall, CbTell, CbLeave
<1>12. ASSUME ExitCall \/ ExitStep PROVE ToldInv'
  BY <1>12, <1>b DEF ExitCall, ExitStep, ExitPoll, ExitReset, ExitWrite, ExitReturn
<1> QED
  BY <1>1, <1>2, <1>3, <1>4, <1>5, <1>6, <1>7, <1>8, <1>9, <1>10, <1>11, <1>12
  DEF Next, IoStep, NetStep, CbStep

-----------------------------------------------------------------------------
(* What redisAsyncExit waits for                                            *)

\* The commands are finitely many, and so are the open ones.
LEMMA OpenFinite ==
  IsFiniteSet(Open) /\ Cardinality(Open) \in Nat
<1>1. IsFiniteSet(Open)
  BY RedisAssumption, FS_Subset DEF Open
<1> QED BY <1>1, FS_CardinalityType

\* The pool is reset after its threads have ended, and in this order.
LEMMA ExitOrder ==
  ASSUME TypeInv, ExitInv, Next
  PROVE  /\ exitPc' \in {"idle", "poll", "join", "timer", "io", "done"} /\ (isExit' <=> exitPc' # "idle")
         /\ exitPc' \in {"timer", "io", "done"} <=> pool' = "gone"
         /\ pool' = "gone" => \A t \in Cbs : cbPc'[t] = "done"
<1> USE DEF timerVars, userVars, ioVars, cliVars, svrVars, poolVars, exitVars, logVars
<1>a. /\ exitPc \in {"idle", "poll", "join", "timer", "io", "done"} /\ (isExit <=> exitPc # "idle")
      /\ exitPc \in {"timer", "io", "done"} <=> pool = "gone"
      /\ pool = "gone" => \A t \in Cbs : cbPc[t] = "done"
  BY DEF ExitInv
<1> DEFINE Goal == /\ exitPc' \in {"idle", "poll", "join", "timer", "io", "done"}
                   /\ isExit' <=> exitPc' # "idle"
                   /\ exitPc' \in {"timer", "io", "done"} <=> pool' = "gone"
                   /\ pool' = "gone" => \A t \in Cbs : cbPc'[t] = "done"
<1>1. ASSUME UNCHANGED <<exitPc, isExit, pool, cbPc>> PROVE Goal
  BY <1>a, <1>1
<1>2. ASSUME NEW t \in Cbs, CbStep(t) PROVE Goal
  <2>1. UNCHANGED <<exitPc, isExit, pool>> /\ cbPc[t] # "done"
    BY <1>2 DEF CbStep, CbReply, CbCall, CbState, CbTell, CbLeave, Take
  <2> QED BY <1>a, <2>1
<1>3. ASSUME ExitCall PROVE Goal
  BY <1>a, <1>3 DEF ExitCall
<1>4. ASSUME ExitPoll PROVE Goal
  BY <1>a, <1>4 DEF ExitPoll
<1>5. ASSUME ExitReset PROVE Goal
  BY <1>a, <1>5 DEF ExitReset
<1>6. ASSUME ExitWrite \/ ExitReturn PROVE Goal
  BY <1>a, <1>6 DEF ExitWrite, ExitReturn
<1> HIDE DEF Goal
<1>7. ASSUME NEW u \in Users, UserStep(u) \/ \E c \in Cmds : Command(u, c) PROVE Goal
  BY <1>1, <1>7 DEF UserStep, Push, Wake, Command
<1>8. ASSUME TimerStep \/ IoStep \/ NetStep PROVE Goal
  <2>1. CASE TimerStep
    BY <1>1, <2>1 DEF TimerStep, TimerTick, TimerDeal, TimerWake, TimerEnd
  <2>2. CASE IoStep
    BY <1>1, <2>2 DEF IoStep, HandleRead, DealAnswer, DealCommand, DealCommandFail, DealConnect,
                      DealConnectFail, DrainLeave, CheckOutSecond, DrainEnd, DealRest
  <2>3. CASE NetStep
    BY <1>1, <2>3 DEF NetStep, OnConnected, ConnectFailed, Disconnected, Reply
  <2> QED BY <1>8, <2>1, <2>2, <2>3
<1>9. Goal
  BY <1>2, <1>3, <1>4, <1>5, <1>6, <1>7, <1>8 DEF Next, ExitStep
<1> QED BY <1>9 DEF Goal

\* With a quiet exit asyncCmdNum counts the open commands at every step, and
\* after redisAsyncExit has seen it zero there is none.
LEMMA ExitInvStep ==
  ASSUME TypeInv, MoveInv, ExitInv, Next, QuietExit
  PROVE  ExitInv'
<1> USE DEF timerVars, userVars, ioVars, cliVars, svrVars, poolVars, exitVars, logVars
<1>0. ~crashed
  BY DEF Next
<1>a. orphans \subseteq orphans'
  <2>1. CASE Disconnected
    BY <2>1 DEF Disconnected
  <2>2. CASE UNCHANGED orphans
    BY <2>2
  <2>3. \/ Disconnected \/ UNCHANGED orphans
    BY DEF Next, UserStep, Push, Wake, Command, TimerStep, TimerTick, TimerDeal, TimerWake, TimerEnd,
           IoStep, HandleRead, DealAnswer, DealCommand, DealCommandFail, DealConnect, DealConnectFail,
           DrainLeave, CheckOutSecond, DrainEnd, DealRest, NetStep, OnConnected, ConnectFailed, Reply,
           CbStep, CbReply, CbCall, CbState, CbTell, CbLeave, ExitCall, ExitStep, ExitPoll, ExitReset,
           ExitWrite, ExitReturn
  <2> QED BY <2>1, <2>2, <2>3
<1> SUFFICES ASSUME orphans' = {}
             PROVE  /\ \A c \in Cmds : answered'[c] \in {0, 1}
                    /\ crashed' \/ asyncNum' = Cardinality(Open')
                    /\ exitPc' \in {"join", "timer", "io", "done"} => Open' = {}
  BY ExitOrder DEF ExitInv
<1>b. /\ orphans = {}
      /\ \A c \in Cmds : answered[c] \in {0, 1}
      /\ asyncNum = Cardinality(Open)
      /\ exitPc \in {"join", "timer", "io", "done"} => Open = {}
      /\ isExit <=> exitPc # "idle"
      /\ exitPc \in {"idle", "poll", "join", "timer", "io", "done"}
  BY <1>0, <1>a DEF ExitInv
<1>c. \A c \in Cmds : Fresh(c) /\ Returning(c) /\ c \notin orphans
  BY <1>0, <1>b DEF MoveInv, Move
<1>d. IsFiniteSet(Open) /\ Cardinality(Open) \in Nat
  BY OpenFinite
<1> DEFINE Goal == /\ \A c \in Cmds : answered'[c] \in {0, 1}
                   /\ crashed' \/ asyncNum' = Cardinality(Open')
                   /\ exitPc' \in {"join", "timer", "io", "done"} => Open' = {}
<1>1. ASSUME Open' = Open, UNCHANGED <<answered, asyncNum, exitPc>> PROVE Goal
  BY <1>b, <1>1
<1>2. ASSUME UNCHANGED <<deadline, answered, cbPc, cbTask>> PROVE Open' = Open
  BY <1>2 DEF Open, Called, InCall
<1>3. ASSUME NEW u \in Users, NEW d \in Cmds, Command(u, d) PROVE Goal
  <2>1. /\ deadline[d] = 0 /\ ~isExit /\ asyncNum' = asyncNum + 1
        /\ deadline' = [deadline EXCEPT ![d] = nowSecond + OutSecond]
        /\ UNCHANGED <<answered, cbPc, cbTask, exitPc>>
    BY <1>3 DEF Command
  <2>2. exitPc' = "idle"
    BY <2>1, <1>b
  <2>3. nowSecond + OutSecond # 0
    BY RedisAssumption DEF TypeInv
  <2>4. answered[d] = 0 /\ ~Called(d)
    BY <2>1, <1>c DEF Fresh
  <2>5. \A c \in Cmds : Called(c)' <=> Called(c)
    BY <2>1 DEF Called, InCall
  <2>6. Open' = Open \cup {d} /\ d \notin Open
    BY <2>1, <2>3, <2>4, <2>5 DEF Open, TypeInv
  <2>7. Cardinality(Open') = Cardinality(Open) + 1
    BY <1>d, <2>6, FS_AddElement
  <2> QED BY <1>b, <2>1, <2>2, <2>7
<1>4. ASSUME NEW t \in Cbs, CbReply(t) PROVE Goal
  <2> DEFINE d == Head(results)
  <2>1. /\ cbPc[t] = "idle" /\ results # <<>> /\ asyncNum' = asyncNum - 1
        /\ cbPc' = [cbPc EXCEPT ![t] = "call"] /\ cbTask' = [cbTask EXCEPT ![t] = d]
        /\ UNCHANGED <<deadline, answered, exitPc>>
    BY <1>4 DEF CbReply, Take
  <2>2. Result(d) /\ d \in Cmds
    BY <2>1, TailHas DEF Result, TypeInv
  <2>3. answered[d] = 0 /\ ~Called(d) /\ deadline[d] # 0
    BY <2>2, <1>c DEF Fresh, Returning
  <2>4. \A c \in Cmds : Called(c)' <=> Called(c) \/ c = d
    <3>1. \A c \in Cmds, s \in Cbs : InCall(s, c)' <=> InCall(s, c) \/ (s = t /\ d = c)
      BY <2>1 DEF InCall, TypeInv
    <3> QED BY <3>1 DEF Called
  <2> HIDE DEF d
  <2>5. Open' = Open \ {d} /\ d \in Open
    BY <2>1, <2>2, <2>3, <2>4 DEF Open
  <2>6. Cardinality(Open') = Cardinality(Open) - 1
    BY <1>d, <2>5, FS_RemoveElement
  <2> QED BY <1>b, <2>1, <2>5, <2>6
<1>5. ASSUME NEW t \in Cbs, CbCall(t) PROVE Goal
  <2> DEFINE d == cbTask[t]
  <2>1. /\ cbPc[t] = "call" /\ answered' = [answered EXCEPT ![d] = answered[d] + 1]
        /\ cbPc' = [cbPc EXCEPT ![t] = "idle"] /\ cbTask' = [cbTask EXCEPT ![t] = NoCmd]
        /\ UNCHANGED <<deadline, asyncNum, exitPc>>
    BY <1>5 DEF CbCall
  <2>2. d \in Cmds
    BY <2>1 DEF TypeInv
  <2>3. Called(d)
    BY <2>1 DEF Called, InCall
  <2>4. answered[d] = 0
    BY <2>2, <2>3, <1>c DEF Returning
  <2>5. answered'[d] = 1 /\ \A c \in Cmds : c # d => answered'[c] = answered[c]
    BY <2>1, <2>2, <2>4 DEF TypeInv
  <2>6. \A c \in Cmds : c # d => (Called(c)' <=> Called(c))
    <3>1. \A c \in Cmds, s \in Cbs : c # d => (InCall(s, c)' <=> InCall(s, c))
      BY <2>1 DEF InCall, TypeInv
    <3> QED BY <3>1 DEF Called
  <2> HIDE DEF d
  <2>7. Open' = Open
    <3>1. \A c \in Cmds : c \in Open' <=> c \in Open
      BY <2>1, <2>3, <2>5, <2>6 DEF Open
    <3> QED BY <3>1 DEF Open
  <2> QED BY <1>b, <2>1, <2>5, <2>7
<1>6. ASSUME NEW t \in Cbs, CbState(t) \/ CbTell(t) \/ CbLeave(t) PROVE Goal
  <2>1. UNCHANGED <<deadline, answered, asyncNum, exitPc>>
    BY <1>6 DEF CbState, CbTell, CbLeave
  <2>2. \A c \in Cmds, s \in Cbs : InCall(s, c)' <=> InCall(s, c)
    BY <1>6 DEF CbState, CbTell, CbLeave, Take, InCall, TypeInv
  <2>3. \A c \in Cmds : Called(c)' <=> Called(c)
    BY <2>2 DEF Called
  <2>4. Open' = Open
    BY <2>1, <2>3 DEF Open
  <2> QED BY <2>1, <2>4, <1>1
<1>7. ASSUME ExitCall PROVE Goal
  <2>1. Open' = Open /\ exitPc' = "poll" /\ UNCHANGED <<answered, asyncNum>>
    BY <1>2, <1>7 DEF ExitCall
  <2> QED BY <2>1, <1>b
<1>8. ASSUME ExitPoll PROVE Goal
  <2>1. Open' = Open /\ asyncNum = 0 /\ UNCHANGED <<answered, asyncNum>>
    BY <1>2, <1>8 DEF ExitPoll
  <2>2. Open = {}
    BY <2>1, <1>b, <1>d, FS_EmptySet
  <2> QED BY <2>1, <2>2, <1>b
<1>9. ASSUME ExitReset \/ ExitWrite \/ ExitReturn PROVE Goal
  <2>1. Open' = Open /\ UNCHANGED <<answered, asyncNum>> /\ exitPc \in {"join", "timer", "io", "done"}
    BY <1>2, <1>9 DEF ExitReset, ExitWrite, ExitReturn
  <2> QED BY <2>1, <1>b
<1> HIDE DEF Goal
<1>10. ASSUME NEW u \in Users, UserStep(u) PROVE Goal
  BY <1>1, <1>2, <1>10 DEF UserStep, Push, Wake
<1>11. ASSUME TimerStep \/ IoStep \/ NetStep PROVE Goal
  <2>1. CASE TimerStep
    BY <1>1, <1>2, <2>1 DEF TimerStep, TimerTick, TimerDeal, TimerWake, TimerEnd
  <2>2. CASE IoStep
    BY <1>1, <1>2, <2>2 DEF IoStep, HandleRead, DealAnswer, DealCommand, DealCommandFail, DealConnect,
                      DealConnectFail, DrainLeave, CheckOutSecond, DrainEnd, DealRest
  <2>3. CASE NetStep
    BY <1>1, <1>2, <2>3 DEF NetStep, OnConnected, ConnectFailed, Disconnected, Reply
  <2> QED BY <1>11, <2>1, <2>2, <2>3
<1>12. Goal
  BY <1>3, <1>4, <1>5, <1>6, <1>7, <1>8, <1>9, <1>10, <1>11 DEF Next, ExitStep, CbStep
<1> QED BY <1>12 DEF Goal

\* What ExitInv says once the pool is reset
LEMMA ExitAll ==
  ASSUME ExitInv
  PROVE  ExitMeansAllAnswered
<1> SUFFICES ASSUME pool = "gone", orphans = {}, NEW c \in Accepted PROVE answered[c] = 1
  BY DEF ExitMeansAllAnswered
<1>1. Open = {} /\ answered[c] \in {0, 1} /\ c \in Cmds /\ deadline[c] # 0
  BY DEF ExitInv, Accepted
<1>2. ~Called(c)
  BY DEF ExitInv, Called, InCall
<1> QED BY <1>1, <1>2 DEF Open

-----------------------------------------------------------------------------
(* The theorems                                                             *)

\* Types, stages and driver are kept together: the timer's list is only
\* typed because there is one driver.
THEOREM Inductive == Spec => [](TypeInv /\ MoveInv /\ DriverInv)
<1>1. Init => TypeInv /\ MoveInv /\ DriverInv
  BY TypeInit, MoveInit, DriverInit
<1>2. TypeInv /\ MoveInv /\ DriverInv /\ [Next]_vars => (TypeInv /\ MoveInv /\ DriverInv)'
  <2> SUFFICES ASSUME TypeInv, MoveInv, DriverInv, [Next]_vars
               PROVE  (TypeInv /\ MoveInv /\ DriverInv)'
    OBVIOUS
  <2>1. CASE Next
    <3>1. MoveInv'
      BY <2>1, MoveStep DEF MoveInv
    <3> QED BY <2>1, <3>1, TypeStep, DriverStep
  <2>2. CASE UNCHANGED vars
    <3> USE <2>2 DEF vars, timerVars, userVars, ioVars, cliVars, svrVars, poolVars, exitVars, logVars
    <3>1. TypeInv'
      BY DEF TypeInv
    <3>2. DriverInv'
      BY DEF DriverInv, Queued
    <3>3. MoveInv'
      BY DEF MoveInv, Move, Fresh, Early, Returning, Hand, OneHand, InHand, Queued, Pending, Result,
             Called, OneCall, InCall
    <3> QED BY <3>1, <3>2, <3>3
  <2> QED BY <2>1, <2>2
<1> QED BY <1>1, <1>2, PTL DEF Spec

\* Every accepted command is in exactly one place from redisAsyncCommand to
\* its callback, whatever reply, timeout, refusal and lost connection meet:
\* for every number of callers, callback threads, commands and drops.
THEOREM AnsweredOnceAlways == Spec => []AnsweredOnce
<1>1. TypeInv /\ MoveInv => AnsweredOnce
  BY MoveOnce
<1> QED BY <1>1, Inductive, PTL

\* There is always exactly one of a connect order, a delayed one, an attempt
\* and a connection: the server is neither given up nor connected twice.
THEOREM OneDriverAlways == Spec => []OneDriver
<1>1. TypeInv /\ DriverInv => OneDriver
  BY DriverOne
<1> QED BY <1>1, Inductive, PTL

\* For any number of callback threads, the state tasks wait in the pool in the
\* order of the changes, so that only the threads' own interleaving can tell an
\* older state last.
THEOREM StateTasksInOrderAlways == Spec => []StateTasksInOrder
<1>1. Init => ToldInv
  BY DEF Init, ToldInv, LastSvr
<1>2. TypeInv /\ ToldInv /\ [Next]_vars => ToldInv'
  <2> SUFFICES ASSUME TypeInv, ToldInv, [Next]_vars PROVE ToldInv'
    OBVIOUS
  <2>1. CASE Next
    BY <2>1, ToldStep
  <2>2. CASE UNCHANGED vars
    BY <2>2 DEF ToldInv, vars, svrVars, poolVars, logVars
  <2> QED BY <2>1, <2>2
<1>3. ToldInv => StateTasksInOrder
  BY DEF ToldInv, LastSvr, StateTasksInOrder
<1> QED BY <1>1, <1>2, <1>3, Inductive, PTL DEF Spec

\* The invariant of a quiet exit
LEMMA ExitInvAlways ==
  ASSUME QuietExit
  PROVE  Spec => []ExitInv
<1>1. Init => ExitInv
  <2> SUFFICES ASSUME Init PROVE ExitInv
    OBVIOUS
  <2>1. Open = {} /\ asyncNum = 0 /\ exitPc = "idle" /\ isExit = FALSE /\ pool = "up"
        /\ \A c \in Cmds : answered[c] = 0
    BY DEF Init, Open
  <2>2. asyncNum = Cardinality(Open)
    BY <2>1, FS_EmptySet
  <2> QED BY <2>1, <2>2 DEF ExitInv
<1>2. TypeInv /\ MoveInv /\ ExitInv /\ [Next]_vars => ExitInv'
  <2> SUFFICES ASSUME TypeInv, MoveInv, ExitInv, [Next]_vars PROVE ExitInv'
    OBVIOUS
  <2>1. CASE Next
    BY <2>1, ExitInvStep
  <2>2. CASE UNCHANGED vars
    BY <2>2 DEF ExitInv, Open, Called, InCall, vars, poolVars, exitVars, logVars
  <2> QED BY <2>1, <2>2
<1> QED BY <1>1, <1>2, Inductive, PTL DEF Spec

\* If redisAsyncExit is called when no command is being made and none is made
\* later, and no connection was lost with commands pending, then every
\* accepted command has had its callback when the callback pool is reset.
THEOREM ExitMeansAllAnsweredAlways ==
  ASSUME QuietExit
  PROVE  Spec => []ExitMeansAllAnswered
<1>1. ExitInv => ExitMeansAllAnswered
  BY ExitAll
<1> QED BY <1>1, ExitInvAlways, PTL

-----------------------------------------------------------------------------
(* The client implements AnswerService while none of its commands is lost   *)
(* with a connection.                                                       *)

\* No connection was lost with commands pending.
NoneLost == orphans = {}

\* What the service shows of the callback threads, in the terms of the stages
LEMMA ShownCallback ==
  InCallback = {c \in Cmds : Called(c)} /\ InCallback' = {c \in Cmds : Called(c)'}
  BY DEF InCallback, Called, InCall

\* Every step is a step of the service or shows nothing: redisAsyncCommand asks,
\* a callback thread begins and ends the callback of a result, and the return of
\* redisAsyncExit closes.
LEMMA ServiceStep ==
  ASSUME TypeInv, MoveInv, ExitInv, NoneLost, Next, QuietExit
  PROVE  [Service!Next]_(Service!vars)
<1> USE DEF timerVars, userVars, ioVars, cliVars, svrVars, poolVars, exitVars, logVars
<1>a. \A c \in Cmds : Fresh(c) /\ Returning(c) /\ c \notin orphans
  BY DEF MoveInv, Move, NoneLost, Next
<1>1. ASSUME UNCHANGED <<deadline, answered>>, \A c \in Cmds : Called(c)' <=> Called(c), Closed' = Closed
      PROVE  [Service!Next]_(Service!vars)
  BY <1>1, ShownCallback DEF Accepted, Told, Service!vars
<1>2. ASSUME UNCHANGED <<deadline, answered, cbPc, cbTask, exitPc>>
      PROVE  [Service!Next]_(Service!vars)
  <2>1. \A c \in Cmds : Called(c)' <=> Called(c)
    BY <1>2 DEF Called, InCall
  <2> QED BY <1>1, <1>2, <2>1 DEF Closed
<1>3. ASSUME NEW u \in Users, NEW d \in Cmds, Command(u, d) PROVE [Service!Next]_(Service!vars)
  <2>1. /\ deadline[d] = 0 /\ ~isExit
        /\ deadline' = [deadline EXCEPT ![d] = nowSecond + OutSecond]
        /\ UNCHANGED <<answered, cbPc, cbTask, exitPc>>
    BY <1>3 DEF Command
  <2>2. nowSecond + OutSecond # 0
    BY RedisAssumption DEF TypeInv
  <2>3. Accepted' = Accepted \cup {d} /\ d \notin Accepted
    BY <2>1, <2>2 DEF Accepted, TypeInv
  <2>4. ~Closed /\ Closed' = Closed
    BY <2>1 DEF ExitInv, Closed
  <2>5. InCallback' = InCallback /\ Told' = Told
    BY <2>1 DEF InCallback, Told
  <2>6. Service!Ask(d)
    BY <2>3, <2>4, <2>5 DEF Service!Ask
  <2> QED BY <2>6 DEF Service!Next
<1>4. ASSUME NEW t \in Cbs, CbReply(t) PROVE [Service!Next]_(Service!vars)
  <2> DEFINE d == Head(results)
  <2>1. /\ cbPc[t] = "idle" /\ results # <<>> /\ pool # "gone"
        /\ cbPc' = [cbPc EXCEPT ![t] = "call"] /\ cbTask' = [cbTask EXCEPT ![t] = d]
        /\ UNCHANGED <<deadline, answered, exitPc>>
    BY <1>4 DEF CbReply, Take
  <2>2. Result(d) /\ d \in Cmds
    BY <2>1, TailHas DEF Result, TypeInv
  <2>3. answered[d] = 0 /\ ~Called(d) /\ deadline[d] # 0
    BY <2>2, <1>a DEF Fresh, Returning
  <2>4. \A c \in Cmds : Called(c)' <=> Called(c) \/ c = d
    <3>1. \A c \in Cmds, s \in Cbs : InCall(s, c)' <=> InCall(s, c) \/ (s = t /\ d = c)
      BY <2>1 DEF InCall, TypeInv
    <3> QED BY <3>1 DEF Called
  <2> HIDE DEF d
  <2>5. InCallback' = InCallback \cup {d} /\ d \notin InCallback
    BY <2>2, <2>3, <2>4, ShownCallback
  <2>6. d \in Accepted /\ d \notin Told
    BY <2>2, <2>3 DEF Accepted, Told
  <2>7. ~Closed
    BY <2>1 DEF ExitInv, Closed
  <2>8. UNCHANGED <<Accepted, Told, Closed>>
    BY <2>1 DEF Accepted, Told, Closed
  <2>9. Service!Begin(d)
    BY <2>5, <2>6, <2>7, <2>8 DEF Service!Begin
  <2> QED BY <2>2, <2>9 DEF Service!Next
<1>5. ASSUME NEW t \in Cbs, CbCall(t) PROVE [Service!Next]_(Service!vars)
  <2> DEFINE d == cbTask[t]
  <2>1. /\ cbPc[t] = "call" /\ answered' = [answered EXCEPT ![d] = answered[d] + 1]
        /\ cbPc' = [cbPc EXCEPT ![t] = "idle"]
        /\ UNCHANGED <<deadline, exitPc>> /\ \A s \in Cbs \ {t} : cbTask'[s] = cbTask[s]
    BY <1>5 DEF CbCall, TypeInv
  <2>2. d \in Cmds
    BY <2>1 DEF TypeInv
  <2>3. InCall(t, d) /\ Called(d)
    BY <2>1 DEF Called, InCall
  <2>4. answered[d] = 0 /\ OneCall(d)
    BY <2>2, <2>3, <1>a DEF Returning
  <2>5. answered'[d] = 1 /\ \A c \in Cmds : c # d => answered'[c] = answered[c]
    BY <2>1, <2>2, <2>4 DEF TypeInv
  <2>6. \A c \in Cmds, s \in Cbs : InCall(s, c)' <=> InCall(s, c) /\ s # t
    BY <2>1 DEF InCall, TypeInv
  <2>7. \A c \in Cmds : InCall(t, c) => c = d
    BY DEF InCall
  <2> HIDE DEF d
  <2>8. \A c \in Cmds : Called(c)' <=> Called(c) /\ c # d
    BY <2>3, <2>4, <2>6, <2>7 DEF Called, OneCall
  <2>9. InCallback' = InCallback \ {d} /\ d \in InCallback
    BY <2>2, <2>3, <2>8, ShownCallback
  <2>10. Told' = Told \cup {d}
    BY <2>2, <2>5 DEF Told
  <2>11. UNCHANGED <<Accepted, Closed>>
    BY <2>1 DEF Accepted, Closed
  <2>12. Service!End(d)
    BY <2>9, <2>10, <2>11 DEF Service!End
  <2> QED BY <2>2, <2>12 DEF Service!Next
<1>6. ASSUME NEW t \in Cbs, CbState(t) \/ CbTell(t) \/ CbLeave(t) PROVE [Service!Next]_(Service!vars)
  <2>1. UNCHANGED <<deadline, answered, exitPc>>
    BY <1>6 DEF CbState, CbTell, CbLeave
  <2>2. \A c \in Cmds, s \in Cbs : InCall(s, c)' <=> InCall(s, c)
    BY <1>6 DEF CbState, CbTell, CbLeave, Take, InCall, TypeInv
  <2>3. \A c \in Cmds : Called(c)' <=> Called(c)
    BY <2>2 DEF Called
  <2> QED BY <1>1, <2>1, <2>3 DEF Closed
<1>7. ASSUME ExitCall \/ ExitPoll \/ ExitReset \/ ExitWrite PROVE [Service!Next]_(Service!vars)
  <2>1. UNCHANGED <<deadline, answered, cbPc, cbTask>> /\ exitPc # "done" /\ exitPc' # "done"
    BY <1>7 DEF ExitCall, ExitPoll, ExitReset, ExitWrite
  <2>2. \A c \in Cmds : Called(c)' <=> Called(c)
    BY <2>1 DEF Called, InCall
  <2> QED BY <1>1, <2>1, <2>2 DEF Closed
<1>8. ASSUME ExitReturn PROVE [Service!Next]_(Service!vars)
  <2>1. exitPc = "io" /\ exitPc' = "done" /\ UNCHANGED <<deadline, answered, cbPc, cbTask>>
    BY <1>8 DEF ExitReturn
  <2>2. Open = {} /\ pool = "gone"
    BY <2>1 DEF ExitInv, NoneLost
  <2>3. \A c \in Cmds : ~Called(c)
    BY <2>2 DEF ExitInv, Called, InCall
  <2>4. Accepted = Told
    <3>1. \A c \in Cmds : deadline[c] = 0 => answered[c] = 0
      BY <1>a DEF Fresh
    <3>2. \A c \in Cmds : deadline[c] # 0 => answered[c] # 0
      BY <2>2, <2>3 DEF Open
    <3> QED BY <3>1, <3>2 DEF Accepted, Told
  <2>5. UNCHANGED <<Accepted, Told, InCallback>> /\ ~Closed /\ Closed' = TRUE
    BY <2>1 DEF Accepted, Told, InCallback, Closed
  <2>6. Service!Close
    BY <2>4, <2>5 DEF Service!Close
  <2> QED BY <2>6 DEF Service!Next
<1>9. ASSUME NEW u \in Users, UserStep(u) PROVE [Service!Next]_(Service!vars)
  BY <1>2, <1>9 DEF UserStep, Push, Wake
<1>10. ASSUME TimerStep \/ IoStep \/ NetStep PROVE [Service!Next]_(Service!vars)
  <2>1. CASE TimerStep
    BY <1>2, <2>1 DEF TimerStep, TimerTick, TimerDeal, TimerWake, TimerEnd
  <2>2. CASE IoStep
    BY <1>2, <2>2 DEF IoStep, HandleRead, DealAnswer, DealCommand, DealCommandFail, DealConnect,
                      DealConnectFail, DrainLeave, CheckOutSecond, DrainEnd, DealRest
  <2>3. CASE NetStep
    BY <1>2, <2>3 DEF NetStep, OnConnected, ConnectFailed, Disconnected, Reply
  <2> QED BY <1>10, <2>1, <2>2, <2>3
<1> QED
  BY <1>3, <1>4, <1>5, <1>6, <1>7, <1>8, <1>9, <1>10 DEF Next, ExitStep, CbStep

\* RedisAsync implements AnswerService when redisAsyncExit is called while no
\* command is being made, as long as no connection is lost with commands pending:
\* reply, timeout and refusal of a command end in its one callback, in whichever
\* callback thread, and when redisAsyncExit returns every command has had its own.
THEOREM RedisIsAnswerService ==
  ASSUME QuietExit
  PROVE  Spec /\ []NoneLost => IsAnswerService
<1>1. ASSUME Init PROVE Service!Init
  <2>1. Accepted = {} /\ Told = {} /\ InCallback = {} /\ Closed = FALSE
    BY <1>1 DEF Init, Accepted, Told, InCallback, Closed
  <2> QED BY <2>1 DEF Service!Init
<1>2. ASSUME TypeInv, MoveInv, ExitInv, NoneLost, [Next]_vars PROVE [Service!Next]_(Service!vars)
  <2>1. CASE Next
    BY <1>2, <2>1, ServiceStep
  <2>2. CASE UNCHANGED vars
    BY <2>2 DEF vars, poolVars, exitVars, logVars, Service!vars, Accepted, InCallback, Told, Closed
  <2> QED BY <1>2, <2>1, <2>2
<1> QED BY <1>1, <1>2, Inductive, ExitInvAlways, PTL DEF Spec, IsAnswerService, Service!Spec
=============================================================================
