------------------------------ MODULE KafkaPop ------------------------------
(***************************************************************************)
(* zookafka, ZooKfkTopicsPop: a kafka consumer whose list of topics can be *)
(* changed while threads pop from it, which follows the brokers registered *)
(* in zookeeper, and which can be torn down at any time. pop holds listLock *)
(* while it polls; switchFlag and destroy are set without the lock to make *)
(* it let go. librdkafka and zookeeper are modelled by what they promise.  *)
(***************************************************************************)
EXTENDS Integers, FiniteSets

CONSTANTS
  Poppers,        \* threads that call consume and tryConsume
  Controllers,    \* threads that call kfkTopicConsumeStart and kfkTopicConsumeStop
  Owner, Watcher, \* the thread that inits and destroys; zookeeper's completion thread
  Topics, InitTopics, NoTopic,
  Stored,         \* topics for which kafka has an offset of the group from before
  Brokers,        \* those that may be in zookeeper
  MaxMsgs,        \* bound on the messages of a topic
  MaxChanges,     \* bound on the changes of the brokers
  MaxCalls,       \* bound on the calls of each controller
  DownCb,         \* is downcb_ set
  MayFail,        \* may calls of librdkafka and of zookeeper fail
  EarlyChange,    \* may the brokers change while zookInit runs
  QuietDestroy    \* is a list of topics or of brokers never changed in a kfkDestroy

ASSUME PopAssumption ==
  /\ InitTopics \subseteq Topics /\ Stored \subseteq Topics /\ NoTopic \notin Topics
  /\ Owner # Watcher /\ "none" \notin Poppers \cup {Owner, Watcher}
  /\ Poppers \cap Controllers = {}
  /\ (Poppers \cup Controllers) \cap {Owner, Watcher} = {}
  /\ {MaxMsgs, MaxChanges, MaxCalls} \subseteq Nat
  /\ {DownCb, MayFail, EarlyChange, QuietDestroy} \subseteq BOOLEAN

Threads == Poppers \cup Controllers \cup {Owner, Watcher}
Msgs == Topics \X (1 .. MaxMsgs)
NoMsg == <<NoTopic, 0>>
ErrMsg == <<NoTopic, 1>>      \* a message with message->err set
NoOffset == -1

VARIABLES
  ids, watch, event, changes,     \* zookeeper: /brokers/ids, the watch, its event
  zookeeph,                       \* "null" or "open"
  toRead, list,                   \* per reader of the brokers: children to read, list so far
  failed,                         \* did the last read of the brokers fail, in whole or in part
  kfkBrokers, kfkt,               \* kfkt: "null" or "open"
  initFailed,                     \* zookInit did not return 0
  topics, subscribed,             \* topics_; librdkafka's subscription
  switchFlag, errorFlag, destroy,
  lock,                           \* the thread that holds listLock across steps, if any
  pc, arg, msg,                   \* per thread: where, with which topic, with which message
  arrived, position, committed,   \* kafka, per topic: its messages, how far librdkafka has
                                  \* handed them out, the offset stored for the group
  polled, given,                  \* messages handed to a pop, and given to callers
  calls,
  misuse                          \* was librdkafka called with a null handle

zkVars == <<ids, watch, event, changes, zookeeph, toRead, list, failed, kfkBrokers>>
flagVars == <<switchFlag, errorFlag, destroy>>
topicVars == <<topics, subscribed>>
offsetVars == <<position, committed>>
msgVars == <<arrived, polled, given>>
vars == <<zkVars, kfkt, initFailed, flagVars, topicVars, lock, pc, arg, msg, offsetVars, msgVars,
          calls, misuse>>

NoThread == "none"
Readers == {Owner, Watcher}
Unassigned == [x \in Topics |-> NoOffset]

Init ==
  /\ ids \in SUBSET Brokers /\ watch = FALSE /\ event = FALSE /\ changes = 0
  /\ zookeeph = "null" /\ toRead = [t \in Readers |-> {}] /\ list = [t \in Readers |-> {}]
  /\ failed = FALSE /\ kfkBrokers = {} /\ kfkt = "null" /\ initFailed = FALSE
  /\ topics = {} /\ subscribed = {}
  /\ switchFlag = FALSE /\ errorFlag = FALSE /\ destroy = 0
  /\ lock = NoThread
  /\ pc = [t \in Threads |-> IF t = Owner THEN "new" ELSE "idle"]
  /\ arg = [c \in Controllers |-> NoTopic] /\ msg = [p \in Poppers |-> NoMsg]
  /\ arrived = [x \in Topics |-> 0] /\ position = Unassigned
  /\ committed = [x \in Topics |-> IF x \in Stored THEN 0 ELSE NoOffset]
  /\ polled = {} /\ given = {}
  /\ calls = [c \in Controllers |-> 0] /\ misuse = FALSE

Go(t, p) == pc' = [pc EXCEPT ![t] = p]
Closing == \E t \in Readers : pc[t] = "closing"
Started == pc[Owner] \notin {"new", "read"}
Destroying == \E t \in Readers : pc[t] \in {"destroyLock", "closing", "destroyed"}
Changing == \E c \in Controllers : pc[c] # "idle"

-----------------------------------------------------------------------------
(* set_brokerlist_from_zookeeper: zoo_get_children sets the watch,           *)
ListBrokers(t) ==
  /\ toRead' = [toRead EXCEPT ![t] = ids]
  /\ watch' = TRUE /\ failed' = FALSE
  /\ Go(t, "read") /\ UNCHANGED list

\* or it fails, and does not (as it may once zookeeper_close has begun);
ListFails(t) ==
  /\ MayFail \/ Closing
  /\ failed' = TRUE
  /\ UNCHANGED <<watch, toRead, list>>

\* then zoo_get of each: one that is gone, and one that cannot be read, is left out.
GetBroker(t, b) ==
  /\ pc[t] = "read" /\ b \in toRead[t]
  /\ toRead' = [toRead EXCEPT ![t] = @ \ {b}]
  /\ \/ b \in ids /\ list' = [list EXCEPT ![t] = @ \cup {b}] /\ UNCHANGED failed
     \/ b \notin ids /\ UNCHANGED <<list, failed>>
     \/ (MayFail \/ Closing) /\ failed' = TRUE /\ UNCHANGED list
  /\ UNCHANGED <<ids, watch, event, changes, zookeeph, kfkBrokers, kfkt, initFailed, flagVars,
                 topicVars, lock, pc, arg, msg, offsetVars, msgVars, calls, misuse>>

AllRead(t) == pc[t] = "read" /\ toRead[t] = {}

\* zookInit: a handle, and the list of brokers;
ZookInit ==
  /\ pc[Owner] = "new"
  /\ zookeeph' = "open"
  /\ \/ ListBrokers(Owner) /\ UNCHANGED initFailed
     \/ ListFails(Owner) /\ initFailed' = TRUE /\ Go(Owner, "idle")
  /\ UNCHANGED <<ids, event, changes, kfkBrokers, kfkt, flagVars, topicVars, lock, arg, msg,
                 offsetVars, msgVars, calls, misuse>>

Subscribe(S) == subscribed' = S /\ position' = Unassigned /\ UNCHANGED committed

\* without any it returns, else kfkInit makes the consumer. It may fail before there
\* is a handle or before there are topics, or when topics_ is filled and librdkafka
\* refuses the subscription.
KfkInit ==
  /\ AllRead(Owner) /\ lock = NoThread
  /\ kfkBrokers' = list[Owner]
  /\ \/ /\ list[Owner] # {} /\ kfkt' = "open"
        /\ topics' = InitTopics /\ Subscribe(InitTopics) /\ UNCHANGED initFailed
     \/ /\ list[Owner] # {} /\ MayFail /\ kfkt' = "open"
        /\ topics' \in {{}, InitTopics} /\ Subscribe({}) /\ initFailed' = TRUE
     \/ /\ list[Owner] = {} \/ MayFail
        /\ initFailed' = TRUE /\ UNCHANGED <<kfkt, topicVars, offsetVars>>
  /\ list' = [list EXCEPT ![Owner] = {}] /\ Go(Owner, "idle")
  /\ UNCHANGED <<ids, watch, event, changes, zookeeph, toRead, failed, flagVars, lock, arg, msg,
                 msgVars, calls, misuse>>

-----------------------------------------------------------------------------
(* consume and tryConsume                                                   *)

Call(p, where) ==
  /\ Started /\ pc[p] = "idle"
  /\ Go(p, where)
  /\ UNCHANGED <<zkVars, kfkt, initFailed, flagVars, topicVars, lock, arg, msg, offsetVars, msgVars,
                 calls, misuse>>

\* pop and tryPop under listLock: the returns before the first poll
PopEnter(p) ==
  /\ pc[p] \in {"pop", "tryPop"} /\ lock = NoThread
  /\ IF destroy > 0 \/ errorFlag \/ switchFlag \/ kfkt = "null" \/ topics = {}
       THEN Go(p, "idle") /\ UNCHANGED lock
       ELSE lock' = p /\ Go(p, IF pc[p] = "pop" THEN "poll" ELSE "tryPoll")
  /\ UNCHANGED <<zkVars, kfkt, initFailed, flagVars, topicVars, arg, msg, offsetVars, msgVars, calls,
                 misuse>>

\* rd_kafka_consumer_poll: the next message of a topic subscribed to,
PollGets(p, x) ==
  /\ pc[p] \in {"poll", "tryPoll"}
  /\ x \in subscribed /\ 0 <= position[x] /\ position[x] < arrived[x]
  /\ position' = [position EXCEPT ![x] = @ + 1]
  /\ polled' = polled \cup {<<x, position[x] + 1>>}
  /\ msg' = [msg EXCEPT ![p] = <<x, position[x] + 1>>]
  /\ Go(p, IF pc[p] = "poll" THEN "flags" ELSE "give")
  /\ UNCHANGED <<zkVars, kfkt, initFailed, flagVars, topicVars, lock, arg, committed, arrived, given,
                 calls, misuse>>

\* an error, or nothing within its 500 ms (or the end of a partition)
PollGetsNone(p, m) ==
  /\ pc[p] \in {"poll", "tryPoll"}
  /\ m = NoMsg \/ (m = ErrMsg /\ MayFail)
  /\ msg' = [msg EXCEPT ![p] = m]
  /\ Go(p, IF pc[p] = "poll" THEN "flags" ELSE "give")
  /\ UNCHANGED <<zkVars, kfkt, initFailed, flagVars, topicVars, lock, arg, offsetVars, msgVars, calls,
                 misuse>>

\* Mutation: a pop that is told to let go drops the message it has polled.
FlagsDrops(p) ==
  /\ pc[p] = "flags"
  /\ Go(p, IF switchFlag \/ destroy > 0 \/ msg[p] # NoMsg THEN "give" ELSE "poll")
  /\ msg' = [msg EXCEPT ![p] = IF switchFlag \/ destroy > 0 THEN NoMsg ELSE @]
  /\ UNCHANGED <<zkVars, kfkt, initFailed, flagVars, topicVars, lock, arg, offsetVars, msgVars,
                 calls, misuse>>

\* Mutation: pop waits for a message though the topics are to change.
FlagsNoSwitch(p) ==
  /\ pc[p] = "flags"
  /\ Go(p, IF destroy > 0 \/ msg[p] # NoMsg THEN "give" ELSE "poll")
  /\ UNCHANGED <<zkVars, kfkt, initFailed, flagVars, topicVars, lock, arg, msg, offsetVars, msgVars,
                 calls, misuse>>

\* pop goes on until there is a message, or it is told to let go
Flags(p) ==
  /\ pc[p] = "flags"
  /\ Go(p, IF switchFlag \/ destroy > 0 \/ msg[p] # NoMsg THEN "give" ELSE "poll")
  /\ UNCHANGED <<zkVars, kfkt, initFailed, flagVars, topicVars, lock, arg, msg, offsetVars, msgVars,
                 calls, misuse>>

\* The message, or its error, goes to the caller and listLock is released.
Give(p) ==
  /\ pc[p] = "give"
  /\ given' = given \cup ({msg[p]} \cap Msgs)
  /\ msg' = [msg EXCEPT ![p] = NoMsg]
  /\ lock' = NoThread
  /\ Go(p, "idle")
  /\ UNCHANGED <<zkVars, kfkt, initFailed, flagVars, topicVars, arg, offsetVars, arrived, polled, calls,
                 misuse>>

-----------------------------------------------------------------------------
(* kfkTopicConsumeStart: switchFlag is set before the lock is asked for,    *)
Change(c, x, where) ==
  /\ Started /\ pc[c] = "idle" /\ calls[c] < MaxCalls
  /\ QuietDestroy => ~Destroying
  /\ calls' = [calls EXCEPT ![c] = @ + 1]
  /\ IF errorFlag \/ (where = "stop" /\ topics = {})
       THEN UNCHANGED <<pc, arg, switchFlag>>
       ELSE Go(c, where) /\ arg' = [arg EXCEPT ![c] = x] /\ switchFlag' = TRUE
  /\ UNCHANGED <<zkVars, kfkt, initFailed, errorFlag, destroy, topicVars, lock, msg, offsetVars,
                 msgVars, misuse>>

\* The lists of topics after a call that found the handle in order: librdkafka
\* may refuse the new list or the unsubscribe, and then nothing changes, or the
\* subscribe, and then nothing is left; after that every call fails.
Resubscribe(wanted) ==
  \/ topics' = wanted /\ Subscribe(wanted) /\ UNCHANGED errorFlag
  \/ MayFail /\ errorFlag' = TRUE /\ UNCHANGED <<topicVars, offsetVars>>
  \/ MayFail /\ errorFlag' = TRUE /\ wanted # {} /\ topics' = {} /\ Subscribe({})

Returns(c) ==
  /\ switchFlag' = FALSE
  /\ arg' = [arg EXCEPT ![c] = NoTopic]
  /\ Go(c, "idle")
  /\ UNCHANGED <<zkVars, kfkt, initFailed, destroy, lock, msg, msgVars, calls>>

\* Mutation: switchFlag stays set.
StartKeepsFlag(c) ==
  /\ pc[c] = "start" /\ lock = NoThread
  /\ IF arg[c] \in topics \/ kfkt = "null"
       THEN UNCHANGED <<topicVars, offsetVars, errorFlag, misuse>>
       ELSE Resubscribe(topics \cup {arg[c]}) /\ UNCHANGED misuse
  /\ Go(c, "idle") /\ arg' = [arg EXCEPT ![c] = NoTopic]
  /\ UNCHANGED <<zkVars, kfkt, initFailed, destroy, lock, msg, msgVars, calls, switchFlag>>

\* then, under it, the subscription is made anew. The handle is not looked at.
StartTopic(c) ==
  /\ pc[c] = "start" /\ lock = NoThread
  /\ IF arg[c] \in topics \/ kfkt = "null"
       THEN UNCHANGED <<topicVars, offsetVars, errorFlag>> /\ misuse' = (misuse \/ arg[c] \notin topics)
       ELSE Resubscribe(topics \cup {arg[c]}) /\ UNCHANGED misuse
  /\ Returns(c)

\* kfkTopicConsumeStop
StopTopic(c) ==
  /\ pc[c] = "stop" /\ lock = NoThread
  /\ IF arg[c] \notin topics
       THEN UNCHANGED <<topicVars, offsetVars, errorFlag, misuse>>
       ELSE Resubscribe(topics \ {arg[c]}) /\ UNCHANGED misuse
  /\ Returns(c)

-----------------------------------------------------------------------------
(* zookeeper, and watcher() in its completion thread                        *)
BrokersChange(b) ==
  /\ changes < MaxChanges
  /\ EarlyChange \/ Started
  /\ ids' = IF b \in ids THEN ids \ {b} ELSE ids \cup {b}
  /\ changes' = changes + 1
  /\ event' = (event \/ watch) /\ watch' = FALSE
  /\ UNCHANGED <<zookeeph, toRead, list, failed, kfkBrokers, kfkt, initFailed, flagVars, topicVars,
                 lock, pc, arg, msg, offsetVars, msgVars, calls, misuse>>

\* The event is taken, until zookeeper_close is done.
WatchTakes ==
  /\ pc[Watcher] = "idle" /\ event
  /\ QuietDestroy => pc[Owner] \notin {"destroyLock", "closing"}
  /\ event' = FALSE
  /\ UNCHANGED <<ids, changes, zookeeph, kfkBrokers, kfkt, initFailed, flagVars, topicVars, lock, arg,
                 msg, offsetVars, msgVars, calls, misuse>>

\* Mutation: zoo_get_children without a new watch.
WatchReadUnwatched ==
  /\ WatchTakes /\ Go(Watcher, "read")
  /\ toRead' = [toRead EXCEPT ![Watcher] = ids]
  /\ failed' = FALSE /\ UNCHANGED <<watch, list>>

\* A list that cannot be read is not followed up.
WatchRead == WatchTakes /\ (ListBrokers(Watcher) \/ (ListFails(Watcher) /\ UNCHANGED pc))

\* changeKafkaBrokers, without the lock: a downcb_ that says so, or without one
\* no brokers, ends in kfkDestroy; else they are given to the handle
ChangeKafkaBrokers(leave) ==
  /\ AllRead(Watcher)
  /\ QuietDestroy => ~Changing
  /\ DownCb \/ leave = (list[Watcher] = {})
  /\ IF leave
       THEN destroy' = 1 /\ Go(Watcher, "destroyLock") /\ UNCHANGED <<kfkBrokers, misuse>>
       ELSE /\ kfkBrokers' = list[Watcher] /\ Go(Watcher, "idle") /\ UNCHANGED destroy
            /\ misuse' = (misuse \/ kfkt = "null")
  /\ list' = [list EXCEPT ![Watcher] = {}]
  /\ UNCHANGED <<ids, watch, event, changes, zookeeph, toRead, failed, kfkt, initFailed, switchFlag,
                 errorFlag, topicVars, lock, arg, msg, offsetVars, msgVars, calls>>

-----------------------------------------------------------------------------
(* kfkDestroy: destroy is set before the lock is asked for,                 *)

DestroyCall ==
  /\ pc[Owner] = "idle"
  /\ QuietDestroy => ~Changing /\ pc[Watcher] # "read"
  /\ destroy' = 1
  /\ Go(Owner, "destroyLock")
  /\ UNCHANGED <<zkVars, kfkt, initFailed, switchFlag, errorFlag, topicVars, lock, arg, msg,
                 offsetVars, msgVars, calls, misuse>>

\* then, unless another call has got in before, the consumer is closed,
Destroy(t) ==
  /\ pc[t] = "destroyLock" /\ lock = NoThread
  /\ destroy' = destroy + 1
  /\ IF destroy + 1 > 2
       THEN Go(t, "destroyed") /\ UNCHANGED <<kfkt, subscribed, offsetVars, lock>>
       ELSE Go(t, "closing") /\ kfkt' = "null" /\ Subscribe({}) /\ lock' = t
  /\ UNCHANGED <<zkVars, initFailed, switchFlag, errorFlag, topics, arg, msg, msgVars, calls, misuse>>

\* and zookeeper_close, with the lock held, waits for the completion thread to end
\* the callback it is in (unless it is called there); its events end with it.
DestroyClose(t) ==
  /\ pc[t] = "closing"
  /\ zookeeph = "null" \/ t = Watcher \/ pc[Watcher] \in {"idle", "destroyed"}
  /\ zookeeph' = "null" /\ watch' = FALSE /\ event' = FALSE
  /\ kfkBrokers' = {} /\ topics' = {}
  /\ lock' = NoThread
  /\ Go(t, "destroyed")
  /\ UNCHANGED <<ids, changes, toRead, list, failed, kfkt, initFailed, flagVars, subscribed, arg, msg,
                 offsetVars, msgVars, calls, misuse>>

-----------------------------------------------------------------------------
(* kafka. A message arrives;                                                *)
Arrive(x) ==
  /\ arrived[x] < MaxMsgs
  /\ arrived' = [arrived EXCEPT ![x] = @ + 1]
  /\ UNCHANGED <<zkVars, kfkt, initFailed, flagVars, topicVars, lock, pc, arg, msg, offsetVars, polled,
                 given, calls, misuse>>

\* a subscription takes effect, at the group's offset or, without one, at the end
\* (auto.offset.reset = largest);
Assign(x) ==
  /\ x \in subscribed /\ position[x] = NoOffset
  /\ position' = [position EXCEPT ![x] = IF committed[x] = NoOffset THEN arrived[x] ELSE committed[x]]
  /\ UNCHANGED <<zkVars, kfkt, initFailed, flagVars, topicVars, lock, pc, arg, msg, committed, msgVars,
                 calls, misuse>>

\* the position is committed, from time to time (auto.commit.enable)
Commit(x) ==
  /\ position[x] # NoOffset
  /\ committed' = [committed EXCEPT ![x] = position[x]]
  /\ UNCHANGED <<zkVars, kfkt, initFailed, flagVars, topicVars, lock, pc, arg, msg, position, msgVars,
                 calls, misuse>>

-----------------------------------------------------------------------------
PopperStep(p) ==
  \/ Flags(p) \/ Give(p) \/ \E x \in Topics : PollGets(p, x)
  \/ \E m \in {NoMsg, ErrMsg} : PollGetsNone(p, m)

Next ==
  \/ ZookInit \/ KfkInit \/ DestroyCall \/ WatchRead
  \/ \E leave \in BOOLEAN : ChangeKafkaBrokers(leave)
  \/ \E t \in Readers : Destroy(t) \/ DestroyClose(t) \/ \E b \in Brokers : GetBroker(t, b)
  \/ \E p \in Poppers : Call(p, "pop") \/ Call(p, "tryPop") \/ PopEnter(p) \/ PopperStep(p)
  \/ \E c \in Controllers :
       StartTopic(c) \/ StopTopic(c) \/ \E x \in Topics : Change(c, x, "start") \/ Change(c, x, "stop")
  \/ \E b \in Brokers : BrokersChange(b)
  \/ \E x \in Topics : Arrive(x) \/ Assign(x) \/ Commit(x)

Spec == Init /\ [][Next]_vars

\* Threads go on, and the application pops again. Nothing is asked of listLock: a
\* thread may be passed over whenever it is taken again. Kafka, which may answer
\* a poll with nothing or an error, hands out a message in the end.
Fairness ==
  /\ WF_vars(ZookInit) /\ WF_vars(KfkInit) /\ WF_vars(WatchRead)
  /\ WF_vars(\E leave \in BOOLEAN : ChangeKafkaBrokers(leave))
  /\ \A t \in Readers : WF_vars(Destroy(t) \/ DestroyClose(t) \/ \E b \in Brokers : GetBroker(t, b))
  /\ \A p \in Poppers : WF_vars(PopperStep(p) \/ PopEnter(p) \/ Call(p, "pop"))
  /\ \A c \in Controllers : WF_vars(StartTopic(c) \/ StopTopic(c))
  /\ \A x \in Topics : SF_vars(\E p \in Poppers : PollGets(p, x)) /\ WF_vars(Assign(x))

FairSpec == Spec /\ Fairness

-----------------------------------------------------------------------------
(* Properties.                                                              *)

\* Every variable has its type.
TypeOK ==
  /\ ids \subseteq Brokers /\ {watch, event, failed, initFailed} \subseteq BOOLEAN
  /\ changes \in 0 .. MaxChanges
  /\ {toRead, list} \subseteq [Readers -> SUBSET Brokers] /\ kfkBrokers \subseteq Brokers
  /\ zookeeph \in {"null", "open"} /\ kfkt \in {"null", "open"}
  /\ topics \subseteq Topics /\ subscribed \subseteq Topics
  /\ {switchFlag, errorFlag, misuse} \subseteq BOOLEAN /\ destroy \in 0 .. 3
  /\ lock \in Poppers \cup {Owner, Watcher, NoThread}
  /\ pc \in [Threads -> {"new", "read", "idle", "pop", "tryPop", "poll", "tryPoll", "flags", "give",
                         "start", "stop", "destroyLock", "closing", "destroyed"}]
  /\ arg \in [Controllers -> Topics \cup {NoTopic}]
  /\ msg \in [Poppers -> Msgs \cup {NoMsg, ErrMsg}]
  /\ arrived \in [Topics -> 0 .. MaxMsgs]
  /\ {position, committed} \subseteq [Topics -> NoOffset .. MaxMsgs]
  /\ polled \subseteq Msgs /\ given \subseteq Msgs /\ calls \in [Controllers -> 0 .. MaxCalls]

\* Messages are not lost, whoever makes pop let go of the lock: what a poll has
\* taken from kafka (and so may be committed) has been given to a caller or is in
\* the hands of the one pop that has the lock. (It may be given again: a change of
\* topics goes back to the offset committed.)
InHand == {msg[p] : p \in Poppers} \cap Msgs
NoMessageLost == polled \subseteq given \cup InHand

\* topics_ says what librdkafka is subscribed to, also after a call that failed
\* half way, except that after a zookInit that failed it may name topics though
\* nothing is subscribed to.
SubscriptionMatches == topics = subscribed \/ (subscribed = {} /\ (initFailed \/ destroy > 0))

\* The same without the exception. (Not met: kfkInit fills topics_ before it
\* subscribes, and the start of a topic that is in topics_ returns 0 at once.)
SubscriptionAlwaysMatches == topics = subscribed \/ destroy > 0

\* While a pop polls it has the lock, and the handle is open.
PollIsSafe == \A p \in Poppers : pc[p] \in {"poll", "tryPoll"} => lock = p /\ kfkt = "open"

\* A call that changes the list of topics returns, though pop waits for a
\* message that may never come.
ChangeReturns == \A c \in Controllers : pc[c] \in {"start", "stop"} ~> pc[c] = "idle"

\* kfkDestroy returns. (Not met: zookeeper_close waits, with the lock held, for a
\* callback that may be in a kfkDestroy of its own and waits for the lock.)
DestroyReturns == \A t \in Readers : pc[t] = "destroyLock" ~> pc[t] = "destroyed"

\* A message that comes after the position at which a subscription took effect is
\* given to a caller, as long as the topics are not changed.
MessagesCome ==
  \A m \in Msgs :
    (0 <= position[m[1]] /\ position[m[1]] < m[2] /\ m[2] <= arrived[m[1]])
      ~> (m \in given \/ position[m[1]] = NoOffset \/ errorFlag \/ destroy > 0)

\* A message of a topic that stays in the list is given to a caller. (Not met: what
\* comes while the topics change before the first commit is passed over, since the
\* subscription then begins at the end.)
NoneSkipped ==
  \A m \in Msgs :
    (0 <= position[m[1]] /\ position[m[1]] < m[2] /\ m[2] <= arrived[m[1]])
      ~> (m \in given \/ m[1] \notin topics \/ errorFlag \/ destroy > 0)

\* The brokers known catch up with those in zookeeper, until kfkDestroy, though a
\* watch fires once, and brokers go between the read of their list and the read of
\* their addresses; unless zookInit, or the last read, failed.
BrokersCatchUp == <>[](kfkBrokers = ids \/ failed \/ initFailed \/ destroy > 0)

\* They do so whatever fails. (Not met: a list that cannot be read leaves no watch,
\* and a broker that cannot be read is left out.)
BrokersAlwaysCatchUp == <>[](kfkBrokers = ids \/ initFailed \/ destroy > 0)

\* A consumer at rest has the brokers right: when zookInit is done, watcher() is idle
\* and no event is on its way, the brokers known are those in zookeeper, unless the
\* last read failed. (EarlyChange = FALSE: a change while zookInit runs is overwritten
\* by it.)
BrokersAreCurrent ==
  Started /\ ~initFailed /\ ~failed /\ destroy = 0 /\ pc[Watcher] = "idle" /\ ~event
    => kfkBrokers = ids

\* librdkafka is never called with a null handle. (Not met: no call looks whether
\* zookInit failed.)
HandleIsOpen == ~misuse

\* Nor is it after a zookInit that succeeded. (Not met when brokers change while it
\* runs, or topics or brokers in a kfkDestroy.)
HandleStaysOpen == misuse => initFailed
=============================================================================
