----------------------------- MODULE ZookConfig -----------------------------
(***************************************************************************)
(* zookconfig: processes that register themselves in zookeeper             *)
(* (createSessionPath), and one that reads a configuration value and the   *)
(* list of registered servers and follows both through watches. Zookeeper  *)
(* is modelled by its promises: a watch fires once; the nodes of a session *)
(* go when the session expires; a call whose connection is lost may or may *)
(* not have been carried out.                                              *)
(***************************************************************************)
EXTENDS Integers, Sequences, FiniteSets

CONSTANTS
  Servers,        \* the registering processes, each with its own path
  Tries,          \* colonyNum
  FreshTree,      \* does the parent of the paths have to be made
  MaxStarts,      \* bound on the starts of processes, each with a new session
  MaxSets,        \* bound on the changes of the configuration value
  MaxLosses,      \* bound on the calls that lose their connection
  LoadMayGiveUp   \* may a load lose the connection colonyNum times

ASSUME ZookAssumption ==
  /\ IsFiniteSet(Servers)
  /\ Tries \in Nat \ {0}
  /\ FreshTree \in BOOLEAN /\ LoadMayGiveUp \in BOOLEAN
  /\ {MaxStarts, MaxSets, MaxLosses} \subseteq Nat

Loaders == {"app", "watcher"}   \* the threads that call LoadTcpServerListInfo
NoVal == -1
Empty == -2     \* what a failed read leaves in the buffer
NoNode == 0

VARIABLES
  parent, node,         \* zookeeper: the parent's existence; per server the session that
                        \* made its node
  value,                \* zookeeper: the configuration value
  childWatch, dataWatch, events,  \* watches of the follower, events on their way to it
  opened, sessions,     \* zookeeper: sessions opened, and those not expired
  start,                \* per server: the session of its last start
  spc, tries,           \* per server: where in createSessionPath, tryTime
  apc, wpc, got,        \* the application's thread and watcher(); the value each has read
  lpc, names, found,    \* per loader: where, children still to read, infoList
  ltries, missing,      \* getTcpServerListInfo found no such path
  configMap,            \* the value in configMap
  returned, told,       \* the list getTcpServerListInfo returned, the last one given to
                        \* serverCb
  losses

treeVars == <<parent, node, value, losses>>
watchVars == <<childWatch, dataWatch, events>>
sessionVars == <<opened, sessions, start>>
serverVars == <<sessionVars, spc, tries>>
loadVars == <<lpc, names, found, ltries, missing>>
configVars == <<got, configMap>>
listVars == <<returned, told>>
confVars == <<treeVars, watchVars, serverVars, apc, wpc, loadVars, configVars, listVars>>

Nothing == {<<"none", NoNode>>}

ConfInit ==
  /\ parent = ~FreshTree /\ node = [s \in Servers |-> NoNode] /\ value = 0
  /\ childWatch = FALSE /\ dataWatch = FALSE /\ events = <<>>
  /\ opened = 0 /\ sessions = {} /\ start = [s \in Servers |-> 0]
  /\ spc = [s \in Servers |-> "down"] /\ tries = [s \in Servers |-> 0]
  /\ apc = "config" /\ wpc = "idle" /\ got = [t \in Loaders |-> NoVal]
  /\ lpc = [t \in Loaders |-> "off"] /\ names = [t \in Loaders |-> {}]
  /\ found = [t \in Loaders |-> {}] /\ ltries = [t \in Loaders |-> 0]
  /\ missing = FALSE /\ configMap = NoVal /\ returned = Nothing /\ told = Nothing
  /\ losses = 0

-----------------------------------------------------------------------------
(* zookeeper                                                                *)
ChildEvent ==
  /\ events' = IF childWatch THEN Append(events, "child") ELSE events
  /\ childWatch' = FALSE
  /\ UNCHANGED dataWatch

SetNode(s, e) == node' = [node EXCEPT ![s] = e] /\ ChildEvent

\* Session e expires and takes its node along; a live process keeps its session.
Expire(e) ==
  /\ e \in sessions /\ ~ \E s \in Servers : start[s] = e /\ spc[s] # "down"
  /\ sessions' = sessions \ {e}
  /\ IF \E s \in Servers : node[s] = e
       THEN node' = [s \in Servers |-> IF node[s] = e THEN NoNode ELSE node[s]] /\ ChildEvent
       ELSE UNCHANGED <<node, watchVars>>
  /\ UNCHANGED <<parent, value, losses, opened, start, spc, tries, apc, wpc, loadVars, configVars,
                 listVars>>

\* setConfigKeyValue, by anyone
SetConfig ==
  /\ value < MaxSets
  /\ value' = value + 1
  /\ events' = IF dataWatch THEN Append(events, "changed") ELSE events
  /\ dataWatch' = FALSE
  /\ UNCHANGED <<parent, node, losses, childWatch, serverVars, apc, wpc, loadVars,
                 configVars, listVars>>

-----------------------------------------------------------------------------
(* createSessionPath. A process starts, with a new session;                  *)
Start(s) ==
  /\ spc[s] = "down" /\ opened < MaxStarts
  /\ opened' = opened + 1
  /\ start' = [start EXCEPT ![s] = opened']
  /\ sessions' = sessions \cup {opened'}
  /\ spc' = [spc EXCEPT ![s] = "existsParent"]
  /\ tries' = [tries EXCEPT ![s] = 0]
  /\ UNCHANGED <<treeVars, watchVars, apc, wpc, loadVars, configVars, listVars>>

GoTo(s, p) ==
  /\ spc' = [spc EXCEPT ![s] = p]
  /\ tries' = [tries EXCEPT ![s] = 0]

\* zoo_exists of the path above,
ExistsParent(s) ==
  /\ spc[s] = "existsParent"
  /\ GoTo(s, IF parent THEN "exists" ELSE "createParent")
  /\ UNCHANGED <<treeVars, watchVars, sessionVars, apc, wpc, loadVars, configVars, listVars>>

\* zoo_create of it: a node made meanwhile is an error
CreateParent(s) ==
  /\ spc[s] = "createParent"
  /\ GoTo(s, IF parent THEN "failed" ELSE "exists")
  /\ parent' = TRUE
  /\ UNCHANGED <<node, value, losses, watchVars, sessionVars, apc, wpc, loadVars, configVars,
                 listVars>>

\* zoo_exists of the path itself,
Exists(s) ==
  /\ spc[s] = "exists"
  /\ GoTo(s, IF node[s] # NoNode THEN "set" ELSE "create")
  /\ UNCHANGED <<treeVars, watchVars, sessionVars, apc, wpc, loadVars, configVars, listVars>>

\* Mutation: the node was made with an ACL that lets everyone write.
SetOpen(s) ==
  /\ spc[s] = "set"
  /\ GoTo(s, IF node[s] # NoNode THEN "ok" ELSE "failed")
  /\ UNCHANGED <<treeVars, watchVars, sessionVars, apc, wpc, loadVars, configVars, listVars>>

\* zoo_set of a node that is there: it was made with ZOO_READ_ACL_UNSAFE, which
\* lets nobody write (ZNOAUTH), or it is gone again (ZNONODE)
Set(s) ==
  /\ spc[s] = "set"
  /\ GoTo(s, "failed")
  /\ UNCHANGED <<treeVars, watchVars, sessionVars, apc, wpc, loadVars, configVars, listVars>>

\* zoo_create of an ephemeral node; a node made meanwhile is an error
Create(s) ==
  /\ spc[s] = "create"
  /\ IF node[s] = NoNode
       THEN GoTo(s, "ok") /\ SetNode(s, start[s])
       ELSE GoTo(s, "failed") /\ UNCHANGED <<node, watchVars>>
  /\ UNCHANGED <<parent, value, losses, sessionVars, apc, wpc, loadVars, configVars, listVars>>

\* A call ends in ZCONNECTIONLOSS and is made again, colonyNum times at most; it
\* may have been carried out
Lost(s) ==
  /\ spc[s] \in {"existsParent", "createParent", "exists", "set", "create"}
  /\ losses < MaxLosses /\ losses' = losses + 1
  /\ IF tries[s] + 1 < Tries
       THEN tries' = [tries EXCEPT ![s] = @ + 1] /\ UNCHANGED spc
       ELSE GoTo(s, "failed")
  /\ \/ UNCHANGED <<parent, node, watchVars>>
     \/ spc[s] = "createParent" /\ parent' = TRUE /\ UNCHANGED <<node, watchVars>>
     \/ spc[s] = "create" /\ node[s] = NoNode /\ SetNode(s, start[s]) /\ UNCHANGED parent
  /\ UNCHANGED <<value, sessionVars, apc, wpc, loadVars, configVars, listVars>>

\* The process dies; zookeeper learns of it when the session expires.
Crash(s) ==
  /\ spc[s] # "down"
  /\ GoTo(s, "down")
  /\ UNCHANGED <<treeVars, watchVars, sessionVars, apc, wpc, loadVars, configVars, listVars>>

-----------------------------------------------------------------------------
(* loadAllKeyValue: zoo_get with the watch, then the insert                  *)
LoadGet ==
  /\ apc = "config"
  /\ got' = [got EXCEPT !["app"] = value]
  /\ dataWatch' = TRUE
  /\ apc' = "insert"
  /\ UNCHANGED <<treeVars, childWatch, events, serverVars, wpc, loadVars, configMap, listVars>>

LoadInsert ==
  /\ apc = "insert"
  /\ configMap' = got["app"]
  /\ got' = [got EXCEPT !["app"] = NoVal]
  /\ apc' = "list"
  /\ UNCHANGED <<treeVars, watchVars, serverVars, wpc, loadVars, listVars>>

\* A load begins with an empty infoList
Begin(t) ==
  /\ lpc' = [lpc EXCEPT ![t] = "children"]
  /\ found' = [found EXCEPT ![t] = {}]
  /\ ltries' = [ltries EXCEPT ![t] = 0]

\* getTcpServerListInfo, called once; a second call is refused
GetList ==
  /\ apc = "list"
  /\ Begin("app")
  /\ apc' = "loading"
  /\ UNCHANGED <<treeVars, watchVars, serverVars, wpc, names, missing, configVars, listVars>>

\* LoadTcpServerListInfo: zoo_get_children; without the path there is no list,
\* and the call returns ZNONODE
ReadNames(t) ==
  /\ lpc[t] = "children"
  /\ names' = [names EXCEPT ![t] = {s \in Servers : node[s] # NoNode}]
  /\ lpc' = [lpc EXCEPT ![t] = "get"]
  /\ ltries' = [ltries EXCEPT ![t] = 0]
  /\ missing' = (missing \/ ~parent)
  /\ UNCHANGED <<treeVars, dataWatch, events, serverVars, apc, wpc, found, configVars,
                 listVars>>

\* Mutation: watcher() reads the children without setting the watch again.
ChildrenUnwatched(t) == ReadNames(t) /\ childWatch' = (childWatch \/ (parent /\ t = "app"))

\* It sets the watch, unless the path does not exist,
Children(t) == ReadNames(t) /\ childWatch' = (childWatch \/ parent)

\* zoo_get of each child without: one that is gone ends the call,
GetChild(t, s) ==
  /\ lpc[t] = "get" /\ s \in names[t]
  /\ IF node[s] # NoNode
       THEN /\ found' = [found EXCEPT ![t] = @ \cup {<<s, node[s]>>}]
            /\ names' = [names EXCEPT ![t] = @ \ {s}]
       ELSE UNCHANGED found /\ names' = [names EXCEPT ![t] = {}]
  /\ ltries' = [ltries EXCEPT ![t] = 0]
  /\ UNCHANGED <<treeVars, watchVars, serverVars, apc, wpc, lpc, missing, configVars, listVars>>

\* a lost connection, colonyNum times: no list, or no such child in it
LoadLost(t, s) ==
  /\ losses < MaxLosses /\ losses' = losses + 1
  /\ ltries[t] + 1 < Tries \/ LoadMayGiveUp
  /\ lpc[t] = "children" \/ (lpc[t] = "get" /\ s \in names[t])
  /\ IF ltries[t] + 1 < Tries
       THEN ltries' = [ltries EXCEPT ![t] = @ + 1] /\ UNCHANGED <<lpc, names>>
       ELSE /\ ltries' = [ltries EXCEPT ![t] = 0]
            /\ lpc' = [lpc EXCEPT ![t] = "get"]
            /\ names' = [names EXCEPT ![t] = IF lpc[t] = "children" THEN {} ELSE @ \ {s}]
  /\ UNCHANGED <<parent, node, value, watchVars, serverVars, apc, wpc, found, missing, configVars,
                 listVars>>

Loaded(t) == lpc[t] = "get" /\ names[t] = {}

\* The application has its list
ListReturned ==
  /\ apc = "loading" /\ Loaded("app")
  /\ returned' = found["app"]
  /\ lpc' = [lpc EXCEPT !["app"] = "off"]
  /\ apc' = "done"
  /\ UNCHANGED <<treeVars, watchVars, serverVars, wpc, names, found, ltries, missing, configVars,
                 told>>

-----------------------------------------------------------------------------
(* watcher, in the client's completion thread                               *)
WatchChild ==
  /\ wpc = "idle" /\ events # <<>> /\ Head(events) = "child"
  /\ events' = Tail(events)
  /\ Begin("watcher")
  /\ wpc' = "list"
  /\ UNCHANGED <<treeVars, childWatch, dataWatch, serverVars, apc, names, missing, configVars,
                 listVars>>

\* serverCb, whatever LoadTcpServerListInfo returned
CallServerCb ==
  /\ wpc = "list" /\ Loaded("watcher")
  /\ told' = found["watcher"]
  /\ lpc' = [lpc EXCEPT !["watcher"] = "off"]
  /\ wpc' = "idle"
  /\ UNCHANGED <<treeVars, watchVars, serverVars, apc, names, found, ltries, missing,
                 configVars, returned>>

\* configUpdateCallBack begins: zoo_get, whose result nobody looks at, so that a
\* lost connection leaves the empty string
UpdateGet ==
  /\ wpc = "idle" /\ events # <<>> /\ Head(events) = "changed"
  /\ events' = Tail(events)
  /\ \/ got' = [got EXCEPT !["watcher"] = value] /\ UNCHANGED losses
     \/ /\ losses < MaxLosses /\ losses' = losses + 1
        /\ got' = [got EXCEPT !["watcher"] = Empty]
  /\ wpc' = "update"
  /\ UNCHANGED <<parent, node, value, childWatch, serverVars, apc, loadVars, configMap, listVars>>

\* Mutation: it sets the watch again.
WatchChangedAgain == UpdateGet /\ dataWatch' = TRUE

\* It does not set the watch;
WatchChanged == UpdateGet /\ UNCHANGED dataWatch

\* then the map, if the key is in it, and configCb
UpdateConfig ==
  /\ wpc = "update"
  /\ configMap' = IF configMap = NoVal THEN NoVal ELSE got["watcher"]
  /\ got' = [got EXCEPT !["watcher"] = NoVal]
  /\ wpc' = "idle"
  /\ UNCHANGED <<treeVars, watchVars, serverVars, apc, loadVars, listVars>>

-----------------------------------------------------------------------------
ServerStep(s) ==
  ExistsParent(s) \/ CreateParent(s) \/ Exists(s) \/ Set(s) \/ Create(s)

LoadStep(t) == Children(t) \/ \E s \in Servers : GetChild(t, s)

AppStep == LoadGet \/ LoadInsert \/ GetList \/ LoadStep("app") \/ ListReturned

WatcherStep == WatchChild \/ LoadStep("watcher") \/ CallServerCb \/ WatchChanged \/ UpdateConfig

ConfNext ==
  \/ AppStep \/ WatcherStep \/ SetConfig
  \/ \E e \in 1 .. MaxStarts : Expire(e)
  \/ \E s \in Servers : \/ ServerStep(s) \/ Start(s) \/ Lost(s) \/ Crash(s)
                        \/ \E t \in Loaders : LoadLost(t, s)

ConfSpec == ConfInit /\ [][ConfNext]_confVars

\* Threads go on, calls are answered; the session of a dead process expires.
ConfFairness ==
  /\ WF_confVars(AppStep) /\ WF_confVars(WatcherStep)
  /\ \A s \in Servers : WF_confVars(ServerStep(s))
  /\ \A e \in 1 .. MaxStarts : WF_confVars(Expire(e))

ConfFairSpec == ConfSpec /\ ConfFairness

-----------------------------------------------------------------------------
(* Properties.                                                              *)

TreeOK ==
  /\ parent \in BOOLEAN /\ node \in [Servers -> 0 .. opened] /\ value \in 0 .. MaxSets
  /\ childWatch \in BOOLEAN /\ dataWatch \in BOOLEAN /\ events \in Seq({"child", "changed"})
  /\ opened \in 0 .. MaxStarts /\ sessions \subseteq 1 .. opened /\ losses \in 0 .. MaxLosses

ServersOK ==
  /\ start \in [Servers -> 0 .. opened] /\ tries \in [Servers -> 0 .. Tries - 1]
  /\ spc \in [Servers -> {"down", "existsParent", "createParent", "exists", "set", "create",
                          "ok", "failed"}]

LoadsOK ==
  /\ lpc \in [Loaders -> {"off", "children", "get"}] /\ names \in [Loaders -> SUBSET Servers]
  /\ found \in [Loaders -> SUBSET (Servers \X (1 .. opened))]
  /\ ltries \in [Loaders -> 0 .. Tries - 1]

FollowerOK ==
  /\ apc \in {"config", "insert", "list", "loading", "done"}
  /\ wpc \in {"idle", "list", "update"}
  /\ missing \in BOOLEAN
  /\ got \in [Loaders -> Empty .. MaxSets] /\ configMap \in Empty .. MaxSets

\* Every variable has its type.
ConfTypeOK == TreeOK /\ ServersOK /\ LoadsOK /\ FollowerOK

\* A process whose registration returned ZOK owns its node: it is not the node
\* of an earlier start, which would go when that session expires, and it stays as
\* long as the process lives.
RegisteredIsOurs == \A s \in Servers : spc[s] = "ok" => node[s] = start[s]

\* The list the application goes by: the last one serverCb was given, or the one
\* getTcpServerListInfo returned
View == IF told # Nothing THEN told ELSE returned
Registered == {<<s, node[s]>> : s \in {r \in Servers : node[r] # NoNode}}

\* An event of this kind is on its way to the follower.
Announced(e) == \E i \in 1 .. Len(events) : events[i] = e

\* A follower at rest has the list right: when getTcpServerListInfo has returned,
\* having found the path, watcher() is idle and no change of the children is on its
\* way, the list is the servers registered now, though they came and went between
\* zoo_get_children and the reads of the children, in two threads.
\* (LoadMayGiveUp = FALSE.)
ListIsCurrent ==
  apc = "done" /\ ~missing /\ wpc = "idle" /\ ~Announced("child") => View = Registered

\* While the watch of the configuration is set, the value in configMap is the one
\* in zookeeper: only a change that has been announced can be missing, though the
\* value is read and inserted in two steps and watcher() runs between them.
ConfigIsCurrent == apc \notin {"config", "insert"} /\ dataWatch => configMap = value

\* The list of a follower that found the path catches up with the registered
\* servers, though a watch fires once, servers come and go while a list is loading,
\* and a child that is gone cuts the list short.
ListCatchesUp == <>[](missing \/ View = Registered)

\* The same of a follower that may start first. (Not met: without the path
\* zoo_get_children sets no watch, and a second getTcpServerListInfo is refused.)
ListAlwaysCatchesUp == <>[](View = Registered)

\* What configMap has is a value that was in zookeeper. (Not met: the update stores
\* the empty string when its read fails, and does not read again.)
ConfigWasSet == configMap # Empty

\* What the header promises of the configuration, that it is followed: the value
\* in configMap catches up. (Not met: the update reads the value without setting
\* the watch again.)
ConfigCatchesUp == <>[](configMap = value)

\* A process that starts registers, unless it dies. (Not met: of two that make
\* the parent at the same time one gives up, and so does one restarted before its
\* old session has expired, which finds its old node and may not write it.)
Registers ==
  \A s \in Servers : spc[s] = "existsParent" ~> spc[s] \in {"ok", "down"}
=============================================================================
