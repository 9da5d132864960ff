SPECIFICATION FairSpec
CONSTANTS
  Poppers = {p1}
  Controllers = {c1}
  Owner = owner
  Watcher = watcher
  Topics = {x, y}
  InitTopics = {x}
  NoTopic = noTopic
  Stored = {y}
  Brokers = {b1}
  MaxMsgs = 1
  MaxChanges = 2
  MaxCalls = 1
  DownCb = TRUE
  MayFail = TRUE
  EarlyChange = FALSE
  QuietDestroy = TRUE
CHECK_DEADLOCK FALSE
INVARIANTS NoMessageLost
PROPERTIES ChangeReturns MessagesCome BrokersCatchUp
