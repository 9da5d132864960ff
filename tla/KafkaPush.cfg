SPECIFICATION FairSpec
CONSTANTS
  Users = {u1, u2}
  Owner = owner
  Watcher = watcher
  Topics = {x, y}
  InitTopics = {x}
  NoTopic = noTopic
  NoMsg = noMsg
  NoThread = noThread
  QueueMax = 2
  MaxCalls = 2
  MaxChanges = 1
  MayFail = TRUE
  QuietDestroy = FALSE
CHECK_DEADLOCK FALSE
INVARIANT CallbackOnOpenHandle
PROPERTIES IsAnswerService CallsReturn
