SPECIFICATION FairSpec
CONSTANTS
  Users = {u1}
  Expirer = exp
  NoUid = noUid
  IoNum = 2
  Uids = {1}
  UMod = 64
  DataOut = 0
  ConnectMayFail = TRUE
  ExitWhenReady = TRUE
  MaxTime = 1
  MaxCalls = 2
  MaxExits = 1
  MaxReadyFail = 1
CHECK_DEADLOCK FALSE
INVARIANTS NoLostWakeup ReadyMeansAll
PROPERTIES ExitStopsIo
