SPECIFICATION FairSpec
CONSTANTS
  Users = {u1, u2}
  Expirer = exp
  NoUid = noUid
  IoNum = 1
  Uids = {1}
  UMod = 64
  DataOut = 0
  ConnectMayFail = FALSE
  ExitWhenReady = TRUE
  MaxTime = 2
  MaxCalls = 2
  MaxExits = 0
  MaxReadyFail = 0
INVARIANTS MsgCbClientAlive ReportedOnce
PROPERTIES FreedByIoThread ReportedGoneIsClosed CallsReturn
