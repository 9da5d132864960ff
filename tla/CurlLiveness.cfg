SPECIFICATION FairSpec
CONSTANTS
  Users = {t1, t2}
  Caller = cb
  Waker = wk
  IoNum = 1
  Reqs = {r1, r2}
  NoReq = noReq
  Urls = {u1}
  NoUrl = noUrl
  MaxQueue = 1
  MaxConns = 1
  Garbage = {1}
  UMod = 4
  Redirect = FALSE
  Unasked = FALSE
  SetupMayFail = FALSE
  QuietExit = TRUE
  MaxExits = 1
  MaxReadyFail = 0
  MaxCredit = 0
CHECK_DEADLOCK FALSE
PROPERTIES
  IsAnswerService
  AllAnswered
