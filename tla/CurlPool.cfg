SPECIFICATION Spec
CONSTANTS
  Users = {t1, t2}
  Caller = cb
  Waker = wk
  IoNum = 1
  Reqs = {r1, r2, r3}
  NoReq = noReq
  Urls = {u1}
  NoUrl = noUrl
  MaxQueue = 0
  MaxConns = 1
  Garbage = {0, 1}
  UMod = 4
  Redirect = FALSE
  Unasked = TRUE
  SetupMayFail = FALSE
  QuietExit = TRUE
  MaxExits = 0
  MaxReadyFail = 0
  MaxCredit = 0
SYMMETRY Interchangeable
CHECK_DEADLOCK FALSE
INVARIANTS
  BlockedIsOwed
  NoLostConnNotify
