SPECIFICATION Spec
CONSTANTS
  Users = {t1, t2}
  Caller = cb
  Waker = wk
  IoNum = 1
  Reqs = {r1, r2}
  NoReq = noReq
  Urls = {u1, u2}
  NoUrl = noUrl
  MaxQueue = 1
  MaxConns = 1
  Garbage = {0}
  UMod = 4
  Redirect = TRUE
  Unasked = TRUE
  SetupMayFail = TRUE
  QuietExit = FALSE
  MaxExits = 1
  MaxReadyFail = 1
  MaxCredit = 0
SYMMETRY Interchangeable
CHECK_DEADLOCK FALSE
INVARIANTS
  AsyncNumExact
  AnsweredOnce
  NoStrandedRequest
