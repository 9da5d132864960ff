SPECIFICATION FairSpec
CONSTANTS
  Users = {u1}
  Cbs = {k1}
  Cmds = {c1, c2}
  NoCmd = noCmd
  OutSecond = 1
  DelaySecond = 1
  MaxTime = 3
  MaxDrops = 1
  MaxFails = 1
  MayExit = TRUE
  QuietExit = TRUE
CHECK_DEADLOCK FALSE
INVARIANTS
  AnsweredOnce
  OneDriver
  StateTasksInOrder
  ExitMeansAllAnswered
PROPERTIES
  AllAnswered
  ExitReturns
