SPECIFICATION FairSpec
CONSTANTS
  Gates = {g1, g2}
  Writers = {w1}
  Recs = {a, b}
  NoRec = noRec
  MaxCount = 1
  MaxFiles = 3
  Events = {"fail", "crash", "down", "exit"}
  MaxEvents = 1
CHECK_DEADLOCK FALSE
INVARIANTS OneCopy AckedIsKept NothingStranded
PROPERTIES Delivered
