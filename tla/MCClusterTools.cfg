SPECIFICATION FairSpec
CONSTANTS
  Calls = {c1, c2}
  Processes = {p1, p2}
  Images = {i1, i2}
  InitImage = i1
  MinAge = 1
  TTLs = {1, 2}
  MaxTime = 2
  MaxCrashes = 1
  MaxLost = 1
CHECK_DEADLOCK FALSE
INVARIANTS CompletedIsThisRollout
PROPERTIES WritesKeepTheRest BreakersEnd
