SPECIFICATION Spec
CONSTANTS
  Events = {e1, e2, e3}
  Relays = {k1, k2}
  BatchSize = 2
  MaxForgets = 0
  MaxHalts = 0
CHECK_DEADLOCK FALSE
INVARIANTS NothingLost
