SPECIFICATION FairSpec
CONSTANTS
  Events = {e1, e2, e3, e4}
  Relays = {k1}
  BatchSize = 2
  MaxForgets = 1
  MaxHalts = 1
CHECK_DEADLOCK FALSE
INVARIANTS NothingLost RepeatsNeedForgetting
PROPERTIES InOrder EventuallySeen ListDrains
