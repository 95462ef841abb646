SPECIFICATION FairSpec
CONSTANTS
  s1 = s1
  IDs = {s1}
  Creators = {c1, c2}
  CreateIdOf <- MCCreateIdOf
  Closers = {}
  CloseIdOf <- MCCloseIdOf
  Labels = {s1}
  LabelOf <- MCLabelKept
  NoLabel = NoLabel
  ReadyTimeout = 2
  SaveLatency = 1
  Grace = 2
  TerminalTTL = 3
  Lifetime = 3
  MaxCrashes = 1
INVARIANTS LiveHasPod
PROPERTIES OrphansCollected
