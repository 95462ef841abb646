SPECIFICATION Spec
CONSTANTS
  s1 = s1
  IDs = {s1}
  Creators = {c1}
  CreateIdOf <- MCCreateIdOf
  Closers = {q1, q2}
  CloseIdOf <- MCCloseIdOf
  Labels = {s1}
  LabelOf <- MCLabelKept
  NoLabel = NoLabel
  ReadyTimeout = 1
  SaveLatency = 1
  Grace = 3
  TerminalTTL = 4
  Lifetime = 3
  MaxCrashes = 1
INVARIANTS CloseIsFinal
