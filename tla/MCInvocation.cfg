SPECIFICATION FairSpec
CONSTANTS
  Requests = {r1, r2}
  Replicas = {p1}
  Sessions = {s1}
  Principals = {u1}
  PrincipalOf <- MCPrincipalOf
  Tools = {t1}
  CorrelationIDs = {c1}
  NoCorrelation = NoCorrelation
  NoInvocation = NoInvocation
  MaxPerMinute = 2
  MaxPerMinutePerPrincipal = 1
  MaxConcurrent = 1
  MaxMinute = 1
  MaxCrashes = 1
CHECK_DEADLOCK FALSE
INVARIANTS SlotsExact RetryNeverReexecutes SuccessIsEvidenced EvidenceAgrees
PROPERTIES TerminalIsFinal EventuallyAnswered SlotsEventuallyFree
