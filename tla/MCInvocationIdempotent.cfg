SPECIFICATION Spec
CONSTANTS
  Requests = {r1, r2}
  Replicas = {p1}
  Sessions = {s1}
  Principals = {u1}
  PrincipalOf <- MCPrincipalOf
  Tools = {t1}
  CorrelationIDs = {c1}
  NoCorrelation = NoCorrelation
  NoInvocation = NoInvocation
  MaxPerMinute = 0
  MaxPerMinutePerPrincipal = 0
  MaxConcurrent = 0
  MaxMinute = 0
  MaxCrashes = 0
CHECK_DEADLOCK FALSE
INVARIANTS CorrelationIsIdempotent
