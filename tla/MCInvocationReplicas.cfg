SPECIFICATION Spec
CONSTANTS
  Requests = {r1, r2, r3}
  Replicas = {p1, p2}
  Sessions = {s1}
  Principals = {u1}
  PrincipalOf <- MCPrincipalOf
  Tools = {t1}
  CorrelationIDs = {}
  NoCorrelation = NoCorrelation
  NoInvocation = NoInvocation
  MaxPerMinute = 1
  MaxPerMinutePerPrincipal = 0
  MaxConcurrent = 1
  MaxMinute = 1
  MaxCrashes = 1
SYMMETRY ReplicaSymmetry
CHECK_DEADLOCK FALSE
INVARIANTS ConcurrencyBounded RateLimitHolds
