SPECIFICATION FairSpec
CONSTANTS
  r1 = r1
  r2 = r2
  r3 = r3
  trace1 = trace1
  None = None
  NoRow = NoRow
  Requests <- MCRequests
  Ops <- MCOps
  Targets <- MCTargets
  TargetOf <- MCTargetOf
  OpOf <- MCOpOf
  TraceOf <- MCTraceOf
  HeaderOf <- MCNoHeader
  Route <- MCAllOk
  AuditOn = TRUE
  AuditMayFail = FALSE
  MayCrash = FALSE
  StaleClaim = 0
  LifeLimit = 0
  Retention = 0
  MaxTime = 1
CHECK_DEADLOCK FALSE
INVARIANTS
  AppliedAtMostOnce
  BeforeMissesOnlyOthers
PROPERTIES
  EveryRequestEnds
