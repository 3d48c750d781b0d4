SPECIFICATION Spec
CONSTANTS
  r1 = r1
  r2 = r2
  r3 = r3
  trace1 = trace1
  None = None
  NoRow = NoRow
  Requests <- MCRequests
  Ops <- MCOps
  Targets <- MCTargets
  TargetOf <- MCTargetOf
  OpOf <- MCThreeOps
  TraceOf <- MCSomeTrace
  HeaderOf <- MCHeader
  Route <- MCFlawed
  AuditOn = TRUE
  AuditMayFail = FALSE
  MayCrash = TRUE
  StaleClaim = 2
  LifeLimit = 1
  Retention = 1
  MaxTime = 3
CHECK_DEADLOCK FALSE
INVARIANTS
  OneRunnerPerApproval
PROPERTIES
  ResultsAreFinal
