SPECIFICATION Spec
CONSTANTS
  r1 = r1
  r2 = r2
  r3 = r3
  trace1 = trace1
  None = None
  NoRow = NoRow
  Requests <- MCRequests
  Ops <- MCOps
  Targets <- MCTargets
  TargetOf <- MCTargetOf
  OpOf <- MCSameOp
  TraceOf <- MCTraceOf
  HeaderOf <- MCNoHeader
  Route <- MCAllOk
  AuditOn = TRUE
  AuditMayFail = TRUE
  MayCrash = TRUE
  StaleClaim = 1
  LifeLimit = 1
  Retention = 0
  MaxTime = 3
CHECK_DEADLOCK FALSE
SYMMETRY Interchangeable
INVARIANTS
  RepeatOnlyAfterLoss
  OutcomesAreTrue
  ExecutionsAreRecorded
PROPERTIES
  RespectsServiceContract
  ImplementsApprovedOperation
