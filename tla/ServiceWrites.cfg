SPECIFICATION MCSpec
CONSTANTS
  r1 = r1  r2 = r2  r3 = r3  o1 = o1  c1 = c1  s1 = s1  ghost = ghost
  NoRegion = NoRegion  NoCall = NoCall
  Requests = {r1, r2, r3}  Targets = {o1, c1, s1, ghost}
  Orders = {o1}  Customers = {c1}  Stocks = {s1}  Texts = {"a", "b"}
  Calls <- MCCalls  RegionOf <- MCRegionOf
SYMMETRY Symmetric
CHECK_DEADLOCK FALSE
INVARIANTS CancelsFoundOrdersOpen NoFieldIsLost WritersStayInTheirField
PROPERTIES ImplementsServiceContract
