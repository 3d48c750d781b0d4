SPECIFICATION Spec
CONSTANTS
  sato = sato  ito = ito  nobody = nobody
  NoRegion = NoRegion  None = None
  Users <- MCUsers  Orders = {1, 2}  Stocks = {11, 12}  Customers = {21, 22}
  Owner <- MCOwner  OrderRegion <- MCRegion  CustomerRegion <- MCCustomerRegion
  Quantity <- MCQuantity  Named <- MCNamed  Thresholds = {5}  Changing = {1}
  PageSize = 1  PreviewRows = 1  MaxResolve = 1  DefaultThreshold = 10
  Requests = {1, 2}  MaxActs = 2  MaxChanges = 1
CHECK_DEADLOCK FALSE
INVARIANT SummariesAreRight
