SPECIFICATION Spec
CONSTANTS
  a1 = a1  a2 = a2  c1 = c1  c2 = c2  o1 = o1  o2 = o2  n1 = n1  n2 = n2
  find = find  oldest = oldest  orders = orders  unpaid = unpaid  bogus = bogus
  change1 = change1  change2 = change2  screen1 = screen1
  IDs = {c1, c2, o1, o2}  Names = {n1, n2}  Nameless = Nameless  None = None
  Asks = {a1, a2}  Calls = {find, orders}  Proposals = {change1}  Screens = {screen1}
  Args <- MCArgs  Unfit <- MCUnfit  Sorted <- MCSorted  ResultsOf <- MCResultsOf
  Typed <- Unnamed  Shown <- Unnamed
  IntentGate = TRUE  StopGuard = TRUE  MaxSteps = 3  Parallel = 2
CHECK_DEADLOCK FALSE
INVARIANTS NothingRestsOnAPick
