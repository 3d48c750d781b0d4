SPECIFICATION FairSpec
CONSTANTS
  k1 = k1  k2 = k2  k3 = k3
  Rows = {k1, k2, k3}  Lists <- MCLists
  Values = {1, 2}  Null = Null  Absent = Absent  NoCursor = NoCursor
  Id <- MCId  TieValue <- MCTieValue
  Limits = {0, 9}  DefaultLimit = 1  MaxLimit = 2  MaxOffset = 2
  MaxChanges = 1
CHECK_DEADLOCK FALSE
INVARIANTS CursorWalksRepeatNothing CursorWalksMissOnlyTiesAndNulls QuietPagesFitTogether
PROPERTIES WalksEnd
