SPECIFICATION Spec
CONSTANTS
  IDs = {i1, i2, i3}  Names = {n1}  Nameless = Nameless
  MaxRows = 3  Counts = {0, 5}
INVARIANT RowsDecideInOrder
