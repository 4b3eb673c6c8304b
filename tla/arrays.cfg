CONSTANTS
  Value = {a, b}
  Undefined = Undefined
  Hole = Hole
  NaN = NaN
  Thrown = Thrown
  Argument <- Arguments
  Method <- Methods
  InCallback <- Changes
  MaxLength = 3
  MaxKey = 1
  FindsShorten = FALSE
SPECIFICATION Spec
INVARIANTS StoreInv ReadsExact
PROPERTIES ImplementsList SortExact
