\* Function bodies two and three statements deep: plain, generator and async.
CONSTANTS
  Undefined = Undefined
  MaxCells = 2
  Units <- MCUnits
SPECIFICATION Spec
CHECK_DEADLOCK FALSE
INVARIANTS ControlExact ReturnExactUnlessNested WalksBalanced OneBindingBetween IterationsKept
