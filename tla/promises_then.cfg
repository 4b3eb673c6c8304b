CONSTANTS
  Promise = {p1, p2, p3, p4}
  Plain = {v}
  Undefined = Undefined
  CycleError = CycleError
  ResultsArray = ResultsArray
  NoPromise = NoPromise
  Ops = {"construct", "then", "finally"}
  MaxAll = 0
  TopLevelAwait = FALSE
SPECIFICATION Spec
INVARIANTS UnhandledExact ExitReport HiddenNeverUnhandled
PROPERTIES FirstResolutionWins
SYMMETRY Symmetric
