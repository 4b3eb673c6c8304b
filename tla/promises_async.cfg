CONSTANTS
  Promise = {p1, p2, p3}
  Plain = {v}
  Undefined = Undefined
  CycleError = CycleError
  ResultsArray = ResultsArray
  NoPromise = NoPromise
  Ops = {"reject", "async", "resolve", "all"}
  MaxAll = 2
  TopLevelAwait = TRUE
SPECIFICATION FairSpec
INVARIANTS AllInOrder OneCompleter JobsCarrySettlement RejectedModuleFails FullInv
PROPERTIES ImplementsContract AwaitResumes
