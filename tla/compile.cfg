CONSTANTS
  File = {main, lib, util} Entry = main Lib = lib
  MaxImports = 2 MaxPieces = 2
  Imports <- MCImports
  Programs <- MCPrograms
SPECIFICATION Spec
CHECK_DEADLOCK FALSE
INVARIANTS ImportsReached ImportsFirst CyclesReal MeaningKept NamesDistinct NoInternalError
