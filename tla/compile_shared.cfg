CONSTANTS
  File = {main, lib, util} Entry = main Lib = lib
  MaxImports = 2 MaxPieces = 2
  Imports <- MCImports
  Programs <- MCShared
SPECIFICATION Spec
CHECK_DEADLOCK FALSE
INVARIANT EmissionKept
