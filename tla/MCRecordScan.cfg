CONSTANTS
  SlotsPerPage = 2
  MaxPageNo = 3
  Value = {v}
  Erased = erased
SPECIFICATION ScanSpec
INVARIANTS TypeOK PagesConsistent FreeListIsPagesWithRoom ScanIsComplete
PROPERTY ScanMovesForward
