CONSTANTS
  SlotsPerPage = 2
  MaxPageNo = 2
  Value = {v}
  Erased = erased
  Session = {s1, s2}
SPECIFICATION InsertSpec
INVARIANT PageHasSlot
CHECK_DEADLOCK FALSE
