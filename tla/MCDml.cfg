SPECIFICATION Spec
CONSTANTS
  s1 = s1
  s2 = s2
  Session = {s1, s2}
  Rid <- Rids
  Column <- Columns
  Value = {1, 2, 3, 4}
  IndexCols <- OnAOnB
  Work <- SomeWork
  NoRow = NoRow
  NoRid = NoRid
INVARIANTS IndexMatchesTable UniqueKeys
PROPERTY StatementEnds
CHECK_DEADLOCK FALSE
