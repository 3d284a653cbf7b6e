CONSTANTS
  btree_order_ = 3
  Key <- Keys
  MaxNodes = 10
  MaxDeletes = 3
SPECIFICATION Spec
INVARIANTS LeafChainIsSorted SearchIsExact ParentsAreRight ScanIsExact
CHECK_DEADLOCK FALSE
