SPECIFICATION Spec
CONSTANTS
  Catalog <- TwoTables
  Froms <- FromLists
  Exprs <- SomeExprs
  Columns <- SomeColumns
  Havings <- SomeHavings
  Conds <- SomeConds
  SetClauses <- SomeSets
  MaxParts = 4
  MaxClauses = 1
  MaxRows = 2
INVARIANTS ComparisonsAreTyped OutputIsAsked
CHECK_DEADLOCK FALSE
