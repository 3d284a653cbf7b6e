SPECIFICATION Spec
CONSTANTS
  Tables <- FourTables
  Indexes <- SomeIndexes
  Databases <- SomeDatabases
  Conds <- SomeConds
  MaxConds = 3
  IntMin = 0
  IntMax = 9
  Selects <- SomeSelects
INVARIANTS PlanIsExact GroupsAreExact
CHECK_DEADLOCK FALSE
