SPECIFICATION DropSpec
CONSTANTS
  PoolSize = 2
  Fd <- Files
  MaxPages = 2
  Client = {c1}
  Data = {zero, a}
  Zero = zero
  Absent = absent
  MaxIOErrors = 0
  Path = {t, u}
INVARIANT PageTableSync
