SPECIFICATION FilesSpec
CONSTANTS
  PoolSize = 1
  Fd <- Files
  MaxPages = 3
  Client = {c1}
  Data = {zero, a}
  Zero = zero
  Absent = absent
  MaxIOErrors = 0
  Path = {t, u}
SYMMETRY Symmetry
PROPERTY FilesImplementPageStore
