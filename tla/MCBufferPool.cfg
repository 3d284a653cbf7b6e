SPECIFICATION Spec
CONSTANTS
  PoolSize = 2
  Fd <- Files
  MaxPages = 2
  Client = {c1, c2}
  Data = {zero, a}
  Zero = zero
  Absent = absent
  MaxIOErrors = 1
SYMMETRY Symmetry
INVARIANTS TypeOK PageTableSync PinsAreHolders VictimsUnused NoFrameLost UncachedOnDisk CleanIsOnDisk
PROPERTY ImplementsPageStore
