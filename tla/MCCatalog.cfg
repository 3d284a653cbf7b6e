SPECIFICATION Spec
CONSTANTS
  Table <- Names
  Schemas <- Definitions
  Keys <- KeyLists
  MaxIndexes = 2
  MaxFaults = 3
INVARIANTS CatalogIsAcked SurvivesCrash FilesMatchCatalog HandlesMatchCatalog MarksAreRight
