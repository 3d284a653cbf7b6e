SPECIFICATION Spec
CONSTANTS
  InputCount <- Texts
  InputAt <- TextAt
  YYINITDEPTH = 34
CHECK_DEADLOCK FALSE
INVARIANTS TreeSpellsInput StatementsAccepted ScannerReady
PROPERTY ParserReturns
