SPECIFICATION FairSpec
CONSTANTS
  Fingerprint = {"a", "b"}
  Cell = {"plain", "local", "broken"}
  Format = {"naive", "right"}
  Amount = {1, 2}
  Malformed = Malformed
  Parse <- MCParse
  Content <- MCContent
  Mapping <- MCMapping
  Unreadable <- MCUnreadable
  Run = {r1, r2}
  MaxFiles = 2
  MaxFailures = 1
INVARIANTS
  TypeOK
  ArchivedIsInLedger
  LedgerHasProvenance
  BatchKeepsItsRows
PROPERTIES
  AgainChangesNothing
  ImplementsLedger
  EveryFileIsHandled
CHECK_DEADLOCK FALSE
