SPECIFICATION FairSpec
CONSTANTS
  r1 = r1
  r2 = r2
  c1 = c1
  c2 = c2
  Runner = {r1, r2}
  Files = 3
  Own = {2, 3}
  Once = {3}
  Needs <- MCNeeds
  Installed = {0, 2}
  MaxEdits = 1
  MaxStops = 1
  Capture = {c1, c2}
  Days = 3
  MaxCaptures = 4
  CoreTables = 1
  CaptureSchema = 2
  MaxImports = 1
  MaxBesides = 2
  StopsBesides = 0
  Keep = 2
  MaxSlips = 1
  Crews <- MCCrews
INVARIANTS
  TypeOK
  RecordedInOrder
  AppliedOnce
  OneObligationPerDate
  LatestBaselineCounts
  SpendCountedOnce
  LeftoversAreExplained
PROPERTIES
  SchemaIsBroughtUpToDate
  VerifiedDumpKept
  PassedCountsWereCurrent
  BackupsCatchUp
  ImplementsBackup
CHECK_DEADLOCK FALSE
