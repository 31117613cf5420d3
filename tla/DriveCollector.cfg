SPECIFICATION FairSpec
CONSTANTS
  Event = {e1, e2}
  Unstorable = {e2}
  PageSize = 2
  MaxFiles = 3
  MaxFailures = 2
INVARIANTS
  TypeOK
  DeletedOnlyAfterStaged
  CompletedRunCountsItsRows
  OpenRunsAreExplained
PROPERTIES
  SuccessMeansPageStaged
  EveryBatchConsumed
