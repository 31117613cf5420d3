SPECIFICATION Spec
CONSTANTS
  Event = {e1, e2}
  Torn = Torn
  BatchLimit = 2
  Tears = TRUE
  MaxAppends = 3
  MaxFaults = 2
INVARIANTS
  TypeOK
  RemovedOnlyAfterUpload
SYMMETRY EventSymmetry
