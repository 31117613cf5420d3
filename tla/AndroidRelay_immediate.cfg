SPECIFICATION Spec
CONSTANTS
  Event = {e1, e2}
  Torn = Torn
  BatchLimit = 1
  Tears = FALSE
  MaxAppends = 2
  MaxFaults = 0
INVARIANTS
  PendingHasImmediateWork
