SPECIFICATION FairSpec
CONSTANTS
  Event = {e1, e2}
  Torn = Torn
  BatchLimit = 1
  Tears = FALSE
  MaxAppends = 2
  MaxFaults = 1
PROPERTIES
  PendingEventuallyUploaded
  ConsentLossIsShown
