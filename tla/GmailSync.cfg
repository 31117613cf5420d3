SPECIFICATION FairSpec
CONSTANTS
  Rule = {plain, huge}
  Unstorable = {huge}
  MaxInitial = 1
  MaxMail = 2
  MaxFailures = 1
INVARIANTS TypeOK
PROPERTIES
  CursorMovesOverStagedMail
  CursorNeverGoesBack
  CursorCatchesUp
