SPECIFICATION Spec
CONSTANTS
  Key = {k1}
  NoKey = NoKey
  Window = 1
  Limit = 2
  MaxTime = 2
  MaxRows = 3
INVARIANTS
  MatchesAreOneToOne
