SPECIFICATION FairSpec
CONSTANTS
  Requests = {a, b, c}
  NONE = none
INVARIANTS TimerGuardsRequest OwnAnswer MixedOnlyAfterTimeout
PROPERTIES EveryCallResolves
CHECK_DEADLOCK FALSE
