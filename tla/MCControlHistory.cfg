SPECIFICATION Spec
CONSTANTS
  Clients <- OneClient
  MaxRows = 4
  MaxTime = 1
  MaxFailures = 0
INVARIANTS ThinHistoryIsSkipped
