SPECIFICATION Spec
CONSTANTS
  Ids = {"a", "b", "c", "d"}
  AccountsCsv = {"a", "b", "d"}
  TARGET_ACCOUNTS = 3
  MaxCrashes = 1
  Sources <- MCSources
  Days = {0, 1, 2}
  Amounts = {0, 2}
  Marked = {"b"}
  Strings = {"cleared", "escalate", "other"}
  small_deposit_threshold = 3
  min_structuring_deposits = 2
  max_hops = 2
  DAY = 2
  MaxArg = 3
  MaxRows = 5
INVARIANTS StoreIsSound HopIsDistance ToolsAgree TruncationIsTold FlagIsWitnessed
