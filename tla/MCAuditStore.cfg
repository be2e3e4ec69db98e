SPECIFICATION FairSpec
CONSTANTS
  Writers = {w1, w2, w3}
  NoWriter = NoWriter
  MaxId = 3
  Bodies <- StableTwo
INVARIANTS HonestLogVerifies HeadIsFresh AckedIsDurable TamperingIsReported
PROPERTIES ImplementsAuditLog WriteEntryReturns
