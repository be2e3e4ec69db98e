SPECIFICATION Spec
CONSTANTS
  Subjects = {x, y}
  Tools <- BothTools
  Packs <- PairPacks
  MaxTime = 3
  MaxCalls = 5
  MaxReplies = 1
  Replies <- MCReplies
SYMMETRY SubjectSymmetry
INVARIANTS StrictestWins BurstBound RateDenialIsEarned ResponseIsGoverned
