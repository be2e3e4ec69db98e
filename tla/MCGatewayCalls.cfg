SPECIFICATION Spec
CONSTANTS
  Calls = {c1, c2}
  Reviewers = {r1}
  NoReviewer = NoReviewer
  NoTicket = NoTicket
  TIMEOUT = 1
  GRACE = 1
  MaxTime = 1
SYMMETRY CallSymmetry
INVARIANTS RowShapes AnswerIsRecorded OpeningsArePublished
