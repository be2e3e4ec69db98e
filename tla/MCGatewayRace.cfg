SPECIFICATION FairSpec
CONSTANTS
  Calls = {c1}
  Reviewers = {r1, r2}
  NoReviewer = NoReviewer
  NoTicket = NoTicket
  TIMEOUT = 1
  GRACE = 1
  MaxTime = 2
INVARIANTS ForwardedIsAuthorised ReviewIsAttributed
PROPERTIES EveryCallEnds ImplementsGovernedCalls
