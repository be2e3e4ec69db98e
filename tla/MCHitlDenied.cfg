SPECIFICATION Spec
CONSTANTS
  Tickets = {t1}
  Reviewers = {r1, r2}
  NoReviewer = NoReviewer
  NoTicket = NoTicket
  TIMEOUT = 2
  GRACE = 1
  MaxTime = 4
INVARIANTS DeniedIsNeverForwarded
