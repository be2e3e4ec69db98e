SPECIFICATION FairSpec
CONSTANTS
  score <- MCScore
  match_threshold = 70
  LIMIT = 2
  Runs = {"r"}
  Others = {"f", "g"}
  AgentOf <- MCAgentOf
  Wants <- MCWants
  Lists <- MCLists
  entity_name = "acme"
  MaxFaults = 1
INVARIANTS ScreeningPrecedesGraph DispositionIsApproved AlertIsRecorded ReportIsHonest ScreeningIsFaithful
PROPERTY InvestigationEnds
