SPECIFICATION FairSpec
CONSTANTS
  Clients <- TwoSessions
  MaxRows = 3
  MaxTime = 0
  MaxFailures = 2
INVARIANTS RoutingInvariant DenialBurstIsEscalated IncidentIsGrounded RiskIsSound
PROPERTIES EventsAreHandled
