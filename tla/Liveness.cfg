SPECIFICATION FairSpec
CONSTANTS
  c1 = c1
  p1 = p1
  s1 = s1
  s2 = s2
  NoWindow = NoWindow
  NoSession = NoSession
  NoProposal = NoProposal
  NoPass = NoPass
  GoingDown = 1
  Timeout = 3
INVARIANT OutcomesTellTheTruth
PROPERTIES SessionsEnd LockReleased PassEnds DispatchesEnd
CHECK_DEADLOCK FALSE
