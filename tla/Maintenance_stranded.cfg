SPECIFICATION MaintenanceSpec
CONSTANTS
  Node = n1
  NoNode = NoNode
  n2 = n2
  Guests <- OneGuest
  MaxMem <- SizeOf
  LocalDisk = {}
  Nodes = {n2}
  Room <- Roomy
  NoNewGuests = {}
  Members <- NoMembers
  Executors = {m1}
  NoRun = NoRun
  MaxRuns = 3
  MaxMishaps = 0
INVARIANT ResumedRunsStrandNobody
CHECK_DEADLOCK FALSE
