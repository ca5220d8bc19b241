SPECIFICATION OperationsSpec
CONSTANTS
  Windows = {}
  NoWindow = None
  Cells <- ThreeCells
  PromotionStreak = 3
  Promotable <- Rising
  DefaultLevel <- AllPropose
  MaxLevel <- MaxLevels
  AbsoluteCells = {c3}
  None = None
  Requests = {q1}
  Cell = c1
  Undoers = {b1, b2}
  Settings = {a1, a2}
  Nothing = None
  NoReceipt = None
  MaxReceipts = 3
  MaxActive = 3
  Categories = {c1}
  TargetRefs = {n2}
  Playbooks = {b1, b2}
  Actions = {1, 2}
  RedraftOnce = {c1}
  MinAge = 1
  Cooldown = 2
  MaxQuarters = 3
  MaxDrafts = 2
  Events = {v1}
  Senders = {b1, b2}
  DefaultDays = 2
  MinDays = 2
  MaxDays = 5
  Node = n1
  NoNode = None
  Guests <- TwoGuests
  MaxMem <- SizeOfTwo
  LocalDisk = {2}
  Nodes = {n2}
  Room <- RoomForTwo
  NoNewGuests = {}
  Members <- TwoMembers
  Executors = {b1, b2}
  NoRun = None
  MaxRuns = 2
  MaxMishaps = 1
  MaxEdits = 1
  NoRow = None
  Two = {b1, b2}
  FieldValues = {w1, w2}
  q1 = q1
  c1 = c1
  c2 = c2
  c3 = c3
  m1 = m1
  m2 = m2
  n1 = n1
  n2 = n2
  v1 = v1
SYMMETRY Symmetry
INVARIANTS BelowDomainCeiling OnlyGrantsLiftIneligible ProbationBanksNothing
  TypesOK UndoneOnce StopsAtFirstFailure GuestsReturned
  OneLiveProposal   FindingsFollowRuns SyncedMeansSame
  AdviceIsSound ManifestsAgree
PROPERTIES ApprovalsBuyOneRung  AbortHolds DraftedOnPurpose HandEditsKept
  SilenceResolvesNothing
CHECK_DEADLOCK FALSE
