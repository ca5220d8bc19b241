SPECIFICATION Spec
CONSTANTS
  Windows = {}
  NoWindow = NoWindow
  Cells = {c1}
  PromotionStreak = 2
  Promotable = {c1}
  DefaultLevel <- MCDefaultLevel
  MaxLevel <- MCMaxLevel
  AbsoluteCells = {}
  Passes = {s1, s2}
  NoPass = NoPass
  Proposals = {1, 2}
  CellOf <- MCCellOf
  Invertible = {1}
  GrantLevels = {3}
  MaxAsks = 1
  Limit = 2
  MaxRuns = 1
  c1 = c1
  s1 = s1
  s2 = s2
INVARIANTS TypeOK FailureStopsCell ConfirmedRuns PassesBalance 
SYMMETRY Symmetry
