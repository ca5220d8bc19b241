SPECIFICATION DaemonSpec
CONSTANTS
  Windows = {}
  NoWindow = NoWindow
  Cells = {c1}
  PromotionStreak = 2
  Promotable = {c1}
  DefaultLevel <- MCDefaultLevel
  MaxLevel <- MCMaxLevel
  AbsoluteCells = {}
  Passes = {s1}
  NoPass = NoPass
  Proposals = {1, 2}
  CellOf <- MCCellOf
  Invertible = {1}
  GrantLevels = {2}
  MaxAsks = 2
  Limit = 1
  MaxRuns = 2
  c1 = c1
  s1 = s1
  s2 = s2
PROPERTY EveryProposalAsked
