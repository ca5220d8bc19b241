SPECIFICATION UpSpec
CONSTANTS
  Windows = {}
  NoWindow = NoWindow
  Cells = {c1}
  PromotionStreak = 2
  Promotable = {c1}
  DefaultLevel <- MCDefaultLevel
  MaxLevel <- MCMaxLevel
  AbsoluteCells = {}
  Sessions = {s1, s2}
  NoSession = NoSession
  Proposals = {p1, p2}
  NoProposal = NoProposal
  Hosts = {}
  CellOf <- CommitsCellOf
  HostsOf <- CommitsHostsOf
  Scope <- CommitsScope
  Invertible = {p1, p2}
  Preflighted = {p1}
  Kinds = {"cli", "channel", "reject"}
  GrantLevels = {2}
  Ceilings = {}
  MaxRuns = 3
  c1 = c1
  c2 = c2
  p1 = p1
  p2 = p2
  h1 = h1
  w1 = w1
PROPERTY DispatchesOnlyPending
