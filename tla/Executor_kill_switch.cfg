SPECIFICATION UpSpec
CONSTANTS
  Windows = {w1}
  NoWindow = NoWindow
  Cells = {c1, c2}
  PromotionStreak = 2
  Promotable = {c1}
  DefaultLevel <- MCDefaultLevel
  MaxLevel <- MCMaxLevel
  AbsoluteCells = {c2}
  Sessions = {s1, s2}
  NoSession = NoSession
  Proposals = {p1, p2}
  NoProposal = NoProposal
  Hosts = {h1}
  CellOf <- AuthorityCellOf
  HostsOf <- AuthorityHostsOf
  Scope <- AuthorityScope
  Invertible = {p1, p2}
  Preflighted = {}
  Kinds = {"override", "channel", "reject"}
  GrantLevels = {3}
  Ceilings <- AuthorityCeilings
  MaxRuns = 2
  c1 = c1
  c2 = c2
  p1 = p1
  p2 = p2
  h1 = h1
  w1 = w1
PROPERTY KilledWindowNeverDispatches
