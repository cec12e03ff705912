SPECIFICATION Spec
CONSTANTS
  o1 = o1  o2 = o2  w1 = w1  w2 = w2  w3 = w3  p1 = p1  m1 = m1  m2 = m2
  Owners = {o1, o2}
  Bots <- MCBots
  ClassOf <- MCClassOf
  Guilded = {}
  PoolPins = {}
  Comp <- MCComp
  PartnerDefs <- MCPartnerDefs
  SubComps <- MCSubComps
  Brackets = {2, 3}
  Strangers = {1, 3, 4}
  Backlog = 2
  Parties <- MCParties
  Locks <- MCLocks
  Goods <- MCGoods
  RandomPotion <- MCRandomPotion
  Casters = {m1}
  Room = 6
  Items <- MCItems
  Classes <- MCClasses
  OffWindow = 13
  SetTolerance = 6
  Headroom = 15
  MinSetSlots = 2
  Sockets <- MCSockets
  ColorsOf <- MCColorsOf
  ItemOf <- MCItemOf
  BcGemItems <- MCBcGemItems
  ManualGems <- MCManualGems
  EpicSocket = {2}
  Interval = 2
  Soon = 1
  Scenarios = {"pins", "raid", "sync", "spec", "outing", "hasty", "teams", "gear", "gems", "stock", "locks"}
SYMMETRY Perms
INVARIANTS RosterWhole FreedAreTeamless WearsWhatFits SolveIsBest
PROPERTIES RaidFits MetaKept StockKept
