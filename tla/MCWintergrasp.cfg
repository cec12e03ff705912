CONSTANTS
  a1 = a1  a2 = a2  d1 = d1  d2 = d2  d3 = d3  NoBot = NoBot
  Bots <- MCBots
  TeamOf <- MCTeamOf
  Adoptable <- MCBots
  Scenarios = {"frontier", "muster", "field", "engine", "garrison", "march", "bay"}
  Cannons = 4  TicksPerFull = 2  PerFaction = 1  Grace = 1  ReapTicks = 2
  SquadSize = 2  MaxStrays = 2  MaxVehicles = 3  BackToBack = FALSE
  CaptureSquad = 1  KeepScreen = 1  HumanReserve = 1  CrewMax = 2
  RallyPerVehicle = 3  DefenseShare = 60  Quorum = 2  WorkshopCapture = TRUE
  Near = {0, 14, 40}  Far = 200  ArriveRadius = 8  MinDist = 60  Short = 40
  MountMin = 50  StuckTicks = 2  DwellTicks = 1  HoldCap = 4
SPECIFICATION MCSpec
PROPERTIES  FrontierHeld MusterHolds FactoriesFirst ReapOnlyAbandoned NoPingPong
