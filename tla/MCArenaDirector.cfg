SPECIFICATION Spec
CONSTANTS
    h1 = h1
    h2 = h2
    h3 = h3
    noTeam = noTeam
    NoTeam = noTeam
    Bots <- MCBots
    TierCount = 1
    TierSize = 3
    BracketCount = 1
    MaxAge = 1
    KeyOf <- MCKeyOf
    SlotClass <- MCSlotClass
    Lineups <- MCLineups
    Elsewhere = {}
    Foreign <- MCForeign
    LoginWaveTimeout = 1
    PrepareTimeout = 1
    PrepareBatch = 3
    MaxTeamId = 3
    TierRatings <- MCRatings
    TierCeilings <- MCCeilings
    Ratings = {4}
    EngLoginTimeout = 1
    EngQueueTimeout = 3
    EngFightTimeout = 1
    GraceLogout = 1
    Battlemasters = 1
    Elapsed = {1}
    MaxCrashes = 0
PROPERTIES JobSettles EngagementEnds RotationFair
