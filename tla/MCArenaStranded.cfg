\* Fail and Draining against a login in flight.
SPECIFICATION Spec
CONSTANTS
    h1 = h1
    a1 = a1
    noTeam = noTeam
    NoTeam = noTeam
    Bots <- MCBots
    TierCount = 2
    TierSize = 1
    BracketCount = 1
    MaxAge = 1
    KeyOf <- MCKeyOf
    SlotClass <- MCSlotClass
    Lineups <- MCLineups
    Elsewhere = {}
    Foreign <- MCForeign
    LoginWaveTimeout = 1
    PrepareTimeout = 1
    PrepareBatch = 1
    MaxTeamId = 3
    TierRatings <- MCRatings
    TierCeilings <- MCCeilings
    Ratings = {4, 6, 8}
    EngLoginTimeout = 1
    EngQueueTimeout = 3
    EngFightTimeout = 2
    GraceLogout = 1
    Battlemasters = 1
    Elapsed = {1}
    MaxCrashes = 1
INVARIANTS NoStrandedBots
