\* Pool job: every order of logins, drops, writes and one crash.
SPECIFICATION PoolSpec
CONSTANTS
    h1 = h1
    h2 = h2
    h3 = h3
    h4 = h4
    a1 = a1
    a2 = a2
    a3 = a3
    noTeam = noTeam
    NoTeam = noTeam
    Bots <- MCBots
    TierCount = 3
    TierSize = 2
    BracketCount = 2
    MaxAge = 1
    KeyOf <- MCKeyOf
    SlotClass <- MCSlotClass
    Lineups <- MCLineups
    Elsewhere = {}
    Foreign <- MCForeign
    LoginWaveTimeout = 1
    PrepareTimeout = 2
    PrepareBatch = 1
    MaxTeamId = 18
    TierRatings <- MCRatings
    TierCeilings <- MCCeilings
    Ratings = {}
    EngLoginTimeout = 1
    EngQueueTimeout = 1
    EngFightTimeout = 1
    GraceLogout = 1
    Battlemasters = 1
    Elapsed = {1}
    MaxCrashes = 1
SYMMETRY Symmetric
INVARIANTS PinnedOnce CompleteIsCoherent DoneIsDurable RowsMatchTeams
