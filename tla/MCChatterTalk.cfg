SPECIFICATION Spec
CONSTANTS
    hero = hero
    b1 = b1
    b2 = b2
    troop = troop
    gu = gu
    z1 = z1
    z2 = z2
    nobody = nobody
    NoOne = nobody
    Humans <- MCHumans
    Bots <- MCBots
    Zones <- MCZones
    Groups <- MCGroups
    Guilds <- MCGuilds
    GuildOf <- MCGuild
    MaxConcurrent = 1
    MaxJobs = 2
    Seed = {1}
    Follow = {1}
    Retry = 1
    ActiveWindow = 1
    StreakMax = 2
    Cooldown = 2
    PerBotCooldown = 1
    MaxPerMin = 2
    RaidPreference = TRUE
    EventOn = TRUE
    EventMaxPerMin = 1
    EventCooldown = 1
    EventPerBotCooldown = 1
    StaleAfter = 2
    DedupeFor = 1
    SeenFor = 1
    MaxReactions = 2
    MaxHistory = 1
    HistoryTtl = 1
    RepeatFor = 0
    Pairs <- MCPairs
    Exchanges = {1, 2, 3}
    HistoryLen = 2
    MaxFlushes = 3
    SayMaxBots = 1
    GroupMaxBots = 1
    GuaranteeOne = TRUE
    Plays <- MCPlays
PROPERTIES PacingKept GroupLinesStayHome RestartKeepsNewest
