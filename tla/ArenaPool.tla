------------------------------ MODULE ArenaPool ------------------------------
(* The `.arenaroster poolinit` job of ArenaRosterDirector: a state machine    *)
(* advanced by world ticks that, tier by tier, pins the bots, logs them in,   *)
(* prepares them, creates the bracket teams and logs them out again.          *)
EXTENDS ArenaWorld, Functions

CONSTANTS
    KeyOf,             \* [Bots -> faction x class]: the addclassCache bucket of a bot
    SlotClass,         \* [Slots -> class]: ARENA_POOL_ROSTER
    Lineups,           \* [Brackets -> Seq(Seq(Slots))]: ARENA_POOL_2V2 / 3V3 / 5V5
    Elsewhere,         \* bots pinned as partners or raiders, or in a real guild
    Foreign,           \* [Brackets -> SUBSET Bots]: bots in someone else's arena team
    LoginWaveTimeout,  \* LOGIN_WAVE_TIMEOUT_MS
    PrepareTimeout,    \* PREPARE_TIMEOUT_MS
    PrepareBatch,      \* PREPARE_BATCH_PER_TICK
    MaxTeamId          \* bound: arena team ids handed out over a behaviour

ASSUME PoolAssumption ==
    /\ DOMAIN SlotClass = Slots /\ DOMAIN KeyOf = Bots
    /\ Lineups \in [Brackets -> Seq(Seq(Slots))]
    /\ Elsewhere \subseteq Bots
    /\ Foreign \in [Brackets -> SUBSET Bots]
    /\ LoginWaveTimeout \in Nat /\ PrepareTimeout \in Nat
    /\ PrepareBatch \in Nat \ {0}

\* ARENA_POOL_2V2 / 3V3 / 5V5: no lineup is empty, the lineups of a bracket are
\* disjoint, and every roster slot is in a lineup of some bracket (3v3, 5v5).
ASSUME LineupAssumption ==
    /\ \A s \in Brackets : \A k, l \in 1 .. Len(Lineups[s]) :
          /\ Lineups[s][k] # <<>>
          /\ k # l => Range(Lineups[s][k]) \cap Range(Lineups[s][l]) = {}
    /\ \A i \in Slots : \E s \in Brackets : \E k \in 1 .. Len(Lineups[s]) :
          i \in Range(Lineups[s][k])

VARIABLES
    poolPhase,       \* _poolPhase
    tierInProgress,  \* _tierInProgress
    poolTimer,       \* _poolPhaseTimerMs
    prepIdx,         \* _prepIdx
    bracketStep,     \* _bracketStep
    rows,            \* _rows, keyed by (tier, roster index)
    teamIds          \* _teamIds

poolVars == <<poolPhase, tierInProgress, poolTimer, prepIdx, bracketStep, rows, teamIds>>

Busy   == {"PinBots", "LoginWave", "PrepareBots", "CreateTeams", "LogoutWave"}
Phases == Busy \cup {"Idle", "Done", "Failed"}

PoolBusy == poolPhase \in Busy

TierRow(idx) == rows[<<tierInProgress, idx>>]
TierBot(idx) == TierRow(idx).bot
NoTeams      == [i \in Slots |-> [s \in Brackets |-> 0]]
TeamCount    == [s \in Brackets |-> Len(Lineups[s])]

PoolReset ==
    /\ poolPhase = "Idle" /\ tierInProgress = 0 /\ poolTimer = 0
    /\ prepIdx = 0 /\ bracketStep = 0 /\ rows = NoRows /\ teamIds = NoTeams

\* Fail logs the tier in progress out and stops the job; c is the login state
\* at the call.
Fail(c) ==
    /\ conn' = LogoutPlayerBot(c, TierBots(rows, tierInProgress))
    /\ poolPhase' = "Failed"

-----------------------------------------------------------------------------
\* The idempotency probe: every row there and each on at least one team.
Complete(rs) ==
    /\ DOMAIN rs = Tiers \X Slots
    /\ \A x \in DOMAIN rs : \E s \in Brackets : rs[x].team[s] # 0

TeamsPerTier == Cardinality(UNION {{s} \X (1 .. TeamCount[s]) : s \in Brackets})
RoomForTeams == nextTeam + TierCount * TeamsPerTier <= MaxTeamId + 1

\* Mutant of DisbandPoolTeams: the teams of an earlier run stay.
KeepPoolTeams == teams
\* GetArenaTeamByName + Disband for every "T<tier> <name>" there can be.
DisbandPoolTeams == NoRows

\* Rebuild from a clean slate: log stale bots out, drop the rows, disband every
\* team that carries a pool name.
StartPoolInit ==
    /\ ~PoolBusy
    /\ ~Complete(table)
    /\ RoomForTeams
    /\ conn' = LogoutPlayerBot(conn, BotsOf(table))
    /\ writes' = writes \cup {ClearPool}
    /\ teams' = DisbandPoolTeams
    /\ rows' = NoRows
    /\ tierInProgress' = 1
    /\ poolTimer' = 0 /\ prepIdx' = 0 /\ bracketStep' = 0
    /\ poolPhase' = "PinBots"
    /\ UNCHANGED <<table, nextTeam, teamIds>>

-----------------------------------------------------------------------------
Faction(t) == IF t % 2 = 0 THEN "Alliance" ELSE "Horde"

\* Mutant of Pinned: the pool's own rows are forgotten.
PinnedElsewhereOnly == Elsewhere
\* AllPinnedBots reads the two tables, mod_raid_roster is read next to it.
Pinned == Elsewhere \cup BotsOf(table)

Eligible(idx) ==
    {b \in Bots : /\ KeyOf[b] = <<Faction(tierInProgress), SlotClass[idx]>>
                  /\ ~Online(b)
                  /\ b \notin Pinned}

Picks == {p \in [Slots -> Bots] :
            /\ \A i \in Slots : p[i] \in Eligible(i)
            /\ \A i, j \in Slots : p[i] = p[j] => i = j}

NewRows(p) ==
    [x \in {tierInProgress} \X Slots |->
        [bot |-> p[x[2]], team |-> [s \in Brackets |-> 0]]]

Merge(f, g) == [x \in DOMAIN f \cup DOMAIN g |-> IF x \in DOMAIN g THEN g[x] ELSE f[x]]

PhasePinBots ==
    /\ poolPhase = "PinBots"
    /\ \/ \E p \in Picks :
            LET all == Merge(rows, NewRows(p)) IN
            /\ rows' = all
            /\ writes' = Aged \cup {ReplacePool(all)}
            /\ conn' = AddPlayerBot(conn, {p[i] : i \in Slots})
            /\ poolTimer' = 0
            /\ poolPhase' = "LoginWave"
       \/ /\ Picks = {}
          /\ Fail(conn)
          /\ writes' = Aged
          /\ UNCHANGED <<rows, poolTimer>>
    /\ UNCHANGED <<tierInProgress, prepIdx, bracketStep, teamIds, table, teams, nextTeam>>

\* Mutant of LoginWaveTimer: every re-submission restarts the clock.
LoginWaveTimerRearmed(elapsed) == elapsed
LoginWaveTimer(elapsed) == poolTimer + elapsed

\* Offline bots are submitted again on every tick, on the one that times out too.
PhaseLoginWave(elapsed) ==
    LET missing   == {b \in TierBots(rows, tierInProgress) : ~Online(b)}
        submitted == AddPlayerBot(conn, missing)
        timer     == LoginWaveTimer(elapsed)
    IN
    /\ poolPhase = "LoginWave"
    /\ \/ /\ missing = {}
          /\ prepIdx' = 0 /\ poolTimer' = 0
          /\ poolPhase' = "PrepareBots"
          /\ UNCHANGED conn
       \/ /\ missing # {} /\ timer > LoginWaveTimeout
          /\ Fail(submitted)
          /\ poolTimer' = timer
          /\ UNCHANGED prepIdx
       \/ /\ missing # {} /\ timer <= LoginWaveTimeout
          /\ conn' = submitted
          /\ poolTimer' = timer
          /\ UNCHANGED <<poolPhase, prepIdx>>
    /\ writes' = Aged
    /\ UNCHANGED <<tierInProgress, bracketStep, rows, teamIds, table, teams, nextTeam>>

\* One batch: prepare online bots in roster order, stop at the first that is
\* not online and submit its login.
PrepareTo(n) ==
    /\ n \in prepIdx .. TierSize /\ n <= prepIdx + PrepareBatch
    /\ \A i \in prepIdx .. n - 1 : Online(TierBot(i))
    /\ prepIdx' = n
    /\ \/ /\ n = TierSize
          /\ bracketStep' = 0 /\ teamIds' = NoTeams
          /\ poolPhase' = "CreateTeams"
          /\ UNCHANGED conn
       \/ /\ n < TierSize /\ n = prepIdx + PrepareBatch
          /\ UNCHANGED <<conn, poolPhase, bracketStep, teamIds>>
       \/ /\ n < TierSize /\ n < prepIdx + PrepareBatch
          /\ ~Online(TierBot(n))
          /\ conn' = AddPlayerBot(conn, {TierBot(n)})
          /\ UNCHANGED <<poolPhase, bracketStep, teamIds>>

PhasePrepareBots(elapsed) ==
    LET timer == poolTimer + elapsed IN
    /\ poolPhase = "PrepareBots"
    /\ poolTimer' = timer
    /\ \/ /\ timer > PrepareTimeout
          /\ Fail(conn)
          /\ UNCHANGED <<prepIdx, bracketStep, teamIds>>
       \/ /\ timer <= PrepareTimeout
          /\ \E n \in 0 .. TierSize : PrepareTo(n)
    /\ writes' = Aged
    /\ UNCHANGED <<tierInProgress, rows, table, teams, nextTeam>>

-----------------------------------------------------------------------------
(* CreateOneTeam for team k of bracket s: probe the name, create it with its  *)
(* first slot as captain (which must be online), add the other members (each  *)
(* must be in no other team of the bracket), pin the tier's rating. Ids grow  *)
(* with k as the core's counter does; an id a failed or reused team leaves    *)
(* unused is skipped.                                                         *)

Named(s, k) == {id \in DOMAIN teams : /\ teams[id].tier = tierInProgress
                                      /\ teams[id].bracket = s /\ teams[id].name = k}
TeamId(s, k) == IF Named(s, k) # {} THEN CHOOSE id \in Named(s, k) : TRUE
                                    ELSE nextTeam + k - 1

Member(s, k, i) == TierBot(Lineups[s][k][i])
InOtherTeam(b, s, k) ==
    \/ b \in Foreign[s]
    \/ \E id \in DOMAIN teams \ Named(s, k) : teams[id].bracket = s /\ b \in teams[id].members

CanCreate(s, k) == Named(s, k) # {} \/ Online(Member(s, k, 1))

\* Members that get in before the first AddMember that fails.
Joined(s, k) ==
    {Member(s, k, i) : i \in {j \in 2 .. Len(Lineups[s][k]) :
        \A h \in 2 .. j : ~InOtherTeam(Member(s, k, h), s, k)}}

Filled(s, k) == \A i \in 2 .. Len(Lineups[s][k]) : ~InOtherTeam(Member(s, k, i), s, k)

TeamMade(s, k) ==
    LET old == Named(s, k) # {} IN
    [tier |-> tierInProgress, bracket |-> s, name |-> k,
     captain |-> IF old THEN teams[TeamId(s, k)].captain ELSE Member(s, k, 1),
     members |-> Joined(s, k) \cup
                 (IF old THEN teams[TeamId(s, k)].members ELSE {Member(s, k, 1)}),
     rating |-> IF Filled(s, k) THEN TierRatings[tierInProgress]
                ELSE IF old THEN teams[TeamId(s, k)].rating ELSE 0]

\* The teams of the bracket are made in order up to the first failure.
Made(s)   == {k \in 1 .. TeamCount[s] :
                /\ CanCreate(s, k)
                /\ \A j \in 1 .. k - 1 : CanCreate(s, j) /\ Filled(s, j)}
AllMade(s) == \A k \in 1 .. TeamCount[s] : CanCreate(s, k) /\ Filled(s, k)

\* Mutant of Recorded: the team ids reach the table but not _rows.
RecordedInTableOnly(ids) == rows
\* The tier's rows with the team ids of their slots.
Recorded(ids) ==
    [x \in DOMAIN rows |->
        IF x[1] = tierInProgress THEN [rows[x] EXCEPT !.team = ids[x[2]]] ELSE rows[x]]

PhaseCreateTeams ==
    LET s   == bracketStep
        new == [id \in {TeamId(s, k) : k \in Made(s)} |->
                    TeamMade(s, CHOOSE k \in Made(s) : TeamId(s, k) = id)]
        of(i) == {k \in Made(s) : Filled(s, k) /\ i \in Range(Lineups[s][k])}
        ids == [i \in Slots |->
                  IF of(i) = {} THEN teamIds[i]
                  ELSE [teamIds[i] EXCEPT ![s] = TeamId(s, CHOOSE k \in of(i) : TRUE)]]
    IN
    /\ poolPhase = "CreateTeams"
    /\ teams' = Merge(teams, new)
    /\ nextTeam' = nextTeam + TeamCount[s]
    /\ teamIds' = ids
    /\ \/ /\ ~AllMade(s)
          /\ Fail(conn)
          /\ writes' = Aged
          /\ UNCHANGED <<bracketStep, rows>>
       \/ /\ AllMade(s) /\ s + 1 < BracketCount
          /\ bracketStep' = s + 1
          /\ writes' = Aged
          /\ UNCHANGED <<poolPhase, conn, rows>>
       \/ /\ AllMade(s) /\ s + 1 >= BracketCount
          /\ bracketStep' = s + 1
          /\ rows' = Recorded(ids)
          /\ writes' = Aged \cup {SetPoolTeams(<<tierInProgress, i>>, ids[i]) : i \in Slots}
          /\ poolPhase' = "LogoutWave"
          /\ UNCHANGED conn
    /\ UNCHANGED <<tierInProgress, poolTimer, prepIdx, table>>

MoreTiers == tierInProgress < TierCount

\* The wave that ends a tier.
LoggedOut == LogoutPlayerBot(conn, TierBots(rows, tierInProgress))

PhaseLogoutWave ==
    /\ poolPhase = "LogoutWave"
    /\ conn' = LoggedOut
    /\ \/ /\ MoreTiers
          /\ tierInProgress' = tierInProgress + 1
          /\ poolTimer' = 0
          /\ poolPhase' = "PinBots"
       \/ /\ ~MoreTiers
          /\ poolPhase' = "Done"
          /\ UNCHANGED <<tierInProgress, poolTimer>>
    /\ writes' = Aged
    /\ UNCHANGED <<prepIdx, bracketStep, rows, teamIds, table, teams, nextTeam>>

TickPoolInit(elapsed) ==
    \/ PhasePinBots
    \/ PhaseLoginWave(elapsed)
    \/ PhasePrepareBots(elapsed)
    \/ PhaseCreateTeams
    \/ PhaseLogoutWave
=============================================================================
