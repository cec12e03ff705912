--------------------------- MODULE ArenaPool_proofs ---------------------------
(* What the pool job leaves behind, whatever the logins, the database workers *)
(* and the crashes do: no character pinned twice, team ids that name teams of *)
(* the row, a finished pool that stays finished, and a table that is a usable *)
(* pool whenever the idempotency probe believes it is one.                    *)
EXTENDS ArenaRosterDirector, TLAPS

\* What the results assume of the constants: the shipped TIER_COUNT is 4 (with a
\* single tier nothing repairs a ClearPool that runs after the only ReplacePool),
\* and no write outlives the ticks a tier needs from its ReplacePool to the
\* statements of its last bracket.
Timely == TierCount >= 2 /\ MaxAge <= BracketCount + 1

-----------------------------------------------------------------------------
(* Types of the state the job and the workers share. *)

IsTable(rs)    == IsRows(rs) /\ rs = [x \in DOMAIN rs |-> rs[x]]
Unteamed       == [s \in Brackets |-> 0]
Full(rs)       == \E x \in DOMAIN rs : x[1] = TierCount
LastTeamed(rs) == \E x \in DOMAIN rs : x[1] = TierCount /\ rs[x].team # Unteamed

IsClear(w)   == w = [op |-> "clear", age |-> w.age]
IsTeams(w)   == /\ w = [op |-> "teams", at |-> w.at, team |-> w.team, age |-> w.age]
                /\ w.at \in Tiers \X Slots /\ w.team \in [Brackets -> Nat]
IsReplace(w) == /\ w = [op |-> "replace", rows |-> w.rows, age |-> w.age]
                /\ IsTable(w.rows) /\ ~LastTeamed(w.rows)
IsWrite(w)   == w.age \in Nat /\ (IsClear(w) \/ IsTeams(w) \/ IsReplace(w))

IsTeam(tm) ==
    /\ DOMAIN tm = {"tier", "bracket", "name", "captain", "members", "rating"}
    /\ tm.tier \in Tiers /\ tm.bracket \in Brackets

PoolTypes ==
    /\ IsTable(table) /\ IsTable(rows)
    /\ \A w \in writes : IsWrite(w)
    /\ nextTeam \in Nat \ {0}
    /\ \A id \in DOMAIN teams : id \in 1 .. nextTeam - 1 /\ IsTeam(teams[id])
    /\ teamIds \in [Slots -> [Brackets -> Nat]]
    /\ poolPhase \in Phases
    /\ tierInProgress \in 0 .. TierCount
    /\ bracketStep \in 0 .. BracketCount

Underway == PoolBusy \/ poolPhase = "Done"

\* The rows of the tiers pinned so far.
PinnedSlots ==
    {x \in Tiers \X Slots : \/ x[1] < tierInProgress
                            \/ x[1] = tierInProgress /\ poolPhase # "PinBots"}

JobShape ==
    /\ PoolBusy => tierInProgress \in Tiers
    /\ poolPhase = "Done" => tierInProgress = TierCount
    /\ poolPhase = "CreateTeams" => bracketStep < BracketCount
    /\ Underway => DOMAIN rows = PinnedSlots
    /\ \A x \in DOMAIN rows : KeyOf[rows[x].bot][1] = Faction(x[1])

\* The teams in the core while a job runs are its own, of earlier tiers or of
\* the brackets of this tier that are done: no name is met a second time.
TeamsOfRun ==
    PoolBusy => \A id \in DOMAIN teams :
        \/ teams[id].tier < tierInProgress
        \/ /\ teams[id].tier = tierInProgress
           /\ poolPhase \in {"CreateTeams", "LogoutWave"}
           /\ teams[id].bracket < bracketStep

Typed == PoolTypes /\ JobShape /\ TeamsOfRun

-----------------------------------------------------------------------------
(* Steps, as the pool sees them. *)

TeamsKept ==
    \A id \in DOMAIN teams' :
        /\ id \in DOMAIN teams /\ IsTeam(teams'[id])
        /\ teams'[id].tier = teams[id].tier /\ teams'[id].bracket = teams[id].bracket
        /\ teams'[id].members = teams[id].members

\* Everything that is not the job, a database worker or a crash.
Bystanding ==
    /\ UNCHANGED <<poolVars, table, nextTeam>>
    /\ writes' \in {writes, Aged}
    /\ TeamsKept

WorkerStep == (\E w \in writes : RunWrite(w)) /\ UNCHANGED poolVars

PoolTick == (\E elapsed \in Elapsed : TickPoolInit(elapsed)) /\ WritesKeepUp /\ PoolBusy

\* A rating is all that anybody but the job changes in a team.
LEMMA RatingKeepsTeams ==
    ASSUME PoolTypes, NEW id, NEW r,
           teams' = [teams EXCEPT ![id].rating = r]
    PROVE  TeamsKept
<1> SUFFICES ASSUME NEW i \in DOMAIN teams'
             PROVE  /\ i \in DOMAIN teams /\ IsTeam(teams'[i])
                    /\ teams'[i].tier = teams[i].tier /\ teams'[i].bracket = teams[i].bracket
                    /\ teams'[i].members = teams[i].members
  BY DEF TeamsKept
<1>1. i \in DOMAIN teams /\ IsTeam(teams[i])
  BY DEF PoolTypes
<1>2. CASE i # id
  BY <1>1, <1>2
<1>3. CASE i = id
  <2>1. teams'[i] = [teams[i] EXCEPT !.rating = r]
    BY <1>1, <1>3
  <2> QED
    BY <1>1, <2>1 DEF IsTeam
<1> QED
  BY <1>2, <1>3

LEMMA SameTeamsKept ==
    ASSUME PoolTypes, teams' = teams
    PROVE  TeamsKept
BY DEF PoolTypes, TeamsKept

LEMMA WatchKeeps ==
    ASSUME PoolTypes, NEW elapsed \in Elapsed, TickQueueWatch(elapsed)
    PROVE  UNCHANGED <<table, nextTeam>> /\ TeamsKept
<1>1. UNCHANGED <<table, nextTeam>>
  BY DEF TickQueueWatch
<1>2. CASE TickEngagement(elapsed)
  <2>1. teams' = teams \/ teams' = Renormalized
    BY <1>2 DEF TickEngagement, TickLoggingIn, TickQueueing, TickFighting, TickDraining
  <2>2. Renormalized = teams
        \/ Renormalized = [teams EXCEPT ![eng.team].rating = TierRatings[eng.tier]]
    BY Zenon DEF Renormalized
  <2> QED
    BY <1>1, <2>1, <2>2, RatingKeepsTeams, SameTeamsKept
<1> QED
  BY <1>1, <1>2, SameTeamsKept DEF TickQueueWatch

LEMMA StepKinds ==
    ASSUME PoolTypes, [Next]_vars
    PROVE  PoolTick \/ StartPoolInit \/ WorkerStep \/ Crash \/ Bystanding
<1>1. CASE UpdatePool
  BY <1>1 DEF UpdatePool, PoolTick
<1>2. CASE UpdateWatchOnly
  BY <1>2, WatchKeeps DEF UpdateWatchOnly, Bystanding
<1>3. CASE UpdateWatch
  BY <1>3, WatchKeeps, SameTeamsKept DEF UpdateWatch, Bystanding
<1>4. CASE CmdPoolInit
  BY <1>4 DEF CmdPoolInit
<1>5. CASE ForceQueue
  BY <1>5, SameTeamsKept DEF ForceQueue, Bystanding
<1>6. CASE Logins
  BY <1>6, SameTeamsKept DEF Logins, LoginDone, BotLost, Bystanding
<1>7. CASE Disbandings
  <2>1. TeamsKept
    BY <1>7 DEF Disbandings, TeamVanishes, TeamsKept, PoolTypes
  <2> QED
    BY <1>7, <2>1 DEF Disbandings, TeamVanishes, Bystanding
<1>8. CASE Workers
  BY <1>8 DEF Workers, WorkerStep
<1>9. CASE Arena
  <2>1. CASE MatchEnds
    <3>1. PICK r \in Ratings : teams' = IF match.team \in DOMAIN teams
                  THEN [teams EXCEPT ![match.team].rating = r] ELSE teams
      BY <2>1 DEF MatchEnds
    <3>2. teams' = teams \/ teams' = [teams EXCEPT ![match.team].rating = r]
      BY <3>1, Zenon
    <3>3. TeamsKept
      BY <3>2, RatingKeepsTeams, SameTeamsKept
    <3> QED
      BY <1>9, <2>1, <3>3 DEF Arena, MatchEnds, Bystanding
  <2>2. CASE ~MatchEnds
    BY <1>9, <2>2, SameTeamsKept
       DEF Arena, PlayerQueues, PlayerLeavesQueue, JoinHandled, LeaveHandled,
           MatchPops, QueueDrops, worldVars, Bystanding
  <2> QED
    BY <2>1, <2>2
<1>10. CASE Crash
  BY <1>10
<1>11. CASE UNCHANGED vars
  BY <1>11, SameTeamsKept DEF vars, worldVars, Bystanding
<1> QED
  BY <1>1, <1>2, <1>3, <1>4, <1>5, <1>6, <1>7, <1>8, <1>9, <1>10, <1>11
     DEF Next, Update

-----------------------------------------------------------------------------
(* Operators the steps are made of. *)

SameWrite(v, w) ==
    /\ v.op = w.op /\ v.age = w.age + 1
    /\ w.op = "teams" => v.at = w.at /\ v.team = w.team
    /\ w.op = "replace" => v.rows = w.rows

LEMMA WriteOps ==
    ASSUME NEW w, IsWrite(w)
    PROVE  /\ w.op \in {"clear", "teams", "replace"}
           /\ w.op = "clear" <=> IsClear(w)
           /\ w.op = "teams" <=> IsTeams(w)
           /\ w.op = "replace" <=> IsReplace(w)
BY DEF IsWrite, IsClear, IsTeams, IsReplace

\* A tick that passes a pending write by changes its age and nothing else.
LEMMA AgedWrite ==
    ASSUME NEW w, IsWrite(w)
    PROVE  /\ IsWrite([w EXCEPT !.age = @ + 1])
           /\ SameWrite([w EXCEPT !.age = @ + 1], w)
<1> DEFINE v == [w EXCEPT !.age = @ + 1]
<1>1. w.age \in Nat /\ w.age + 1 \in Nat
  BY DEF IsWrite
<1>2. CASE IsClear(w)
  <2>1. w = [op |-> "clear", age |-> w.age]
    BY <1>2 DEF IsClear
  <2>2. v = [op |-> "clear", age |-> w.age + 1]
    BY <2>1
  <2> QED
    BY <1>1, <2>1, <2>2 DEF IsWrite, IsClear, SameWrite
<1>3. CASE IsTeams(w)
  <2>1. w = [op |-> "teams", at |-> w.at, team |-> w.team, age |-> w.age]
    BY <1>3 DEF IsTeams
  <2>2. v = [op |-> "teams", at |-> w.at, team |-> w.team, age |-> w.age + 1]
    BY <2>1
  <2>3. w.op = "teams" /\ v.op = "teams" /\ v.at = w.at /\ v.team = w.team /\ v.age = w.age + 1
    BY <2>1, <2>2
  <2>4. IsTeams(v)
    BY <1>3, <2>2, <2>3 DEF IsTeams
  <2> QED
    BY <1>1, <2>3, <2>4 DEF IsWrite, SameWrite
<1>4. CASE IsReplace(w)
  <2>1. w = [op |-> "replace", rows |-> w.rows, age |-> w.age]
    BY <1>4 DEF IsReplace
  <2>2. v = [op |-> "replace", rows |-> w.rows, age |-> w.age + 1]
    BY <2>1
  <2>3. w.op = "replace" /\ v.op = "replace" /\ v.rows = w.rows /\ v.age = w.age + 1
    BY <2>1, <2>2
  <2>4. IsReplace(v)
    BY <1>4, <2>2, <2>3 DEF IsReplace
  <2> QED
    BY <1>1, <2>3, <2>4 DEF IsWrite, SameWrite
<1> QED
  BY <1>2, <1>3, <1>4 DEF IsWrite

LEMMA AgedWrites ==
    ASSUME PoolTypes
    PROVE  /\ \A v \in Aged : IsWrite(v) /\ \E w \in writes : SameWrite(v, w)
           /\ \A w \in writes : \E v \in Aged : SameWrite(v, w)
<1>1. \A w \in writes : IsWrite(w)
  BY DEF PoolTypes
<1> QED
  BY <1>1, AgedWrite DEF Aged

LEMMA PinRows ==
    ASSUME Typed, poolPhase = "PinBots", NEW p \in Picks
    PROVE  LET all == Merge(rows, NewRows(p)) IN
           /\ IsTable(all)
           /\ ~LastTeamed(all)
           /\ DOMAIN all = {x \in Tiers \X Slots : x[1] <= tierInProgress}
           /\ \A x \in DOMAIN all :
                 /\ x[1] < tierInProgress => x \in DOMAIN rows /\ all[x] = rows[x]
                 /\ x[1] = tierInProgress =>
                       /\ x \notin DOMAIN rows
                       /\ all[x] = [bot |-> p[x[2]], team |-> Unteamed]
                 /\ KeyOf[all[x].bot][1] = Faction(x[1])
<1> DEFINE all == Merge(rows, NewRows(p))
<1>1. tierInProgress \in Tiers /\ TierCount \in Nat
  BY WorldAssumption DEF Typed, JobShape, PoolBusy, Busy
<1>2. DOMAIN rows = {x \in Tiers \X Slots : x[1] < tierInProgress}
  BY DEF Typed, JobShape, PinnedSlots, Underway, PoolBusy, Busy
<1>3. DOMAIN NewRows(p) = {x \in Tiers \X Slots : x[1] = tierInProgress}
  BY <1>1 DEF NewRows
<1>4. \A x \in DOMAIN NewRows(p) : NewRows(p)[x] = [bot |-> p[x[2]], team |-> Unteamed]
  BY DEF NewRows, Unteamed
<1>5. \A i \in Slots : p[i] \in Bots /\ KeyOf[p[i]] = <<Faction(tierInProgress), SlotClass[i]>>
  BY DEF Picks, Eligible
<1>6. \A x \in Tiers \X Slots : x[1] \in Int /\ x[2] \in Slots
  BY DEF Tiers
<1>7. all = [x \in DOMAIN rows \cup DOMAIN NewRows(p) |->
               IF x \in DOMAIN NewRows(p) THEN NewRows(p)[x] ELSE rows[x]]
  BY DEF Merge
<1>8. DOMAIN all = {x \in Tiers \X Slots : x[1] <= tierInProgress}
  BY <1>1, <1>2, <1>3, <1>6, <1>7 DEF Tiers
<1>9. ASSUME NEW x \in DOMAIN all
      PROVE  /\ x[1] < tierInProgress => x \in DOMAIN rows /\ all[x] = rows[x]
             /\ x[1] = tierInProgress =>
                   x \notin DOMAIN rows /\ all[x] = [bot |-> p[x[2]], team |-> Unteamed]
             /\ x[1] < tierInProgress \/ x[1] = tierInProgress
  BY <1>1, <1>2, <1>3, <1>4, <1>6, <1>7, <1>8 DEF Tiers
<1>10. \A x \in DOMAIN rows : rows[x] \in Row /\ KeyOf[rows[x].bot][1] = Faction(x[1])
  BY DEF Typed, PoolTypes, JobShape, IsTable, IsRows
<1>11. ASSUME NEW x \in DOMAIN all
       PROVE  all[x] \in Row /\ KeyOf[all[x].bot][1] = Faction(x[1])
  <2>1. CASE x[1] < tierInProgress
    BY <1>9, <1>10, <2>1
  <2>2. CASE x[1] = tierInProgress
    <3>1. all[x] = [bot |-> p[x[2]], team |-> Unteamed] /\ x[2] \in Slots
      BY <1>6, <1>8, <1>9, <2>2
    <3>2. Unteamed \in [Brackets -> Nat]
      BY DEF Unteamed
    <3> QED
      BY <1>5, <2>2, <3>1, <3>2 DEF Row
  <2> QED
    BY <1>9, <2>1, <2>2
<1>12. ~LastTeamed(all)
  <2> SUFFICES ASSUME NEW x \in DOMAIN all, x[1] = TierCount
               PROVE  all[x].team = Unteamed
    BY DEF LastTeamed
  <2>1. x[1] = tierInProgress
    BY <1>1, <1>8 DEF Tiers
  <2> QED
    BY <1>9, <2>1
<1>13. IsTable(all)
  <2>1. all = [x \in DOMAIN all |-> all[x]]
    BY <1>7
  <2> QED
    BY <1>8, <1>11, <2>1 DEF IsTable, IsRows
<1> QED
  BY <1>8, <1>9, <1>11, <1>12, <1>13

\* No team of the bracket in hand has a name the tier is about to use, so every
\* team made is new, with the next ids in order.
LEMMA FreshNames ==
    ASSUME Typed, poolPhase = "CreateTeams", NEW k
    PROVE  /\ Named(bracketStep, k) = {}
           /\ TeamId(bracketStep, k) = nextTeam + k - 1
<1>1. tierInProgress \in Int /\ bracketStep \in Int
  BY WorldAssumption DEF Typed, PoolTypes
<1>2. \A id \in DOMAIN teams :
         /\ teams[id].tier \in Int /\ teams[id].bracket \in Int
         /\ \/ teams[id].tier < tierInProgress
            \/ teams[id].bracket < bracketStep
  BY DEF Typed, PoolTypes, TeamsOfRun, IsTeam, PoolBusy, Busy, Tiers, Brackets
<1>3. Named(bracketStep, k) = {}
  BY <1>1, <1>2 DEF Named
<1> QED
  BY <1>3 DEF TeamId

LEMMA LineupTypes ==
    ASSUME NEW s \in Brackets
    PROVE  /\ TeamCount[s] = Len(Lineups[s]) /\ TeamCount[s] \in Nat
           /\ \A k \in 1 .. TeamCount[s] :
                 /\ Lineups[s][k] \in Seq(Slots)
                 /\ Len(Lineups[s][k]) \in Nat \ {0}
                 /\ Lineups[s][k][1] \in Slots
                 /\ Lineups[s][k][1] \in Range(Lineups[s][k])
                 /\ Range(Lineups[s][k]) \subseteq Slots
           /\ \A k, l \in 1 .. TeamCount[s] :
                 k # l => Range(Lineups[s][k]) \cap Range(Lineups[s][l]) = {}
<1>1. Lineups[s] \in Seq(Seq(Slots))
  BY PoolAssumption
<1>2. TeamCount[s] = Len(Lineups[s]) /\ TeamCount[s] \in Nat
  BY <1>1 DEF TeamCount
<1>3. ASSUME NEW k \in 1 .. TeamCount[s]
      PROVE  /\ Lineups[s][k] \in Seq(Slots)
             /\ Len(Lineups[s][k]) \in Nat \ {0}
             /\ Lineups[s][k][1] \in Slots
             /\ Lineups[s][k][1] \in Range(Lineups[s][k])
             /\ Range(Lineups[s][k]) \subseteq Slots
  <2>1. Lineups[s][k] \in Seq(Slots)
    BY <1>1, <1>2
  <2>2. Lineups[s][k] # <<>>
    BY <1>2, LineupAssumption
  <2>3. Len(Lineups[s][k]) \in Nat \ {0}
    BY <2>1, <2>2
  <2>4. DOMAIN Lineups[s][k] = 1 .. Len(Lineups[s][k])
    BY <2>1
  <2>5. \A j \in 1 .. Len(Lineups[s][k]) : Lineups[s][k][j] \in Slots
    BY <2>1
  <2> QED
    BY <2>1, <2>3, <2>4, <2>5 DEF Range
<1>4. \A k, l \in 1 .. TeamCount[s] :
         k # l => Range(Lineups[s][k]) \cap Range(Lineups[s][l]) = {}
  BY <1>2, LineupAssumption
<1> QED
  BY <1>2, <1>3, <1>4

\* What a CreateTeams tick leaves: the old teams as they were, the made ones with
\* their lineup on them, and the ids of the filled ones in _teamIds.
LEMMA CreateEffect ==
    ASSUME Typed, PhaseCreateTeams
    PROVE  LET s == bracketStep IN
           /\ s \in Brackets
           /\ \A id \in DOMAIN teams' :
                 \/ id \in DOMAIN teams /\ teams'[id] = teams[id]
                 \/ \E k \in Made(s) : id = nextTeam + k - 1 /\ teams'[id] = TeamMade(s, k)
           /\ \A k \in Made(s) :
                 /\ k \in 1 .. TeamCount[s]
                 /\ nextTeam + k - 1 \in DOMAIN teams'
                 /\ teams'[nextTeam + k - 1] = TeamMade(s, k)
           /\ teamIds' = [i \in Slots |-> teamIds'[i]]
           /\ \A i \in Slots :
                 \/ /\ teamIds'[i] = teamIds[i]
                    /\ \A k \in Made(s) : Filled(s, k) => i \notin Range(Lineups[s][k])
                 \/ \E k \in Made(s) :
                       /\ Filled(s, k) /\ i \in Range(Lineups[s][k])
                       /\ teamIds'[i] = [teamIds[i] EXCEPT ![s] = nextTeam + k - 1]
<1> DEFINE s == bracketStep
           new == [id \in {TeamId(s, k) : k \in Made(s)} |->
                      TeamMade(s, CHOOSE k \in Made(s) : TeamId(s, k) = id)]
           of(i) == {k \in Made(s) : Filled(s, k) /\ i \in Range(Lineups[s][k])}
           ids == [i \in Slots |->
                  IF of(i) = {} THEN teamIds[i]
                  ELSE [teamIds[i] EXCEPT ![s] = TeamId(s, CHOOSE k \in of(i) : TRUE)]]
<1>1. s \in Brackets
  BY WorldAssumption DEF PhaseCreateTeams, Typed, PoolTypes, JobShape, Brackets
<1>2. nextTeam \in Nat /\ (\A id \in DOMAIN teams : id \in 1 .. nextTeam - 1)
  BY DEF Typed, PoolTypes
<1>3. Made(s) \subseteq 1 .. TeamCount[s] /\ TeamCount[s] \in Nat
  BY <1>1, LineupTypes DEF Made
<1>4. \A k : TeamId(s, k) = nextTeam + k - 1
  BY FreshNames DEF PhaseCreateTeams
<1>5. teams' = Merge(teams, new) /\ teamIds' = ids
  BY DEF PhaseCreateTeams
<1>6. ASSUME NEW k \in Made(s)
      PROVE  /\ nextTeam + k - 1 \in DOMAIN new
             /\ nextTeam + k - 1 \notin DOMAIN teams
             /\ new[nextTeam + k - 1] = TeamMade(s, k)
  <2> DEFINE c == CHOOSE j \in Made(s) : TeamId(s, j) = nextTeam + k - 1
  <2>1. nextTeam + k - 1 \in DOMAIN new
    BY <1>4
  <2>2. c \in Made(s) /\ TeamId(s, c) = nextTeam + k - 1
    BY <1>4
  <2>3. c = k
    BY <1>2, <1>3, <1>4, <2>2
  <2>4. new[nextTeam + k - 1] = TeamMade(s, k)
    BY <2>1, <2>3
  <2>5. nextTeam + k - 1 \notin DOMAIN teams
    BY <1>2, <1>3
  <2> QED
    BY <2>1, <2>4, <2>5
<1>7. \A id \in DOMAIN new : \E k \in Made(s) : id = nextTeam + k - 1
  BY <1>4
<1>8. /\ DOMAIN teams' = DOMAIN teams \cup DOMAIN new
      /\ \A id \in DOMAIN teams' :
            teams'[id] = IF id \in DOMAIN new THEN new[id] ELSE teams[id]
  BY <1>5 DEF Merge
<1>9. ASSUME NEW i \in Slots
      PROVE  \/ /\ teamIds'[i] = teamIds[i]
                /\ \A k \in Made(s) : Filled(s, k) => i \notin Range(Lineups[s][k])
             \/ \E k \in Made(s) :
                   /\ Filled(s, k) /\ i \in Range(Lineups[s][k])
                   /\ teamIds'[i] = [teamIds[i] EXCEPT ![s] = nextTeam + k - 1]
  <2>1. CASE of(i) = {}
    BY <1>5, <2>1
  <2>2. CASE of(i) # {}
    <3> DEFINE k == CHOOSE j \in of(i) : TRUE
    <3>1. k \in of(i)
      BY <2>2
    <3>2. teamIds'[i] = [teamIds[i] EXCEPT ![s] = nextTeam + k - 1]
      BY <1>4, <1>5, <2>2
    <3> QED
      BY <3>1, <3>2
  <2> QED
    BY <2>1, <2>2
<1>10. teamIds' = [i \in Slots |-> teamIds'[i]]
  BY <1>5
<1> HIDE DEF new, ids, of
<1> QED
  BY <1>1, <1>3, <1>6, <1>7, <1>8, <1>9, <1>10

-----------------------------------------------------------------------------
(* Types, the shape of _rows and the freshness of team names. *)

LEMMA NewWrites ==
    /\ IsWrite(ClearPool)
    /\ \A rs : IsTable(rs) /\ ~LastTeamed(rs) => IsWrite(ReplacePool(rs))
    /\ \A x \in Tiers \X Slots, f \in [Brackets -> Nat] : IsWrite(SetPoolTeams(x, f))
<1>1. IsWrite(ClearPool)
  BY DEF ClearPool, IsWrite, IsClear
<1>2. ASSUME NEW rs, IsTable(rs), ~LastTeamed(rs)
      PROVE  IsWrite(ReplacePool(rs))
  BY <1>2 DEF ReplacePool, IsWrite, IsReplace
<1>3. ASSUME NEW x \in Tiers \X Slots, NEW f \in [Brackets -> Nat]
      PROVE  IsWrite(SetPoolTeams(x, f))
  BY DEF SetPoolTeams, IsWrite, IsTeams
<1> QED
  BY <1>1, <1>2, <1>3

LEMMA EmptyTable == IsTable(NoRows) /\ DOMAIN NoRows = {} /\ Distinct(NoRows)
BY DEF IsTable, IsRows, NoRows, Distinct

\* What a worker leaves of the table.
LEMMA ExecutedTable ==
    ASSUME PoolTypes, NEW w \in writes
    PROVE  /\ IsTable(Executed(w))
           /\ w.op = "clear" => Executed(w) = NoRows
           /\ w.op = "replace" => Executed(w) = IF Distinct(w.rows) THEN w.rows ELSE table
           /\ w.op = "teams" =>
                /\ DOMAIN Executed(w) = DOMAIN table
                /\ \A x \in DOMAIN table :
                      /\ Executed(w)[x].bot = table[x].bot
                      /\ Executed(w)[x].team = IF x = w.at THEN w.team ELSE table[x].team
<1>1. IsWrite(w) /\ IsTable(table)
  BY DEF PoolTypes
<1>2. CASE w.op = "clear"
  BY <1>2, EmptyTable DEF Executed
<1>3. CASE w.op = "replace"
  <2>1. Executed(w) = IF Distinct(w.rows) THEN w.rows ELSE table
    BY <1>3 DEF Executed
  <2> QED
    BY <1>1, <1>3, <2>1, WriteOps DEF IsReplace
<1>4. CASE w.op = "teams"
  <2>1. Executed(w) = IF w.at \in DOMAIN table
                      THEN [table EXCEPT ![w.at].team = w.team] ELSE table
    BY <1>4 DEF Executed
  <2>2. w.at \in Tiers \X Slots /\ w.team \in [Brackets -> Nat]
    BY <1>1, <1>4, WriteOps DEF IsTeams
  <2>3. CASE w.at \in DOMAIN table
    <3>1. Executed(w) = [x \in DOMAIN table |->
                           IF x = w.at THEN [table[x] EXCEPT !.team = w.team] ELSE table[x]]
      BY <2>1, <2>3
    <3>2. \A x \in DOMAIN table : table[x] \in Row
      BY <1>1 DEF IsTable, IsRows
    <3>3. ASSUME NEW x \in DOMAIN table
          PROVE  /\ Executed(w)[x] \in Row
                 /\ Executed(w)[x].bot = table[x].bot
                 /\ Executed(w)[x].team = IF x = w.at THEN w.team ELSE table[x].team
      <4>1. CASE x = w.at
        <5>1. Executed(w)[x] = [table[x] EXCEPT !.team = w.team]
          BY <3>1, <4>1
        <5>2. table[x] \in [bot : Bots, team : [Brackets -> Nat]]
          BY <3>2 DEF Row
        <5> QED
          BY <2>2, <4>1, <5>1, <5>2 DEF Row
      <4>2. CASE x # w.at
        BY <3>1, <3>2, <4>2
      <4> QED
        BY <4>1, <4>2
    <3>4. DOMAIN Executed(w) = DOMAIN table
          /\ Executed(w) = [x \in DOMAIN Executed(w) |-> Executed(w)[x]]
      BY <3>1
    <3> QED
      BY <1>1, <1>4, <3>3, <3>4 DEF IsTable, IsRows
  <2>4. CASE w.at \notin DOMAIN table
    BY <1>1, <1>4, <2>1, <2>4
  <2> QED
    BY <2>3, <2>4
<1> QED
  BY <1>1, <1>2, <1>3, <1>4, WriteOps

LEMMA TypedBystanding ==
    ASSUME Typed, Bystanding
    PROVE  Typed'
<1>1. \A w \in writes' : IsWrite(w)
  BY AgedWrites DEF Typed, Bystanding, PoolTypes
<1>2. \A id \in DOMAIN teams' : id \in 1 .. nextTeam - 1 /\ IsTeam(teams'[id])
  BY DEF Typed, Bystanding, TeamsKept, PoolTypes
<1>3. PoolTypes'
  BY <1>1, <1>2 DEF Typed, Bystanding, poolVars, PoolTypes
<1>4. JobShape'
  BY DEF Typed, Bystanding, poolVars, JobShape, PinnedSlots, Underway, PoolBusy
<1>5. TeamsOfRun'
  BY DEF Typed, Bystanding, TeamsKept, poolVars, TeamsOfRun, PoolBusy
<1> QED
  BY <1>3, <1>4, <1>5 DEF Typed

LEMMA TypedWorker ==
    ASSUME Typed, WorkerStep
    PROVE  Typed'
<1> PICK w \in writes : RunWrite(w)
  BY DEF WorkerStep
<1>1. UNCHANGED <<poolVars, teams, nextTeam>> /\ table' = Executed(w) /\ writes' = writes \ {w}
  BY DEF WorkerStep, RunWrite
<1>2. PoolTypes'
  BY <1>1, ExecutedTable DEF Typed, poolVars, PoolTypes
<1> QED
  BY <1>1, <1>2 DEF Typed, poolVars, JobShape, PinnedSlots, Underway, PoolBusy, TeamsOfRun

LEMMA TypedStart ==
    ASSUME Typed, StartPoolInit
    PROVE  Typed'
<1>1. DOMAIN rows' = {} /\ DOMAIN teams' = {} /\ IsTable(rows')
  BY EmptyTable DEF StartPoolInit, DisbandPoolTeams
<1>2. 1 \in Tiers /\ TierCount \in Nat
  BY WorldAssumption DEF Tiers
<1>3. PoolTypes'
  BY <1>1, <1>2, NewWrites, WorldAssumption DEF Typed, StartPoolInit, PoolTypes, Phases, Busy, Tiers
<1>4. {x \in Tiers \X Slots : x[1] < 1} = {}
  BY DEF Tiers
<1>5. JobShape'
  BY <1>1, <1>2, <1>4 DEF StartPoolInit, JobShape, PinnedSlots
<1> QED
  BY <1>1, <1>3, <1>5 DEF Typed, TeamsOfRun

LEMMA TypedCrash ==
    ASSUME Typed, Crash
    PROVE  Typed'
<1>1. DOMAIN rows' = {} /\ IsTable(rows')
  BY EmptyTable DEF Crash
<1>2. NoTeams \in [Slots -> [Brackets -> Nat]]
  BY DEF NoTeams
<1>3. PoolTypes'
  BY <1>1, <1>2, WorldAssumption DEF Typed, Crash, WorldCrash, PoolTypes, Phases
<1>4. ~PoolBusy' /\ ~Underway'
  BY DEF Crash, Underway, PoolBusy, Busy
<1> QED
  BY <1>1, <1>3, <1>4 DEF Typed, JobShape, TeamsOfRun, Crash, PoolBusy

\* The ticks of the job, by what they do to what the workers and the core see.
Untouched == UNCHANGED <<tierInProgress, rows, table, teams, nextTeam>> /\ writes' = Aged

PinTick ==
    /\ poolPhase = "PinBots" /\ poolPhase' = "LoginWave"
    /\ \E p \in Picks : rows' = Merge(rows, NewRows(p))
    /\ writes' = Aged \cup {ReplacePool(rows')}
    /\ UNCHANGED <<tierInProgress, bracketStep, teamIds, table, teams, nextTeam>>

\* The tier waits on, or the job fails.
WaitTick ==
    /\ poolPhase \in {"PinBots", "LoginWave", "PrepareBots"}
    /\ poolPhase' = "Failed" \/ (poolPhase' = poolPhase /\ poolPhase # "PinBots")
    /\ Untouched /\ UNCHANGED <<bracketStep, teamIds>>

LoggedInTick ==
    /\ poolPhase = "LoginWave" /\ poolPhase' = "PrepareBots"
    /\ Untouched /\ UNCHANGED <<bracketStep, teamIds>>

PreparedTick ==
    /\ poolPhase = "PrepareBots" /\ poolPhase' = "CreateTeams"
    /\ Untouched /\ bracketStep' = 0 /\ teamIds' = NoTeams

LEMMA TickKinds ==
    ASSUME PoolTick
    PROVE  \/ PinTick \/ WaitTick \/ LoggedInTick \/ PreparedTick
           \/ PhaseCreateTeams \/ PhaseLogoutWave
<1> PICK elapsed \in Elapsed : TickPoolInit(elapsed)
  BY DEF PoolTick
<1>1. CASE PhasePinBots
  <2>1. CASE \E p \in Picks :
            LET all == Merge(rows, NewRows(p)) IN
            /\ rows' = all
            /\ writes' = Aged \cup {ReplacePool(all)}
            /\ conn' = AddPlayerBot(conn, {p[i] : i \in Slots})
            /\ poolTimer' = 0
            /\ poolPhase' = "LoginWave"
    BY <1>1, <2>1 DEF PhasePinBots, PinTick
  <2>2. CASE Fail(conn) /\ writes' = Aged /\ UNCHANGED <<rows, poolTimer>>
    BY <1>1, <2>2 DEF PhasePinBots, Fail, WaitTick, Untouched
  <2> QED
    BY <1>1, <2>1, <2>2 DEF PhasePinBots
<1>2. CASE PhaseLoginWave(elapsed)
  BY <1>2 DEF PhaseLoginWave, Fail, WaitTick, LoggedInTick, Untouched
<1>3. CASE PhasePrepareBots(elapsed)
  BY <1>3 DEF PhasePrepareBots, PrepareTo, Fail, WaitTick, PreparedTick, Untouched
<1> QED
  BY <1>1, <1>2, <1>3 DEF TickPoolInit

LEMMA TypedPin ==
    ASSUME Typed, PinTick
    PROVE  Typed'
<1> PICK p \in Picks : rows' = Merge(rows, NewRows(p))
  BY DEF PinTick
<1>1. /\ IsTable(rows') /\ ~LastTeamed(rows')
      /\ DOMAIN rows' = {x \in Tiers \X Slots : x[1] <= tierInProgress}
      /\ \A x \in DOMAIN rows' : KeyOf[rows'[x].bot][1] = Faction(x[1])
  BY PinRows DEF PinTick
<1>2. tierInProgress \in Tiers
  BY DEF PinTick, Typed, JobShape, PoolBusy, Busy
<1>3. \A w \in writes' : IsWrite(w)
  BY <1>1, AgedWrites, NewWrites DEF PinTick, Typed
<1>4. PoolTypes'
  BY <1>1, <1>3 DEF PinTick, Typed, PoolTypes, Phases, Busy
<1>5. PinnedSlots' = {x \in Tiers \X Slots : x[1] <= tierInProgress}
  BY <1>2 DEF PinTick, PinnedSlots, Tiers
<1>6. JobShape'
  BY <1>1, <1>2, <1>5 DEF PinTick, JobShape
<1>7. TeamsOfRun'
  BY DEF PinTick, Typed, TeamsOfRun, PoolBusy, Busy
<1> QED
  BY <1>4, <1>6, <1>7 DEF Typed

LEMMA TypedWait ==
    ASSUME Typed, WaitTick \/ LoggedInTick \/ PreparedTick
    PROVE  Typed'
<1>1. /\ Untouched
      /\ poolPhase \in {"PinBots", "LoginWave", "PrepareBots"}
      /\ \/ poolPhase' = "Failed"
         \/ poolPhase # "PinBots" /\ poolPhase' \in {"LoginWave", "PrepareBots", "CreateTeams"}
      /\ \/ UNCHANGED <<bracketStep, teamIds>> /\ poolPhase' # "CreateTeams"
         \/ bracketStep' = 0 /\ teamIds' = NoTeams
  BY DEF WaitTick, LoggedInTick, PreparedTick
<1>2. tierInProgress \in Tiers /\ DOMAIN rows = PinnedSlots
  BY <1>1 DEF Typed, JobShape, Underway, PoolBusy, Busy
<1>3. NoTeams \in [Slots -> [Brackets -> Nat]] /\ BracketCount \in Nat \ {0}
  BY WorldAssumption DEF NoTeams
<1>4. \A w \in writes' : IsWrite(w)
  BY <1>1, AgedWrites DEF Untouched, Typed
<1>5. PoolTypes'
  BY <1>1, <1>3, <1>4 DEF Untouched, Typed, PoolTypes, Phases, Busy
<1>6. PinnedSlots' = PinnedSlots \/ poolPhase' = "Failed"
  BY <1>1 DEF Untouched, PinnedSlots
<1>7. JobShape'
  BY <1>1, <1>2, <1>3, <1>6 DEF Untouched, Typed, JobShape, Underway, PoolBusy, Busy
<1>8. TeamsOfRun'
  BY <1>1 DEF Untouched, Typed, TeamsOfRun, PoolBusy, Busy
<1> QED
  BY <1>5, <1>7, <1>8 DEF Typed

LEMMA TypedLogout ==
    ASSUME Typed, PhaseLogoutWave
    PROVE  Typed'
<1>1. /\ poolPhase = "LogoutWave" /\ writes' = Aged
      /\ UNCHANGED <<bracketStep, rows, teamIds, table, teams, nextTeam>>
      /\ \/ tierInProgress < TierCount /\ tierInProgress' = tierInProgress + 1 /\ poolPhase' = "PinBots"
         \/ ~(tierInProgress < TierCount) /\ tierInProgress' = tierInProgress /\ poolPhase' = "Done"
  BY DEF PhaseLogoutWave, MoreTiers
<1>2. tierInProgress \in Tiers /\ DOMAIN rows = PinnedSlots /\ TierCount \in Nat
  BY <1>1, WorldAssumption DEF Typed, JobShape, Underway, PoolBusy, Busy
<1>3. tierInProgress' \in Tiers
  BY <1>1, <1>2 DEF Tiers
<1>4. \A w \in writes' : IsWrite(w)
  BY <1>1, AgedWrites DEF Typed
<1>5. PoolTypes'
  BY <1>1, <1>2, <1>3, <1>4 DEF Typed, PoolTypes, Phases, Busy, Tiers
<1>6. PinnedSlots' = PinnedSlots
  BY <1>1, <1>2 DEF PinnedSlots, Tiers
<1>7. JobShape'
  BY <1>1, <1>2, <1>3, <1>6 DEF Typed, JobShape, Tiers
<1>8. TeamsOfRun'
  <2>1. \A id \in DOMAIN teams : teams[id].tier \in Int /\ teams[id].tier <= tierInProgress
    BY <1>1, <1>2 DEF Typed, TeamsOfRun, PoolTypes, IsTeam, Tiers, PoolBusy, Busy
  <2> QED
    BY <1>1, <1>2, <2>1 DEF TeamsOfRun, PoolBusy, Busy, Tiers
<1> QED
  BY <1>5, <1>7, <1>8 DEF Typed

CreateFails == /\ poolPhase' = "Failed"
               /\ UNCHANGED <<bracketStep, rows>> /\ writes' = Aged
CreateGoesOn == /\ AllMade(bracketStep) /\ bracketStep + 1 < BracketCount
                /\ bracketStep' = bracketStep + 1
                /\ UNCHANGED <<poolPhase, rows>> /\ writes' = Aged
CreateEnds == /\ AllMade(bracketStep) /\ bracketStep + 1 >= BracketCount
              /\ bracketStep' = bracketStep + 1
              /\ poolPhase' = "LogoutWave"
              /\ rows' = Recorded(teamIds')
              /\ writes' = Aged \cup {SetPoolTeams(<<tierInProgress, i>>, teamIds'[i]) : i \in Slots}

LEMMA CreateKinds ==
    ASSUME PhaseCreateTeams
    PROVE  /\ poolPhase = "CreateTeams"
           /\ UNCHANGED <<tierInProgress, table>>
           /\ nextTeam' = nextTeam + TeamCount[bracketStep]
           /\ CreateFails \/ CreateGoesOn \/ CreateEnds
BY DEF PhaseCreateTeams, Fail, CreateFails, CreateGoesOn, CreateEnds

LEMMA CreateTypes ==
    ASSUME Typed, PhaseCreateTeams
    PROVE  /\ teamIds' \in [Slots -> [Brackets -> Nat]]
           /\ nextTeam' \in Nat \ {0} /\ nextTeam' >= nextTeam
           /\ \A id \in DOMAIN teams' :
                 /\ id \in 1 .. nextTeam' - 1 /\ IsTeam(teams'[id])
                 /\ id \in DOMAIN teams => teams'[id] = teams[id]
                 /\ id \notin DOMAIN teams =>
                      teams'[id].tier = tierInProgress /\ teams'[id].bracket = bracketStep
<1> DEFINE s == bracketStep
<1>1. nextTeam \in Nat \ {0} /\ (\A id \in DOMAIN teams : id \in 1 .. nextTeam - 1 /\ IsTeam(teams[id]))
  BY DEF Typed, PoolTypes
<1>2. s \in Brackets /\ TeamCount[s] \in Nat
  BY CreateEffect, LineupTypes
<1>3. nextTeam' = nextTeam + TeamCount[s] /\ tierInProgress \in Tiers
  BY CreateKinds DEF Typed, JobShape, PoolBusy, Busy
<1>4. \A k \in Made(s) : k \in 1 .. TeamCount[s]
  BY CreateEffect
<1>5. \A k : /\ IsTeam(TeamMade(s, k))
             /\ TeamMade(s, k).tier = tierInProgress /\ TeamMade(s, k).bracket = s
  BY <1>2, <1>3 DEF TeamMade, IsTeam
<1>6. ASSUME NEW id \in DOMAIN teams'
      PROVE  /\ id \in 1 .. nextTeam' - 1 /\ IsTeam(teams'[id])
             /\ id \in DOMAIN teams => teams'[id] = teams[id]
             /\ id \notin DOMAIN teams =>
                      teams'[id].tier = tierInProgress /\ teams'[id].bracket = bracketStep
  <2>1. CASE id \in DOMAIN teams /\ teams'[id] = teams[id]
    BY <1>1, <1>2, <1>3, <2>1
  <2>2. CASE \E k \in Made(s) : id = nextTeam + k - 1 /\ teams'[id] = TeamMade(s, k)
    <3> PICK k \in Made(s) : id = nextTeam + k - 1 /\ teams'[id] = TeamMade(s, k)
      BY <2>2
    <3>1. k \in 1 .. TeamCount[s]
      BY <1>4
    <3>2. id \notin DOMAIN teams /\ id \in 1 .. nextTeam' - 1
      BY <1>1, <1>2, <1>3, <3>1
    <3> QED
      BY <1>5, <3>2
  <2> QED
    BY <2>1, <2>2, CreateEffect
<1>7. ASSUME NEW i \in Slots
      PROVE  teamIds'[i] \in [Brackets -> Nat]
  <2>1. teamIds[i] \in [Brackets -> Nat]
    BY DEF Typed, PoolTypes
  <2>2. \A k \in Made(s) : nextTeam + k - 1 \in Nat
    BY <1>1, <1>2, <1>4
  <2> QED
    BY <1>2, <2>1, <2>2, CreateEffect
<1>8. teamIds' \in [Slots -> [Brackets -> Nat]]
  BY <1>7, CreateEffect
<1> QED
  BY <1>1, <1>2, <1>3, <1>6, <1>8

\* Recorded changes the team ids of the tier's rows and nothing else.
LEMMA RecordedRows ==
    ASSUME Typed, PhaseCreateTeams, CreateEnds
    PROVE  /\ IsTable(rows') /\ DOMAIN rows' = DOMAIN rows
           /\ \A x \in DOMAIN rows :
                 /\ rows'[x].bot = rows[x].bot
                 /\ rows'[x].team = IF x[1] = tierInProgress THEN teamIds'[x[2]] ELSE rows[x].team
<1>1. rows' = [x \in DOMAIN rows |->
                 IF x[1] = tierInProgress THEN [rows[x] EXCEPT !.team = teamIds'[x[2]]]
                 ELSE rows[x]]
  BY DEF CreateEnds, Recorded
<1>2. DOMAIN rows \subseteq Tiers \X Slots /\ \A x \in DOMAIN rows : rows[x] \in Row
  BY DEF Typed, PoolTypes, IsTable, IsRows
<1>3. teamIds' \in [Slots -> [Brackets -> Nat]]
  BY CreateTypes
<1>4. ASSUME NEW x \in DOMAIN rows
      PROVE  /\ rows'[x] \in Row /\ rows'[x].bot = rows[x].bot
             /\ rows'[x].team = IF x[1] = tierInProgress THEN teamIds'[x[2]] ELSE rows[x].team
  <2>1. rows[x] \in [bot : Bots, team : [Brackets -> Nat]] /\ x[2] \in Slots
    BY <1>2 DEF Row
  <2>2. CASE x[1] = tierInProgress
    <3>1. rows'[x] = [rows[x] EXCEPT !.team = teamIds'[x[2]]]
      BY <1>1, <2>2
    <3>2. teamIds'[x[2]] \in [Brackets -> Nat]
      BY <1>3, <2>1
    <3> QED
      BY <2>1, <2>2, <3>1, <3>2 DEF Row
  <2>3. CASE x[1] # tierInProgress
    BY <1>1, <1>2, <2>3
  <2> QED
    BY <2>2, <2>3
<1>5. DOMAIN rows' = DOMAIN rows /\ rows' = [x \in DOMAIN rows' |-> rows'[x]]
  BY <1>1
<1> QED
  BY <1>2, <1>4, <1>5 DEF IsTable, IsRows

LEMMA TypedCreate ==
    ASSUME Typed, PhaseCreateTeams
    PROVE  Typed'
<1>1. /\ poolPhase = "CreateTeams" /\ UNCHANGED <<tierInProgress, table>>
      /\ CreateFails \/ CreateGoesOn \/ CreateEnds
  BY CreateKinds
<1>2. /\ tierInProgress \in Tiers /\ DOMAIN rows = PinnedSlots
      /\ BracketCount \in Nat \ {0} /\ bracketStep \in 0 .. BracketCount - 1
  BY <1>1, WorldAssumption DEF Typed, JobShape, PoolTypes, Underway, PoolBusy, Busy
<1>3. IsTable(rows') /\ DOMAIN rows' = DOMAIN rows /\ \A x \in DOMAIN rows : rows'[x].bot = rows[x].bot
  <2>1. CASE rows' = rows
    BY <2>1 DEF Typed, PoolTypes
  <2>2. CASE CreateEnds
    BY <2>2, RecordedRows
  <2> QED
    BY <1>1, <2>1, <2>2 DEF CreateFails, CreateGoesOn
<1>4. \A w \in writes' : IsWrite(w)
  <2>1. \A w \in Aged : IsWrite(w)
    BY AgedWrites DEF Typed
  <2>2. \A i \in Slots : IsWrite(SetPoolTeams(<<tierInProgress, i>>, teamIds'[i]))
    BY <1>2, CreateTypes, NewWrites
  <2> QED
    BY <1>1, <2>1, <2>2 DEF CreateFails, CreateGoesOn, CreateEnds
<1>5. poolPhase' \in {"Failed", "CreateTeams", "LogoutWave"} /\ bracketStep' \in 0 .. BracketCount
      /\ (poolPhase' = "CreateTeams" => bracketStep' < BracketCount)
  BY <1>1, <1>2 DEF CreateFails, CreateGoesOn, CreateEnds
<1>6. PoolTypes'
  BY <1>1, <1>2, <1>3, <1>4, <1>5, CreateTypes DEF Typed, PoolTypes, Phases, Busy, Tiers
<1>7. PinnedSlots' = PinnedSlots
  BY <1>1, <1>5 DEF PinnedSlots
<1>8. JobShape'
  BY <1>1, <1>2, <1>3, <1>5, <1>7 DEF Typed, JobShape
<1>9. TeamsOfRun'
  <2> SUFFICES ASSUME poolPhase' # "Failed", NEW id \in DOMAIN teams'
               PROVE  \/ teams'[id].tier < tierInProgress
                      \/ teams'[id].tier = tierInProgress /\ teams'[id].bracket < bracketStep'
    BY <1>1, <1>5 DEF TeamsOfRun, PoolBusy, Busy
  <2>1. bracketStep' = bracketStep + 1 /\ teams'[id].bracket \in Int
    BY <1>1, CreateTypes DEF CreateFails, CreateGoesOn, CreateEnds, IsTeam, Brackets
  <2>2. CASE id \in DOMAIN teams
    <3>1. teams'[id] = teams[id]
      BY <2>2, CreateTypes
    <3>2. teams[id].tier < tierInProgress
          \/ (teams[id].tier = tierInProgress /\ teams[id].bracket < bracketStep)
      BY <1>1, <2>2 DEF Typed, TeamsOfRun, PoolBusy, Busy
    <3> QED
      BY <1>2, <2>1, <3>1, <3>2
  <2>3. CASE id \notin DOMAIN teams
    BY <1>2, <2>1, <2>3, CreateTypes
  <2> QED
    BY <2>2, <2>3
<1> QED
  BY <1>6, <1>8, <1>9 DEF Typed

LEMMA TypedTick ==
    ASSUME Typed, PoolTick
    PROVE  Typed'
BY TickKinds, TypedPin, TypedWait, TypedCreate, TypedLogout

LEMMA TypedStep == Typed /\ [Next]_vars => Typed'
<1> SUFFICES ASSUME Typed, [Next]_vars
             PROVE  Typed'
  OBVIOUS
<1> QED
  BY StepKinds, TypedTick, TypedStart, TypedWorker, TypedCrash, TypedBystanding DEF Typed

LEMMA TypedInit == Init => Typed
<1> SUFFICES ASSUME Init
             PROVE  Typed
  OBVIOUS
<1>1. IsTable(table) /\ IsTable(rows) /\ DOMAIN rows = {} /\ DOMAIN teams = {} /\ writes = {}
  BY EmptyTable DEF Init, WorldInit, PoolReset
<1>2. teamIds \in [Slots -> [Brackets -> Nat]]
  BY DEF Init, PoolReset, NoTeams
<1>3. PoolTypes
  BY <1>1, <1>2, WorldAssumption DEF Init, WorldInit, PoolReset, PoolTypes, Phases
<1>4. ~PoolBusy /\ ~Underway /\ poolPhase = "Idle"
  BY DEF Init, PoolReset, Underway, PoolBusy, Busy
<1> QED
  BY <1>1, <1>3, <1>4 DEF Typed, JobShape, TeamsOfRun

\* What the state is made of, which rows a job has pinned so far, and no team of an
\* earlier run under a name the job is about to use.
THEOREM PoolIsTyped == Spec => []Typed
BY TypedInit, TypedStep, PTL DEF Spec

-----------------------------------------------------------------------------
(* How old the pending writes are. A tick with a write that is MaxAge old does *)
(* not happen, so a tier's late ticks find the early statements executed.     *)

\* Ticks of the director since the ReplacePool of the tier, at least.
Since ==
    IF poolPhase = "PrepareBots" THEN 1
    ELSE IF poolPhase = "CreateTeams" THEN 2 + bracketStep
    ELSE IF poolPhase = "LogoutWave" THEN 2 + BracketCount
    ELSE IF poolPhase = "PinBots" /\ tierInProgress > 1 THEN 3 + BracketCount
    ELSE 0

\* Before the run has written its first team ids.
FirstTier == tierInProgress = 1 /\ poolPhase # "LogoutWave"

WritesAge ==
    PoolBusy => \A w \in writes : (w.op # "teams" \/ FirstTier) => w.age >= Since

LEMMA AgeOfAged ==
    ASSUME PoolTypes, NEW v \in Aged
    PROVE  \E w \in writes : v.op = w.op /\ w.age \in Nat /\ v.age = w.age + 1
BY AgedWrites DEF PoolTypes, IsWrite, SameWrite

LEMMA AgeTick ==
    ASSUME Typed, Typed', WritesAge, PoolTick
    PROVE  WritesAge'
<1> USE DEF PoolBusy, Busy
<1>1. \A v \in Aged : \E w \in writes : v.op = w.op /\ w.age \in Nat /\ v.age = w.age + 1
  BY AgeOfAged DEF Typed
<1>2. tierInProgress \in Int /\ bracketStep \in Int /\ BracketCount \in Nat
  BY WorldAssumption DEF Typed, PoolTypes
<1>3. CASE PinTick
  <2>1. \A v \in writes' : v.age >= 0
    BY <1>1, <1>3 DEF PinTick, ReplacePool
  <2> QED
    BY <1>3, <2>1 DEF PinTick, WritesAge, Since
<1>4. CASE WaitTick
  BY <1>1, <1>2, <1>4 DEF WaitTick, Untouched, WritesAge, Since, FirstTier
<1>5. CASE LoggedInTick
  BY <1>1, <1>5 DEF LoggedInTick, Untouched, WritesAge, Since, FirstTier
<1>6. CASE PreparedTick
  BY <1>1, <1>6 DEF PreparedTick, Untouched, WritesAge, Since, FirstTier
<1>7. CASE PhaseCreateTeams
  <2>1. poolPhase = "CreateTeams" /\ UNCHANGED tierInProgress
        /\ (CreateFails \/ CreateGoesOn \/ CreateEnds)
    BY <1>7, CreateKinds
  <2>2. CASE CreateFails
    BY <2>2 DEF CreateFails, WritesAge
  <2>3. CASE CreateGoesOn
    BY <1>1, <1>2, <2>1, <2>3 DEF CreateGoesOn, WritesAge, Since, FirstTier
  <2>4. CASE CreateEnds
    <3> SUFFICES ASSUME NEW v \in writes', v.op # "teams"
                 PROVE  v.age >= 2 + BracketCount
      BY <2>4 DEF CreateEnds, WritesAge, Since, FirstTier
    <3>1. v \in Aged
      BY <2>4 DEF CreateEnds, SetPoolTeams
    <3>2. PICK w \in writes : v.op = w.op /\ w.age \in Nat /\ v.age = w.age + 1
      BY <1>1, <3>1
    <3>3. w.age >= 2 + bracketStep
      BY <2>1, <3>2 DEF WritesAge, Since
    <3> QED
      BY <1>2, <2>4, <3>2, <3>3 DEF CreateEnds
  <2> QED
    BY <2>1, <2>2, <2>3, <2>4
<1>8. CASE PhaseLogoutWave
  <2>1. /\ poolPhase = "LogoutWave" /\ writes' = Aged
        /\ \/ tierInProgress' = tierInProgress + 1 /\ poolPhase' = "PinBots"
           \/ poolPhase' = "Done"
    BY <1>8 DEF PhaseLogoutWave
  <2>2. tierInProgress >= 1
    BY <2>1 DEF Typed, JobShape, Tiers
  <2> SUFFICES ASSUME poolPhase' = "PinBots", NEW v \in writes', v.op # "teams"
               PROVE  v.age >= 3 + BracketCount
    BY <1>2, <2>1, <2>2 DEF WritesAge, Since, FirstTier
  <2>3. PICK w \in writes : v.op = w.op /\ w.age \in Nat /\ v.age = w.age + 1
    BY <1>1, <2>1
  <2>4. w.age >= 2 + BracketCount
    BY <2>1, <2>3 DEF WritesAge, Since
  <2> QED
    BY <1>2, <2>3, <2>4
<1> QED
  BY <1>3, <1>4, <1>5, <1>6, <1>7, <1>8, TickKinds

LEMMA AgeStep == Typed /\ Typed' /\ WritesAge /\ [Next]_vars => WritesAge'
<1> SUFFICES ASSUME Typed, Typed', WritesAge, [Next]_vars
             PROVE  WritesAge'
  OBVIOUS
<1>1. CASE PoolTick
  BY <1>1, AgeTick
<1>2. CASE StartPoolInit
  <2>1. \A w \in writes' : w.age \in Nat
    BY DEF Typed, PoolTypes, IsWrite
  <2> QED
    BY <1>2, <2>1 DEF StartPoolInit, WritesAge, Since
<1>3. CASE WorkerStep
  BY <1>3 DEF WorkerStep, RunWrite, poolVars, WritesAge, Since, FirstTier, PoolBusy
<1>4. CASE Crash
  BY <1>4 DEF Crash, WritesAge, PoolBusy, Busy
<1>5. CASE Bystanding
  <2>1. Since \in Int
    BY WorldAssumption DEF Since, Typed, PoolTypes
  <2>2. \A v \in writes' : v \in writes \/ (v \in Aged /\ writes' = Aged)
    BY <1>5 DEF Bystanding
  <2>3. UNCHANGED <<Since, FirstTier, PoolBusy>>
    BY <1>5 DEF Bystanding, poolVars, Since, FirstTier, PoolBusy
  <2> SUFFICES ASSUME PoolBusy, NEW v \in writes', v.op # "teams" \/ FirstTier
               PROVE  v.age >= Since
    BY <2>3 DEF WritesAge
  <2>4. CASE v \in Aged
    BY <2>1, <2>4, AgeOfAged DEF Typed, WritesAge
  <2> QED
    BY <2>2, <2>4 DEF WritesAge
<1> QED
  BY <1>1, <1>2, <1>3, <1>4, <1>5, StepKinds DEF Typed

LEMMA AgeHolds == Spec => []WritesAge
<1>1. Init => WritesAge
  BY DEF Init, WorldInit, WritesAge
<1> QED
  BY <1>1, AgeStep, PoolIsTyped, PTL DEF Spec

\* What the ages rule out: a ClearPool or a ReplacePool still pending when the last
\* bracket of a tier is done or the next tier is pinned, and, in the first tier, the
\* SetPoolTeams of an earlier run.
LEMMA NothingStale ==
    ASSUME Timely, Typed, WritesAge, WritesKeepUp, PoolBusy,
           \/ poolPhase = "PinBots" /\ tierInProgress > 1
           \/ poolPhase = "LogoutWave"
           \/ poolPhase = "CreateTeams" /\ bracketStep + 1 >= BracketCount
    PROVE  /\ \A w \in writes : w.op = "teams"
           /\ FirstTier => writes = {}
<1>1. MaxAge \in Int /\ BracketCount \in Int /\ bracketStep \in Int
  BY WorldAssumption DEF Typed, PoolTypes
<1>2. Since >= MaxAge
  BY <1>1 DEF Since, Timely
<1>3. Since \in Int
  BY <1>1 DEF Since
<1>4. \A w \in writes : w.age \in Int /\ w.age < MaxAge
  BY DEF WritesKeepUp, Typed, PoolTypes, IsWrite
<1> QED
  BY <1>1, <1>2, <1>3, <1>4 DEF WritesAge

-----------------------------------------------------------------------------
(* The table behind the workers. From the first SetPoolTeams of a run on, the *)
(* statements pending are the run's own and say what _rows says; from the     *)
(* second ReplacePool on, the table holds _rows once they have run.           *)

Quiet   == Underway /\ ~FirstTier
Settled == Quiet /\ tierInProgress # 1 /\ ~(tierInProgress = 2 /\ poolPhase = "PinBots")
Closing == poolPhase \in {"LogoutWave", "Done"}

Agrees(w, rs) == w.at \in DOMAIN rs /\ w.team = rs[w.at].team

QuietWrites ==
    Quiet => \A w \in writes :
        /\ w.op # "clear"
        /\ w.op = "replace" => w.rows = rows
        /\ w.op = "teams" => Agrees(w, rows) /\ (~Closing => w.at[1] < tierInProgress)

\* Once the ReplacePool has run the table has the rows' bots; team ids may wait
\* for their own statement.
NoReplace == \A w \in writes : w.op # "replace"
Settles ==
    Settled /\ NoReplace =>
        /\ DOMAIN table = DOMAIN rows
        /\ \A x \in DOMAIN rows :
            /\ table[x].bot = rows[x].bot
            /\ \/ table[x].team = rows[x].team
               \/ /\ table[x].team = Unteamed
                  /\ \E w \in writes : w.op = "teams" /\ w.at = x

RowsNew ==
    Underway /\ ~Closing =>
        \A x \in DOMAIN rows : x[1] = tierInProgress => rows[x].team = Unteamed

Written == PinnedOnce /\ RowsNew /\ QuietWrites /\ Settles

\* The same statement, of whatever age.
Alike(v, w) ==
    /\ v.op = w.op
    /\ w.op = "teams" => v.at = w.at /\ v.team = w.team
    /\ w.op = "replace" => v.rows = w.rows
AllAlike(new, old) ==
    /\ \A v \in new : \E w \in old : Alike(v, w)
    /\ \A w \in old : \E v \in new : Alike(v, w)

LEMMA AgedAlike ==
    ASSUME PoolTypes
    PROVE  AllAlike(Aged, writes) /\ AllAlike(writes, writes)
<1>1. \A w : Alike(w, w)
  BY DEF Alike
<1>2. \A v, w : SameWrite(v, w) => Alike(v, w)
  BY DEF Alike, SameWrite
<1> QED
  BY <1>1, <1>2, AgedWrites DEF AllAlike

\* A step that touches neither rows nor table, and only ages the writes.
LEMMA WrittenKept ==
    ASSUME Typed, Typed', Written, UNCHANGED <<table, rows>>, AllAlike(writes', writes),
           Quiet' => Quiet, Settled' => Settled,
           \/ Closing' /\ ~(Underway /\ ~Closing)
           \/ ~Underway'
           \/ poolPhase' = "PinBots" /\ Closing
           \/ (Underway' => Underway) /\ (Closing' <=> Closing) /\ UNCHANGED tierInProgress
    PROVE  Written'
<1>1. PinnedOnce'
  BY DEF Written, PinnedOnce, Distinct
<1>2. CASE ~Underway'
  BY <1>1, <1>2 DEF Written, RowsNew, QuietWrites, Settles, Quiet, Settled
<1>3. CASE Underway'
  <2>1. QuietWrites'
    <3> SUFFICES ASSUME Quiet', NEW v \in writes'
                 PROVE  /\ v.op # "clear"
                        /\ v.op = "replace" => v.rows = rows
                        /\ v.op = "teams" => /\ Agrees(v, rows)
                                             /\ ~Closing' => v.at[1] < tierInProgress'
      BY DEF QuietWrites, Agrees
    <3>1. PICK w \in writes : Alike(v, w)
      BY DEF AllAlike
    <3>2. /\ v.op # "clear"
          /\ v.op = "replace" => v.rows = rows
          /\ v.op = "teams" => /\ Agrees(v, rows)
                               /\ ~Closing => v.at[1] < tierInProgress
      BY <3>1 DEF Written, QuietWrites, Alike, Agrees
    <3>3. CASE poolPhase' = "PinBots"
      <4>1. \A x \in DOMAIN rows : x[1] < tierInProgress'
        BY <1>3, <3>3 DEF Typed, JobShape, PinnedSlots
      <4> QED
        BY <3>2, <4>1 DEF Agrees
    <3>4. CASE poolPhase' # "PinBots"
      BY <1>3, <3>2, <3>4
    <3> QED
      BY <3>3, <3>4
  <2>2. Settles'
    <3>1. NoReplace' => NoReplace
      BY DEF AllAlike, Alike, NoReplace
    <3>2. \A w \in writes : w.op = "teams" => \E v \in writes' : v.op = "teams" /\ v.at = w.at
      BY DEF AllAlike, Alike
    <3> QED
      BY <3>1, <3>2 DEF Written, Settles
  <2>3. RowsNew'
    <3>1. CASE poolPhase' = "PinBots"
      BY <1>3, <3>1 DEF Typed, JobShape, PinnedSlots, RowsNew, Tiers
    <3>2. CASE poolPhase' # "PinBots"
      BY <1>3, <3>2 DEF Written, RowsNew
    <3> QED
      BY <3>1, <3>2
  <2> QED
    BY <1>1, <2>1, <2>2, <2>3 DEF Written
<1> QED
  BY <1>2, <1>3

LEMMA WrittenPin ==
    ASSUME Timely, Typed, Typed', WritesAge, WritesKeepUp, Written, PinTick
    PROVE  Written'
<1> PICK p \in Picks : rows' = Merge(rows, NewRows(p))
  BY DEF PinTick
<1>1. /\ poolPhase = "PinBots" /\ poolPhase' = "LoginWave" /\ PoolBusy
      /\ writes' = Aged \cup {ReplacePool(rows')}
      /\ UNCHANGED <<tierInProgress, table>> /\ tierInProgress \in Tiers
  BY DEF PinTick, Typed, JobShape, PoolBusy, Busy
<1>2. /\ DOMAIN rows' = {x \in Tiers \X Slots : x[1] <= tierInProgress}
      /\ \A x \in DOMAIN rows' :
            /\ x[1] < tierInProgress => x \in DOMAIN rows /\ rows'[x] = rows[x]
            /\ x[1] = tierInProgress =>
                  x \notin DOMAIN rows /\ rows'[x] = [bot |-> p[x[2]], team |-> Unteamed]
            /\ KeyOf[rows'[x].bot][1] = Faction(x[1])
  BY <1>1, PinRows
<1>3. DOMAIN rows = {x \in Tiers \X Slots : x[1] < tierInProgress}
  BY <1>1 DEF Typed, JobShape, PinnedSlots, Underway
<1>4. tierInProgress > 1 => \A w \in writes : w.op = "teams"
  BY <1>1, NothingStale
<1>5. \A x \in Tiers \X Slots : x[1] \in Tiers /\ x[2] \in Slots /\ x = <<x[1], x[2]>>
  OBVIOUS
<1>12. \A x \in DOMAIN rows' : x \in Tiers \X Slots
  BY <1>2
<1>13. ASSUME NEW x \in DOMAIN rows'
       PROVE  /\ x[1] < tierInProgress => x \in DOMAIN rows /\ rows'[x] = rows[x]
              /\ x[1] = tierInProgress => rows'[x].bot = p[x[2]] /\ rows'[x].team = Unteamed
              /\ KeyOf[rows'[x].bot][1] = Faction(x[1])
  <2>1. /\ x[1] < tierInProgress => x \in DOMAIN rows /\ rows'[x] = rows[x]
        /\ x[1] = tierInProgress => rows'[x] = [bot |-> p[x[2]], team |-> Unteamed]
        /\ KeyOf[rows'[x].bot][1] = Faction(x[1])
    BY <1>2, Zenon
  <2> QED
    BY <2>1
<1>6. \A x \in DOMAIN rows' : x[1] < tierInProgress \/ x[1] = tierInProgress
  BY <1>1, <1>2, <1>5 DEF Tiers
<1>7. Distinct(rows')
  <2>1. ASSUME NEW x \in DOMAIN rows', NEW y \in DOMAIN rows',
               x[1] = tierInProgress, y[1] < tierInProgress
        PROVE  rows'[x].bot # rows'[y].bot
    <3>1. /\ rows'[x].bot = p[x[2]] /\ x[2] \in Slots
          /\ y \in DOMAIN rows /\ rows'[y] = rows[y] /\ y[1] \in Tiers
      BY <1>5, <1>12, <1>13, <2>1
    <3>2. CASE tierInProgress <= 2
      <4>1. tierInProgress = 2 /\ y[1] = 1
        BY <1>1, <2>1, <3>1, <3>2 DEF Tiers
      <4>2. Faction(2) = "Alliance" /\ Faction(1) = "Horde"
        BY DEF Faction
      <4> QED
        BY <1>13, <2>1, <4>1, <4>2
    <3>3. CASE ~(tierInProgress <= 2)
      <4>1. Settled /\ tierInProgress > 1
        BY <1>1, <3>3 DEF Settled, Quiet, Underway, FirstTier, Tiers
      <4>2. NoReplace
        BY <1>4, <4>1 DEF NoReplace
      <4>3. y \in DOMAIN table /\ table[y].bot = rows[y].bot
        BY <3>1, <4>1, <4>2 DEF Written, Settles
      <4>4. p[x[2]] \notin BotsOf(table)
        BY <3>1 DEF Picks, Eligible, Pinned
      <4> QED
        BY <3>1, <4>3, <4>4 DEF BotsOf
    <3> QED
      BY <3>2, <3>3
  <2>2. ASSUME NEW x \in DOMAIN rows', NEW y \in DOMAIN rows',
               x[1] = tierInProgress, y[1] = tierInProgress, rows'[x].bot = rows'[y].bot
        PROVE  x = y
    <3>1. p[x[2]] = p[y[2]] /\ x[2] \in Slots /\ y[2] \in Slots
      BY <1>5, <1>12, <1>13, <2>2
    <3>2. x[2] = y[2]
      BY <3>1 DEF Picks
    <3> QED
      BY <1>5, <1>12, <2>2, <3>2
  <2>3. ASSUME NEW x \in DOMAIN rows', NEW y \in DOMAIN rows',
               x[1] < tierInProgress, y[1] < tierInProgress, rows'[x].bot = rows'[y].bot
        PROVE  x = y
    BY <1>13, <2>3 DEF Written, PinnedOnce, Distinct
  <2> QED
    BY <1>6, <2>1, <2>2, <2>3 DEF Distinct
<1>8. PinnedOnce'
  BY <1>1, <1>7 DEF Written, PinnedOnce, Distinct
<1>9. RowsNew'
  BY <1>1, <1>13 DEF RowsNew
<1>10. QuietWrites'
  <2> SUFFICES ASSUME tierInProgress > 1, NEW v \in writes'
               PROVE  /\ v.op # "clear"
                      /\ v.op = "replace" => v.rows = rows'
                      /\ v.op = "teams" => Agrees(v, rows') /\ v.at[1] < tierInProgress
    BY <1>1 DEF QuietWrites, Quiet, FirstTier, Tiers, Closing, Agrees
  <2>1. CASE v = ReplacePool(rows')
    BY <2>1 DEF ReplacePool
  <2>2. CASE v \in Aged
    <3>1. PICK w \in writes : Alike(v, w)
      BY <2>2, AgedAlike DEF AllAlike, Typed
    <3>2. v.op = "teams" /\ v.at = w.at /\ v.team = w.team
      BY <1>4, <3>1 DEF Alike
    <3>3. Agrees(w, rows)
      BY <1>1, <1>4 DEF Written, QuietWrites, Quiet, FirstTier, Underway
    <3>4. w.at \in DOMAIN rows' /\ w.at[1] < tierInProgress
      BY <1>1, <1>2, <1>3, <1>5, <3>3 DEF Agrees, Tiers
    <3> QED
      BY <1>2, <3>2, <3>3, <3>4 DEF Agrees
  <2> QED
    BY <1>1, <2>1, <2>2
<1>11. Settles'
  <2>1. ReplacePool(rows') \in writes' /\ ReplacePool(rows').op = "replace"
    BY <1>1 DEF ReplacePool
  <2>2. ~NoReplace'
    BY <2>1 DEF NoReplace
  <2> QED
    BY <2>2 DEF Settles
<1> QED
  BY <1>8, <1>9, <1>10, <1>11 DEF Written

LEMMA WrittenCreate ==
    ASSUME Timely, Typed, Typed', WritesAge, WritesKeepUp, Written, PhaseCreateTeams
    PROVE  Written'
<1>1. /\ poolPhase = "CreateTeams" /\ PoolBusy /\ Underway /\ ~Closing
      /\ UNCHANGED <<tierInProgress, table>> /\ tierInProgress \in Tiers
      /\ CreateFails \/ CreateGoesOn \/ CreateEnds
  BY CreateKinds DEF Typed, JobShape, PoolBusy, Busy, Underway, Closing
<1>2. CASE CreateFails
  <2>1. ~Underway'
    BY <1>2 DEF CreateFails, Underway, PoolBusy, Busy
  <2> QED
    BY <1>1, <1>2, <2>1
       DEF CreateFails, Written, PinnedOnce, Distinct, RowsNew, QuietWrites, Settles, Quiet, Settled
<1>3. CASE CreateGoesOn
  <2>1. AllAlike(writes', writes)
    BY <1>3, AgedAlike DEF CreateGoesOn, Typed
  <2>2. UNCHANGED <<Underway, FirstTier, Quiet, Settled, Closing>>
    BY <1>1, <1>3 DEF CreateGoesOn, Underway, PoolBusy, FirstTier, Quiet, Settled, Closing
  <2> QED
    BY <1>1, <1>3, <2>1, <2>2, WrittenKept DEF CreateGoesOn
<1>4. CASE CreateEnds
  <2>1. /\ \A w \in writes : w.op = "teams"
        /\ FirstTier => writes = {}
    BY <1>1, <1>4, NothingStale DEF CreateEnds
  <2>2. /\ DOMAIN rows' = DOMAIN rows
        /\ \A x \in DOMAIN rows :
              /\ rows'[x].bot = rows[x].bot
              /\ rows'[x].team = IF x[1] = tierInProgress THEN teamIds'[x[2]] ELSE rows[x].team
    BY <1>4, RecordedRows
  <2>3. DOMAIN rows = {x \in Tiers \X Slots : x[1] <= tierInProgress}
    BY <1>1 DEF Typed, JobShape, PinnedSlots, Tiers
  <2>4. writes' = Aged \cup {SetPoolTeams(<<tierInProgress, i>>, teamIds'[i]) : i \in Slots}
    BY <1>4 DEF CreateEnds
  <2>5. ASSUME NEW i \in Slots
        PROVE  LET v == SetPoolTeams(<<tierInProgress, i>>, teamIds'[i]) IN
               /\ v \in writes' /\ v.op = "teams" /\ v.at = <<tierInProgress, i>>
               /\ v.at \in DOMAIN rows /\ v.team = rows'[v.at].team
    BY <1>1, <2>2, <2>3, <2>4 DEF SetPoolTeams, Tiers
  <2>6. PinnedOnce'
    BY <1>1, <2>2 DEF Written, PinnedOnce, Distinct
  <2>7. poolPhase' = "LogoutWave" /\ Underway' /\ Closing' /\ Quiet'
    BY <1>4 DEF CreateEnds, Underway, PoolBusy, Busy, Closing, Quiet, FirstTier
  <2>8. \A v \in Aged : \E w \in writes : Alike(v, w)
    BY AgedAlike DEF AllAlike, Typed
  <2>9. ASSUME NEW v \in Aged
        PROVE  v.op = "teams" /\ Agrees(v, rows')
    <3>1. PICK w \in writes : Alike(v, w)
      BY <2>8
    <3>2. v.op = "teams" /\ v.at = w.at /\ v.team = w.team
      BY <2>1, <3>1 DEF Alike
    <3>3. Quiet
      BY <1>1, <2>1 DEF Quiet
    <3>4. Agrees(w, rows) /\ w.at[1] < tierInProgress
      BY <1>1, <2>1, <3>3 DEF Written, QuietWrites
    <3>5. w.at[1] # tierInProgress
      BY <1>1, <2>3, <3>4 DEF Agrees, Tiers
    <3> QED
      BY <2>2, <3>2, <3>4, <3>5 DEF Agrees
  <2>10. QuietWrites'
    <3> SUFFICES ASSUME NEW v \in writes'
                 PROVE  v.op = "teams" /\ Agrees(v, rows')
      BY <2>7 DEF QuietWrites, Agrees
    <3>1. CASE v \in Aged
      BY <2>9, <3>1
    <3>2. CASE \E i \in Slots : v = SetPoolTeams(<<tierInProgress, i>>, teamIds'[i])
      BY <2>2, <2>5, <3>2 DEF Agrees
    <3> QED
      BY <2>4, <3>1, <3>2
  <2>11. Settles'
    <3> SUFFICES ASSUME Settled'
                 PROVE  /\ DOMAIN table = DOMAIN rows'
                        /\ \A x \in DOMAIN rows' :
                            /\ table[x].bot = rows'[x].bot
                            /\ \/ table[x].team = rows'[x].team
                               \/ /\ table[x].team = Unteamed
                                  /\ \E v \in writes' : v.op = "teams" /\ v.at = x
      BY <1>1 DEF Settles
    <3>1. Settled /\ NoReplace
      BY <1>1, <2>1 DEF Settled, Quiet, FirstTier, NoReplace
    <3>2. /\ DOMAIN table = DOMAIN rows
          /\ \A x \in DOMAIN rows :
               /\ table[x].bot = rows[x].bot
               /\ \/ table[x].team = rows[x].team
                  \/ /\ table[x].team = Unteamed
                     /\ \E w \in writes : w.op = "teams" /\ w.at = x
      BY <3>1 DEF Written, Settles
    <3>3. ASSUME NEW x \in DOMAIN rows, x[1] = tierInProgress
          PROVE  /\ table[x].team = Unteamed
                 /\ \E v \in writes' : v.op = "teams" /\ v.at = x
      <4>1. rows[x].team = Unteamed
        BY <1>1, <3>3 DEF Written, RowsNew
      <4>2. x[2] \in Slots /\ x = <<tierInProgress, x[2]>>
        BY <2>3, <3>3
      <4> QED
        BY <2>5, <3>2, <4>1, <4>2
    <3>4. ASSUME NEW x \in DOMAIN rows, x[1] # tierInProgress
          PROVE  \/ table[x].team = rows'[x].team
                 \/ /\ table[x].team = Unteamed
                    /\ \E v \in writes' : v.op = "teams" /\ v.at = x
      <4>1. rows'[x].team = rows[x].team
        BY <2>2, <3>4
      <4>2. \A w \in writes : \E v \in Aged : Alike(v, w)
        BY AgedAlike DEF AllAlike, Typed
      <4>3. \A w \in writes : w.op = "teams" => \E v \in writes' : v.op = "teams" /\ v.at = w.at
        BY <2>4, <4>2 DEF Alike
      <4> QED
        BY <3>2, <4>1, <4>3
    <3> QED
      BY <2>2, <3>2, <3>3, <3>4
  <2>12. RowsNew'
    BY <2>7 DEF RowsNew
  <2> QED
    BY <2>6, <2>10, <2>11, <2>12 DEF Written
<1> QED
  BY <1>1, <1>2, <1>3, <1>4

LEMMA WrittenTick ==
    ASSUME Timely, Typed, Typed', WritesAge, Written, PoolTick
    PROVE  Written'
<1>1. WritesKeepUp /\ PoolBusy /\ Underway
  BY DEF PoolTick, Underway
<1>2. AllAlike(Aged, writes)
  BY AgedAlike DEF Typed
<1>3. CASE WaitTick \/ LoggedInTick \/ PreparedTick
  <2>1. /\ AllAlike(writes', writes)
        /\ poolPhase \in {"PinBots", "LoginWave", "PrepareBots"}
        /\ \/ poolPhase' = "Failed"
           \/ poolPhase # "PinBots" /\ poolPhase' \in {"LoginWave", "PrepareBots", "CreateTeams"}
        /\ UNCHANGED <<tierInProgress, rows, table>>
    BY <1>2, <1>3 DEF WaitTick, LoggedInTick, PreparedTick, Untouched
  <2>2. CASE poolPhase' = "Failed"
    <3>1. ~Underway'
      BY <2>2 DEF Underway, PoolBusy, Busy
    <3> QED
      BY <2>1, <3>1, WrittenKept DEF Quiet, Settled
  <2>3. CASE poolPhase' # "Failed"
    <3>1. (Quiet' => Quiet) /\ (Settled' => Settled) /\ (Closing' <=> Closing)
      BY <1>1, <2>1, <2>3 DEF Quiet, Settled, FirstTier, Closing
    <3> QED
      BY <1>1, <2>1, <3>1, WrittenKept
  <2> QED
    BY <2>2, <2>3
<1>4. CASE PhaseLogoutWave
  <2>1. /\ AllAlike(writes', writes) /\ UNCHANGED <<rows, table>>
        /\ poolPhase = "LogoutWave" /\ Closing
        /\ \/ tierInProgress' = tierInProgress + 1 /\ poolPhase' = "PinBots"
           \/ UNCHANGED tierInProgress /\ poolPhase' = "Done"
    BY <1>2, <1>4 DEF PhaseLogoutWave, Closing
  <2>2. tierInProgress \in Tiers /\ TierCount \in Nat
    BY <1>1, WorldAssumption DEF Typed, JobShape
  <2>3. (poolPhase' = "Done") => tierInProgress >= 2
    BY <2>1 DEF Typed, JobShape, Timely
  <2>4. (Quiet' => Quiet) /\ (Settled' => Settled)
    BY <1>1, <2>1, <2>2, <2>3 DEF Quiet, Settled, FirstTier, Tiers
  <2>5. poolPhase' = "Done" => Closing' /\ ~(Underway /\ ~Closing)
    BY <2>1 DEF Closing
  <2> QED
    BY <2>1, <2>4, <2>5, WrittenKept
<1> QED
  BY <1>1, <1>3, <1>4, TickKinds, WrittenPin, WrittenCreate

LEMMA WrittenWorker ==
    ASSUME Typed, Typed', Written, WorkerStep
    PROVE  Written'
<1> PICK w \in writes : RunWrite(w)
  BY DEF WorkerStep
<1>1. /\ UNCHANGED <<poolVars, Underway, FirstTier, Quiet, Settled, Closing>>
      /\ table' = Executed(w) /\ writes' = writes \ {w}
  BY DEF WorkerStep, RunWrite, poolVars, Underway, FirstTier, Quiet, Settled, Closing, PoolBusy
<1>2. w.op \in {"clear", "teams", "replace"}
  BY WriteOps DEF Typed, PoolTypes
<1>3. PinnedOnce'
  <2>1. Distinct(Executed(w))
    BY <1>2, ExecutedTable, EmptyTable DEF Typed, Written, PinnedOnce, Distinct
  <2> QED
    BY <1>1, <2>1 DEF poolVars, Written, PinnedOnce, Distinct
<1>4. RowsNew' /\ QuietWrites'
  BY <1>1 DEF poolVars, Written, RowsNew, QuietWrites, Agrees
<1>5. Settles'
  <2> SUFFICES ASSUME Settled, NoReplace'
               PROVE  /\ DOMAIN table' = DOMAIN rows
                      /\ \A x \in DOMAIN rows :
                          /\ table'[x].bot = rows[x].bot
                          /\ \/ table'[x].team = rows[x].team
                             \/ /\ table'[x].team = Unteamed
                                /\ \E v \in writes' : v.op = "teams" /\ v.at = x
    BY <1>1 DEF Settles, poolVars
  <2>1. /\ w.op # "clear" /\ (w.op = "replace" => w.rows = rows)
        /\ w.op = "teams" => Agrees(w, rows)
    BY DEF Written, QuietWrites, Settled
  <2>2. CASE w.op = "replace"
    <3>1. table' = rows
      BY <1>1, <2>1, <2>2, ExecutedTable DEF Typed, Written, PinnedOnce
    <3> QED
      BY <3>1
  <2>3. CASE w.op = "teams"
    <3>1. NoReplace
      BY <1>1, <2>3 DEF NoReplace
    <3>2. /\ DOMAIN table = DOMAIN rows
          /\ \A x \in DOMAIN rows :
               /\ table[x].bot = rows[x].bot
               /\ \/ table[x].team = rows[x].team
                  \/ /\ table[x].team = Unteamed
                     /\ \E v \in writes : v.op = "teams" /\ v.at = x
      BY <3>1 DEF Written, Settles
    <3>3. /\ DOMAIN table' = DOMAIN table
          /\ \A x \in DOMAIN table :
                /\ table'[x].bot = table[x].bot
                /\ table'[x].team = IF x = w.at THEN w.team ELSE table[x].team
      BY <1>1, <2>3, ExecutedTable DEF Typed
    <3>4. ASSUME NEW x \in DOMAIN rows
          PROVE  \/ table'[x].team = rows[x].team
                 \/ /\ table'[x].team = Unteamed
                    /\ \E v \in writes' : v.op = "teams" /\ v.at = x
      <4>1. CASE x = w.at
        BY <2>1, <2>3, <3>2, <3>3, <4>1 DEF Agrees
      <4>2. CASE x # w.at
        <5>1. \A v \in writes : v.at = x => v \in writes'
          BY <1>1, <4>2
        <5> QED
          BY <3>2, <3>3, <4>2, <5>1
      <4> QED
        BY <4>1, <4>2
    <3> QED
      BY <3>2, <3>3, <3>4
  <2> QED
    BY <1>2, <2>1, <2>2, <2>3
<1> QED
  BY <1>3, <1>4, <1>5 DEF Written

LEMMA WrittenStep ==
    Timely => (Typed /\ Typed' /\ WritesAge /\ Written /\ [Next]_vars => Written')
<1> SUFFICES ASSUME Timely, Typed, Typed', WritesAge, Written, [Next]_vars
             PROVE  Written'
  OBVIOUS
<1>1. CASE StartPoolInit
  <2>1. FirstTier' /\ DOMAIN rows' = {} /\ rows' = NoRows /\ UNCHANGED table
    BY <1>1, EmptyTable DEF StartPoolInit, FirstTier
  <2>2. PinnedOnce'
    BY <2>1, EmptyTable DEF Written, PinnedOnce, Distinct
  <2> QED
    BY <2>1, <2>2 DEF Written, RowsNew, QuietWrites, Settles, Quiet, Settled
<1>2. CASE Crash
  <2>1. ~Underway' /\ rows' = NoRows /\ UNCHANGED table
    BY <1>2 DEF Crash, WorldCrash, Underway, PoolBusy, Busy
  <2>2. PinnedOnce'
    BY <2>1, EmptyTable DEF Written, PinnedOnce, Distinct
  <2> QED
    BY <2>1, <2>2 DEF Written, RowsNew, QuietWrites, Settles, Quiet, Settled
<1>3. CASE Bystanding
  <2>1. UNCHANGED <<table, rows, tierInProgress, Underway, Quiet, Settled, Closing>>
    BY <1>3 DEF Bystanding, poolVars, Underway, FirstTier, Quiet, Settled, Closing, PoolBusy
  <2>2. AllAlike(writes', writes)
    BY <1>3, AgedAlike DEF Bystanding, Typed
  <2> QED
    BY <2>1, <2>2, WrittenKept
<1> QED
  BY <1>1, <1>2, <1>3, StepKinds, WrittenTick, WrittenWorker DEF Typed

LEMMA WrittenHolds ==
    ASSUME Timely
    PROVE  Spec => []Written
<1>1. Init => Written
  <2> SUFFICES ASSUME Init
               PROVE  Written
    OBVIOUS
  <2>1. rows = NoRows /\ table = NoRows /\ ~Underway
    BY DEF Init, WorldInit, PoolReset, Underway, PoolBusy, Busy
  <2> QED
    BY <2>1, EmptyTable DEF Written, PinnedOnce, RowsNew, QuietWrites, Settles, Quiet, Settled
<1>2. Typed /\ Typed' /\ WritesAge /\ Written /\ [Next]_vars => Written'
  BY WrittenStep
<1> QED
  BY <1>1, <1>2, PoolIsTyped, AgeHolds, PTL DEF Spec

\* No character is pinned twice, in memory or in the table, although PinBots reads a
\* table that lags behind the job's own writes and those of earlier runs.
THEOREM PinnedOnceHolds ==
    ASSUME Timely
    PROVE  Spec => []PinnedOnce
BY WrittenHolds, PTL DEF Written

-----------------------------------------------------------------------------
(* Team ids: what a row or _teamIds points to is a team of the row, and the   *)
(* slots of a lineup, and only they, share an id.                             *)

Points(id, t, b) ==
    /\ id < nextTeam
    /\ id \in DOMAIN teams => teams[id].tier = t /\ b \in teams[id].members

RowsPoint ==
    \A x \in DOMAIN rows, s \in Brackets : Points(rows[x].team[s], x[1], rows[x].bot)

IdsPoint ==
    poolPhase = "CreateTeams" =>
        \A i \in Slots, s \in Brackets :
            /\ Points(teamIds[i][s], tierInProgress, TierBot(i))
            /\ s >= bracketStep => teamIds[i][s] = 0

\* f gives every lineup of the bracket an id of its own.
LineupsFit(f, s) ==
    \A k \in 1 .. TeamCount[s] :
        LET id == f[Lineups[s][k][1]] IN
        id # 0 /\ {i \in Slots : f[i] = id} = Range(Lineups[s][k])

TierFits(rs, t) == \A s \in Brackets : LineupsFit([i \in Slots |-> rs[<<t, i>>].team[s]], s)

IdsFit ==
    poolPhase = "CreateTeams" =>
        \A s \in Brackets : s < bracketStep => LineupsFit([i \in Slots |-> teamIds[i][s]], s)

RowsFit ==
    Underway => \A t \in Tiers :
        t < tierInProgress \/ (t = tierInProgress /\ Closing) => TierFits(rows, t)

Pointed == RowsPoint /\ IdsPoint /\ IdsFit /\ RowsFit

\* Ids below the counter never come to mean another team.
TeamsGrow ==
    /\ nextTeam' >= nextTeam
    /\ \A id \in DOMAIN teams' : id < nextTeam =>
          /\ id \in DOMAIN teams
          /\ teams'[id].tier = teams[id].tier /\ teams'[id].members = teams[id].members

LEMMA CreateGrows ==
    ASSUME Typed, PhaseCreateTeams
    PROVE  TeamsGrow
<1>1. nextTeam \in Nat /\ bracketStep \in Brackets
  BY CreateEffect DEF Typed, PoolTypes
<1>2. \A k \in Made(bracketStep) : k >= 1 /\ k \in Int
  BY <1>1, CreateEffect, LineupTypes
<1>3. ASSUME NEW id \in DOMAIN teams', id < nextTeam
      PROVE  id \in DOMAIN teams /\ teams'[id] = teams[id]
  BY <1>1, <1>2, <1>3, CreateEffect
<1> QED
  BY <1>3, CreateTypes DEF TeamsGrow

LEMMA GrowStep ==
    ASSUME Typed, [Next]_vars
    PROVE  TeamsGrow
<1>1. nextTeam \in Nat
  BY DEF Typed, PoolTypes
<1>2. CASE PoolTick
  <2>1. CASE UNCHANGED <<teams, nextTeam>>
    BY <1>1, <2>1 DEF TeamsGrow
  <2>2. CASE PhaseCreateTeams
    BY <2>2, CreateGrows
  <2> QED
    BY <1>2, <2>1, <2>2, TickKinds
       DEF PinTick, WaitTick, LoggedInTick, PreparedTick, Untouched, PhaseLogoutWave
<1>3. CASE StartPoolInit
  BY <1>1, <1>3, EmptyTable DEF StartPoolInit, DisbandPoolTeams, TeamsGrow
<1>4. CASE WorkerStep \/ Crash
  BY <1>1, <1>4 DEF WorkerStep, RunWrite, Crash, WorldCrash, TeamsGrow
<1>5. CASE Bystanding
  BY <1>1, <1>5 DEF Bystanding, TeamsKept, TeamsGrow
<1> QED
  BY <1>2, <1>3, <1>4, <1>5, StepKinds DEF Typed

LEMMA PointsKept ==
    ASSUME Typed, Typed', TeamsGrow, NEW id \in Nat, NEW t, NEW b, Points(id, t, b)
    PROVE  Points(id, t, b)'
BY DEF Typed, PoolTypes, TeamsGrow, Points

LEMMA RowsPointKept ==
    ASSUME Typed, Typed', TeamsGrow, RowsPoint, rows' = rows
    PROVE  RowsPoint'
<1> SUFFICES ASSUME NEW x \in DOMAIN rows, NEW s \in Brackets
             PROVE  Points(rows[x].team[s], x[1], rows[x].bot)'
  BY DEF RowsPoint
<1>1. rows[x].team[s] \in Nat
  BY DEF Typed, PoolTypes, IsTable, IsRows, Row
<1>2. Points(rows[x].team[s], x[1], rows[x].bot)
  BY DEF RowsPoint
<1>3. \A id \in Nat : \A t, b : Points(id, t, b) => Points(id, t, b)'
  BY PointsKept
<1> QED
  BY <1>1, <1>2, <1>3

\* After a CreateTeams tick the ids of the tier still point to teams of their rows.
LEMMA CreatePoints ==
    ASSUME Typed, Typed', Pointed, PhaseCreateTeams, NEW i \in Slots, NEW s \in Brackets
    PROVE  /\ teamIds'[i][s] < nextTeam'
           /\ teamIds'[i][s] \in DOMAIN teams' =>
                /\ teams'[teamIds'[i][s]].tier = tierInProgress
                /\ TierBot(i) \in teams'[teamIds'[i][s]].members
           /\ s > bracketStep => teamIds'[i][s] = 0
<1> DEFINE c == bracketStep
<1>1. c \in Brackets /\ c \in Int /\ s \in Int
  BY CreateEffect DEF Brackets
<1>2. teamIds \in [Slots -> [Brackets -> Nat]] /\ nextTeam \in Nat \ {0}
  BY DEF Typed, PoolTypes
<1>3. Points(teamIds[i][s], tierInProgress, TierBot(i)) /\ (s >= c => teamIds[i][s] = 0)
  BY CreateKinds DEF Pointed, IdsPoint
<1>4. CASE teamIds'[i][s] = teamIds[i][s]
  <2>1. TeamsGrow
    BY CreateGrows
  <2> QED
    BY <1>1, <1>2, <1>3, <1>4, <2>1, PointsKept DEF Points, TeamsGrow, Typed, PoolTypes
<1>5. CASE \E k \in Made(c) :
              /\ Filled(c, k) /\ i \in Range(Lineups[c][k])
              /\ teamIds'[i] = [teamIds[i] EXCEPT ![c] = nextTeam + k - 1]
  <2> PICK k \in Made(c) :
              /\ Filled(c, k) /\ i \in Range(Lineups[c][k])
              /\ teamIds'[i] = [teamIds[i] EXCEPT ![c] = nextTeam + k - 1]
    BY <1>5
  <2>1. CASE s # c
    BY <1>2, <1>4, <2>1
  <2>2. CASE s = c
    <3>1. teamIds'[i][s] = nextTeam + k - 1
      BY <1>1, <1>2, <2>2
    <3>2. /\ k \in 1 .. TeamCount[c] /\ TeamCount[c] \in Nat
          /\ nextTeam + k - 1 \in DOMAIN teams'
          /\ teams'[nextTeam + k - 1] = TeamMade(c, k)
      BY <1>1, CreateEffect, LineupTypes
    <3>3. PICK j \in 1 .. Len(Lineups[c][k]) : i = Lineups[c][k][j]
      <4>1. Lineups[c][k] \in Seq(Slots)
        BY <1>1, <3>2, LineupTypes
      <4> QED
        BY <4>1 DEF Range
    <3>4. TierBot(i) \in TeamMade(c, k).members
      <4>1. Named(c, k) = {}
        BY FreshNames, CreateKinds
      <4>2. TeamMade(c, k).members = Joined(c, k) \cup {Member(c, k, 1)}
        BY <4>1 DEF TeamMade
      <4>3. CASE j = 1
        BY <3>3, <4>2, <4>3 DEF Member
      <4>4. CASE j # 1
        <5>1. j \in 2 .. Len(Lineups[c][k])
          BY <1>1, <3>2, <3>3, <4>4, LineupTypes
        <5>2. \A h \in 2 .. Len(Lineups[c][k]) : ~InOtherTeam(Member(c, k, h), c, k)
          BY DEF Filled
        <5>3. \A h \in 2 .. j : h \in 2 .. Len(Lineups[c][k])
          BY <1>1, <3>2, <5>1, LineupTypes
        <5>4. Member(c, k, j) \in Joined(c, k)
          BY <5>1, <5>2, <5>3 DEF Joined
        <5> QED
          BY <3>3, <4>2, <5>4 DEF Member
      <4> QED
        BY <4>3, <4>4
    <3>5. TeamMade(c, k).tier = tierInProgress
      BY DEF TeamMade
    <3>6. nextTeam + k - 1 < nextTeam'
      BY <1>2, <3>2, CreateKinds
    <3> QED
      BY <1>1, <2>2, <3>1, <3>2, <3>4, <3>5, <3>6
  <2> QED
    BY <2>1, <2>2
<1> QED
  BY <1>4, <1>5, CreateEffect

\* A bracket made to the end: its lineups have ids of their own, nobody else has
\* them, and the ids of the other brackets are untouched.
LEMMA CreateFits ==
    ASSUME Typed, Typed', Pointed, PhaseCreateTeams, AllMade(bracketStep),
           NEW s \in Brackets, s <= bracketStep
    PROVE  LineupsFit([i \in Slots |-> teamIds'[i][s]], s)
<1> DEFINE c == bracketStep
           f == [i \in Slots |-> teamIds'[i][s]]
           g == [i \in Slots |-> teamIds[i][s]]
<1>1. c \in Brackets /\ c \in Int /\ s \in Int /\ poolPhase = "CreateTeams"
  BY CreateEffect, CreateKinds DEF Brackets
<1>2. teamIds \in [Slots -> [Brackets -> Nat]] /\ nextTeam \in Nat \ {0}
  BY DEF Typed, PoolTypes
<1>3. CASE s # c
  <2>1. \A i \in Slots : teamIds'[i][s] = teamIds[i][s]
    BY <1>1, <1>2, <1>3, CreateEffect
  <2>2. f = g
    BY <2>1
  <2>3. LineupsFit(g, s)
    BY <1>1, <1>3 DEF Pointed, IdsFit
  <2> QED
    BY <2>2, <2>3
<1>4. CASE s = c
  <2>1. TeamCount[c] \in Nat /\ \A k \in 1 .. TeamCount[c] : CanCreate(c, k) /\ Filled(c, k)
    BY <1>1, LineupTypes DEF AllMade
  <2>2. Made(c) = 1 .. TeamCount[c]
    BY <2>1 DEF Made
  <2>3. ASSUME NEW i \in Slots, NEW k \in 1 .. TeamCount[c], i \in Range(Lineups[c][k])
        PROVE  f[i] = nextTeam + k - 1
    <3>1. PICK l \in Made(c) : /\ i \in Range(Lineups[c][l])
                               /\ teamIds'[i] = [teamIds[i] EXCEPT ![c] = nextTeam + l - 1]
      BY <2>1, <2>2, <2>3, CreateEffect
    <3>2. l = k
      BY <1>1, <2>2, <2>3, <3>1, LineupTypes
    <3>3. teamIds'[i][c] = nextTeam + k - 1
      BY <1>1, <1>2, <3>1, <3>2
    <3> QED
      BY <1>4, <3>3
  <2>4. ASSUME NEW i \in Slots
        PROVE  f[i] = 0 \/ \E k \in 1 .. TeamCount[c] : i \in Range(Lineups[c][k])
    <3>1. CASE teamIds'[i] = teamIds[i]
      <4>1. teamIds[i][c] = 0
        BY <1>1 DEF Pointed, IdsPoint
      <4> QED
        BY <1>4, <3>1, <4>1
    <3>2. CASE teamIds'[i] # teamIds[i]
      BY <2>2, <3>2, CreateEffect
    <3> QED
      BY <3>1, <3>2
  <2> SUFFICES ASSUME NEW k \in 1 .. TeamCount[c]
               PROVE  /\ f[Lineups[c][k][1]] # 0
                      /\ {i \in Slots : f[i] = f[Lineups[c][k][1]]} = Range(Lineups[c][k])
    BY <1>4 DEF LineupsFit
  <2>5. /\ Lineups[c][k][1] \in Slots /\ Lineups[c][k][1] \in Range(Lineups[c][k])
        /\ Range(Lineups[c][k]) \subseteq Slots
    BY <1>1, LineupTypes
  <2>6. f[Lineups[c][k][1]] = nextTeam + k - 1
    BY <2>3, <2>5
  <2>7. ASSUME NEW i \in Slots, f[i] = nextTeam + k - 1
        PROVE  i \in Range(Lineups[c][k])
    <3>1. f[i] # 0
      BY <1>2, <2>1, <2>7
    <3>2. PICK l \in 1 .. TeamCount[c] : i \in Range(Lineups[c][l])
      BY <2>4, <3>1
    <3>3. f[i] = nextTeam + l - 1
      BY <2>3, <3>2
    <3>4. l = k
      BY <1>2, <2>1, <2>7, <3>3
    <3> QED
      BY <3>2, <3>4
  <2> HIDE DEF f
  <2>8. {i \in Slots : f[i] = nextTeam + k - 1} = Range(Lineups[c][k])
    BY <2>3, <2>5, <2>7
  <2>9. nextTeam + k - 1 # 0
    BY <1>2, <2>1
  <2> QED
    BY <2>6, <2>8, <2>9
<1> QED
  BY <1>3, <1>4

LEMMA PointedCreate ==
    ASSUME Typed, Typed', Pointed, PhaseCreateTeams
    PROVE  Pointed'
<1>1. /\ poolPhase = "CreateTeams" /\ PoolBusy /\ Underway
      /\ UNCHANGED <<tierInProgress, table>> /\ tierInProgress \in Tiers
      /\ CreateFails \/ CreateGoesOn \/ CreateEnds
  BY CreateKinds DEF Typed, JobShape, PoolBusy, Busy, Underway
<1>2. bracketStep \in Int /\ BracketCount \in Nat /\ \A s \in Brackets : s \in Int /\ s < BracketCount
  BY WorldAssumption DEF Typed, PoolTypes, Brackets
<1>3. CASE CreateFails
  <2>1. RowsPoint'
    BY <1>3, CreateGrows, RowsPointKept DEF CreateFails, Pointed
  <2>2. poolPhase' = "Failed" /\ ~Underway'
    BY <1>3 DEF CreateFails, Underway, PoolBusy, Busy
  <2> QED
    BY <2>1, <2>2 DEF Pointed, IdsPoint, IdsFit, RowsFit
<1>4. CASE CreateGoesOn
  <2>1. /\ poolPhase' = "CreateTeams" /\ rows' = rows /\ bracketStep' = bracketStep + 1
        /\ AllMade(bracketStep)
    BY <1>1, <1>4 DEF CreateGoesOn
  <2>2. RowsPoint'
    BY <2>1, CreateGrows, RowsPointKept DEF Pointed
  <2>3. \A i \in Slots : TierBot(i)' = TierBot(i)
    BY <1>1, <2>1 DEF TierBot, TierRow
  <2>4. IdsPoint'
    <3> SUFFICES ASSUME NEW i \in Slots, NEW s \in Brackets
                 PROVE  /\ Points(teamIds[i][s], tierInProgress, TierBot(i))'
                        /\ s >= bracketStep' => teamIds'[i][s] = 0
      BY DEF IdsPoint
    <3>1. s > bracketStep => teamIds'[i][s] = 0
      BY CreatePoints
    <3>2. s >= bracketStep' => s > bracketStep
      BY <1>2, <2>1
    <3>3. Points(teamIds[i][s], tierInProgress, TierBot(i))'
      BY <1>1, <2>3, CreatePoints DEF Points
    <3> QED
      BY <3>1, <3>2, <3>3
  <2>5. IdsFit'
    <3> SUFFICES ASSUME NEW s \in Brackets, s < bracketStep'
                 PROVE  LineupsFit([i \in Slots |-> teamIds'[i][s]], s)
      BY DEF IdsFit, LineupsFit
    <3> QED
      BY <1>2, <2>1, CreateFits
  <2>6. RowsFit'
    BY <1>1, <2>1 DEF Pointed, RowsFit, TierFits, LineupsFit, Closing, Underway, PoolBusy
  <2> QED
    BY <2>2, <2>4, <2>5, <2>6 DEF Pointed
<1>5. CASE CreateEnds
  <2>1. /\ poolPhase' = "LogoutWave" /\ AllMade(bracketStep) /\ bracketStep + 1 >= BracketCount
        /\ Closing' /\ ~Closing
    BY <1>1, <1>5 DEF CreateEnds, Closing
  <2>2. /\ DOMAIN rows' = DOMAIN rows
        /\ \A x \in DOMAIN rows :
              /\ rows'[x].bot = rows[x].bot
              /\ rows'[x].team = IF x[1] = tierInProgress THEN teamIds'[x[2]] ELSE rows[x].team
    BY <1>5, RecordedRows
  <2>3. DOMAIN rows = {x \in Tiers \X Slots : x[1] <= tierInProgress}
    BY <1>1 DEF Typed, JobShape, PinnedSlots, Tiers
  <2>4. RowsPoint'
    <3> SUFFICES ASSUME NEW x \in DOMAIN rows, NEW s \in Brackets
                 PROVE  Points(rows[x].team[s], x[1], rows[x].bot)'
      BY <2>2 DEF RowsPoint
    <3>1. x[2] \in Slots /\ x = <<x[1], x[2]>>
      BY <2>3
    <3>2. CASE x[1] = tierInProgress
      <4>1. TierBot(x[2]) = rows'[x].bot
        BY <2>2, <3>1, <3>2 DEF TierBot, TierRow
      <4>2. rows'[x].team[s] = teamIds'[x[2]][s]
        BY <2>2, <3>2
      <4> QED
        BY <3>1, <3>2, <4>1, <4>2, CreatePoints DEF Points
    <3>3. CASE x[1] # tierInProgress
      <4>1. rows[x].team[s] \in Nat
        BY DEF Typed, PoolTypes, IsTable, IsRows, Row
      <4>2. Points(rows[x].team[s], x[1], rows[x].bot)
        BY DEF Pointed, RowsPoint
      <4>3. \A id \in Nat : \A t, b : Points(id, t, b) => Points(id, t, b)'
        BY PointsKept, CreateGrows
      <4>4. rows'[x].team[s] = rows[x].team[s] /\ rows'[x].bot = rows[x].bot
        BY <2>2, <3>3
      <4>5. Points(rows[x].team[s], x[1], rows[x].bot) =>
              /\ rows[x].team[s] < nextTeam'
              /\ rows[x].team[s] \in DOMAIN teams' =>
                   /\ teams'[rows[x].team[s]].tier = x[1]
                   /\ rows[x].bot \in teams'[rows[x].team[s]].members
        BY <4>1, <4>3 DEF Points
      <4> QED
        BY <4>2, <4>4, <4>5 DEF Points
    <3> QED
      BY <3>2, <3>3
  <2>5. IdsPoint' /\ IdsFit'
    BY <2>1 DEF IdsPoint, IdsFit
  <2>6. RowsFit'
    <3> SUFFICES ASSUME NEW t \in Tiers, t <= tierInProgress
                 PROVE  TierFits(rows', t)
      <4>1. \A t \in Tiers : t \in Int
        BY DEF Tiers
      <4>2. tierInProgress \in Int
        BY <1>1, <4>1
      <4> QED
        BY <1>1, <4>1, <4>2 DEF RowsFit
    <3>1. \A i \in Slots : <<t, i>> \in DOMAIN rows
      BY <2>3
    <3>2. CASE t = tierInProgress
      <4> SUFFICES ASSUME NEW s \in Brackets
                   PROVE  LineupsFit([i \in Slots |-> rows'[<<t, i>>].team[s]], s)
        BY DEF TierFits
      <4>1. \A i \in Slots : rows'[<<t, i>>].team[s] = teamIds'[i][s]
        BY <2>2, <3>1, <3>2
      <4>2. [i \in Slots |-> rows'[<<t, i>>].team[s]] = [i \in Slots |-> teamIds'[i][s]]
        BY <4>1
      <4>3. s <= bracketStep
        BY <1>2, <2>1
      <4> QED
        BY <2>1, <4>2, <4>3, CreateFits
    <3>3. CASE t # tierInProgress
      <4> SUFFICES ASSUME NEW s \in Brackets
                   PROVE  LineupsFit([i \in Slots |-> rows'[<<t, i>>].team[s]], s)
        BY DEF TierFits
      <4>1. TierFits(rows, t)
        BY <1>1, <3>3 DEF Pointed, RowsFit, Tiers
      <4>2. \A i \in Slots : rows'[<<t, i>>].team[s] = rows[<<t, i>>].team[s]
        BY <2>2, <3>1, <3>3
      <4>3. [i \in Slots |-> rows'[<<t, i>>].team[s]] = [i \in Slots |-> rows[<<t, i>>].team[s]]
        BY <4>2
      <4> QED
        BY <4>1, <4>3 DEF TierFits
    <3> QED
      BY <3>2, <3>3
  <2> QED
    BY <2>4, <2>5, <2>6 DEF Pointed
<1> QED
  BY <1>1, <1>3, <1>4, <1>5

LEMMA PointedPin ==
    ASSUME Typed, Typed', Pointed, PinTick
    PROVE  Pointed'
<1> PICK p \in Picks : rows' = Merge(rows, NewRows(p))
  BY DEF PinTick
<1>1. /\ poolPhase = "PinBots" /\ poolPhase' = "LoginWave" /\ PoolBusy /\ Underway
      /\ UNCHANGED <<tierInProgress, teams, nextTeam>> /\ tierInProgress \in Tiers
  BY DEF PinTick, Typed, JobShape, PoolBusy, Busy, Underway
<1>2. DOMAIN rows' = {x \in Tiers \X Slots : x[1] <= tierInProgress}
  BY <1>1, PinRows
<1>3. \A x \in DOMAIN rows' :
            /\ x[1] < tierInProgress => x \in DOMAIN rows /\ rows'[x] = rows[x]
            /\ x[1] = tierInProgress =>
                  x \notin DOMAIN rows /\ rows'[x] = [bot |-> p[x[2]], team |-> Unteamed]
  BY <1>1, PinRows
<1>4. RowsPoint'
  <2> SUFFICES ASSUME NEW x \in DOMAIN rows', NEW s \in Brackets
               PROVE  Points(rows[x].team[s], x[1], rows[x].bot)'
    BY DEF RowsPoint
  <2>1. x \in Tiers \X Slots /\ x[1] <= tierInProgress
    BY <1>2
  <2>2. x[1] \in Int /\ tierInProgress \in Int
    BY <1>1, <2>1 DEF Tiers
  <2>3. CASE x[1] < tierInProgress
    <3>1. x \in DOMAIN rows /\ rows'[x] = rows[x]
      BY <1>3, <2>3
    <3>2. Points(rows[x].team[s], x[1], rows[x].bot)
      BY <3>1 DEF Pointed, RowsPoint
    <3> QED
      BY <1>1, <3>1, <3>2 DEF Points
  <2>4. CASE x[1] = tierInProgress
    <3>1. rows'[x] = [bot |-> p[x[2]], team |-> Unteamed]
      BY <1>3, <2>4
    <3>2. rows'[x].team[s] = 0
      BY <3>1 DEF Unteamed
    <3>3. nextTeam \in Nat \ {0} /\ 0 \notin DOMAIN teams
      BY DEF Typed, PoolTypes
    <3> QED
      BY <1>1, <3>2, <3>3 DEF Points
  <2> QED
    BY <2>1, <2>2, <2>3, <2>4
<1>5. IdsPoint' /\ IdsFit'
  BY <1>1 DEF IdsPoint, IdsFit
<1>6. RowsFit'
  <2>1. ~Closing /\ ~Closing'
    BY <1>1 DEF Closing
  <2> SUFFICES ASSUME NEW t \in Tiers, t < tierInProgress
               PROVE  TierFits(rows', t)
    BY <1>1, <2>1 DEF RowsFit
  <2> SUFFICES ASSUME NEW s \in Brackets
               PROVE  LineupsFit([i \in Slots |-> rows'[<<t, i>>].team[s]], s)
    BY DEF TierFits
  <2>2. TierFits(rows, t)
    BY <1>1 DEF Pointed, RowsFit
  <2>3. \A i \in Slots : <<t, i>> \in DOMAIN rows'
    BY <1>1, <1>2 DEF Tiers
  <2>4. \A i \in Slots : rows'[<<t, i>>].team[s] = rows[<<t, i>>].team[s]
    BY <1>3, <2>3
  <2>5. [i \in Slots |-> rows'[<<t, i>>].team[s]] = [i \in Slots |-> rows[<<t, i>>].team[s]]
    BY <2>4
  <2> QED
    BY <2>2, <2>5 DEF TierFits
<1> QED
  BY <1>4, <1>5, <1>6 DEF Pointed

\* A step that leaves the rows, or has no job to keep them for.
LEMMA PointedKept ==
    ASSUME Typed, Typed', TeamsGrow, Pointed, rows' = rows,
           \/ ~Underway'
           \/ /\ poolPhase' # "CreateTeams" \/ UNCHANGED <<poolPhase, bracketStep, teamIds>>
              /\ Underway
              /\ \/ UNCHANGED tierInProgress /\ (Closing' => Closing)
                 \/ tierInProgress' = tierInProgress + 1 /\ Closing /\ ~Closing'
    PROVE  Pointed'
<1>1. RowsPoint'
  BY RowsPointKept DEF Pointed
<1>2. tierInProgress \in Int /\ \A t \in Tiers : t \in Int
  BY WorldAssumption DEF Typed, PoolTypes, Tiers
<1>3. RowsFit'
  <2> SUFFICES ASSUME Underway', NEW t \in Tiers,
                      t < tierInProgress' \/ (t = tierInProgress' /\ Closing')
               PROVE  TierFits(rows, t)
    BY DEF RowsFit
  <2> QED
    BY <1>2 DEF Pointed, RowsFit
<1>4. CASE poolPhase' = "CreateTeams"
  <2>1. UNCHANGED <<poolPhase, bracketStep, teamIds, tierInProgress>>
    BY <1>4 DEF Underway, PoolBusy, Busy, Closing
  <2>2. IdsPoint'
    <3> SUFFICES ASSUME NEW i \in Slots, NEW s \in Brackets
                 PROVE  /\ Points(teamIds[i][s], tierInProgress, TierBot(i))'
                        /\ s >= bracketStep' => teamIds'[i][s] = 0
      BY DEF IdsPoint
    <3>1. Points(teamIds[i][s], tierInProgress, TierBot(i))
          /\ (s >= bracketStep => teamIds[i][s] = 0)
      BY <1>4, <2>1 DEF Pointed, IdsPoint
    <3>2. teamIds[i][s] \in Nat /\ TierBot(i)' = TierBot(i)
      BY <2>1 DEF Typed, PoolTypes, TierBot, TierRow
    <3>3. \A id \in Nat : \A t, b : Points(id, t, b) => Points(id, t, b)'
      BY PointsKept
    <3>4. Points(teamIds[i][s], tierInProgress, TierBot(i)) =>
            /\ teamIds[i][s] < nextTeam'
            /\ teamIds[i][s] \in DOMAIN teams' =>
                 /\ teams'[teamIds[i][s]].tier = tierInProgress
                 /\ TierBot(i) \in teams'[teamIds[i][s]].members
      BY <3>2, <3>3 DEF Points
    <3> QED
      BY <2>1, <3>1, <3>2, <3>4 DEF Points
  <2>3. IdsFit'
    BY <1>4, <2>1 DEF Pointed, IdsFit, LineupsFit
  <2> QED
    BY <1>1, <1>3, <2>2, <2>3 DEF Pointed
<1>5. CASE poolPhase' # "CreateTeams"
  BY <1>1, <1>3, <1>5 DEF Pointed, IdsPoint, IdsFit
<1> QED
  BY <1>4, <1>5

LEMMA PointedPrepared ==
    ASSUME Typed, Typed', TeamsGrow, Pointed, PreparedTick
    PROVE  Pointed'
<1>1. /\ poolPhase = "PrepareBots" /\ poolPhase' = "CreateTeams" /\ rows' = rows
      /\ bracketStep' = 0 /\ teamIds' = NoTeams /\ UNCHANGED tierInProgress
  BY DEF PreparedTick, Untouched
<1>2. RowsPoint'
  BY <1>1, RowsPointKept DEF Pointed
<1>3. RowsFit'
  BY <1>1 DEF Pointed, RowsFit, TierFits, LineupsFit, Closing, Underway, PoolBusy, Busy
<1>4. \A i \in Slots, s \in Brackets : teamIds'[i][s] = 0
  BY <1>1 DEF NoTeams
<1>5. nextTeam' \in Nat \ {0} /\ 0 \notin DOMAIN teams'
  BY DEF Typed, PoolTypes
<1>6. IdsPoint'
  BY <1>1, <1>4, <1>5 DEF IdsPoint, Points
<1>7. IdsFit'
  BY <1>1 DEF IdsFit, Brackets
<1> QED
  BY <1>2, <1>3, <1>6, <1>7 DEF Pointed

LEMMA PointedStep == Typed /\ Typed' /\ Pointed /\ [Next]_vars => Pointed'
<1> SUFFICES ASSUME Typed, Typed', Pointed, [Next]_vars
             PROVE  Pointed'
  OBVIOUS
<1>1. TeamsGrow
  BY GrowStep
<1>2. CASE PoolTick
  <2>1. CASE WaitTick \/ LoggedInTick
    <3>1. /\ rows' = rows /\ UNCHANGED <<tierInProgress, bracketStep, teamIds>>
          /\ poolPhase \in Busy /\ Underway /\ ~Closing'
          /\ poolPhase' \in {"Failed", "LoginWave", "PrepareBots"}
      BY <2>1 DEF WaitTick, LoggedInTick, Untouched, Busy, Underway, PoolBusy, Closing
    <3> QED
      BY <1>1, <3>1, PointedKept
  <2>2. CASE PhaseLogoutWave
    <3>1. /\ rows' = rows /\ Underway /\ Closing
          /\ \/ tierInProgress' = tierInProgress + 1 /\ poolPhase' = "PinBots"
             \/ UNCHANGED tierInProgress /\ poolPhase' = "Done"
      BY <2>2 DEF PhaseLogoutWave, Underway, PoolBusy, Busy, Closing
    <3>2. (poolPhase' = "PinBots" => ~Closing') /\ (poolPhase' = "Done" => Closing')
      BY DEF Closing
    <3> QED
      BY <1>1, <3>1, <3>2, PointedKept
  <2> QED
    BY <1>1, <1>2, <2>1, <2>2, TickKinds, PointedPin, PointedPrepared, PointedCreate
<1>3. CASE StartPoolInit
  <2>1. /\ DOMAIN rows' = {} /\ tierInProgress' = 1 /\ poolPhase' = "PinBots"
    BY <1>3, EmptyTable DEF StartPoolInit
  <2>2. RowsFit'
    BY <2>1 DEF RowsFit, Closing, Tiers
  <2> QED
    BY <2>1, <2>2 DEF Pointed, RowsPoint, IdsPoint, IdsFit
<1>4. CASE Crash
  <2>1. DOMAIN rows' = {} /\ poolPhase' = "Idle" /\ ~Underway'
    BY <1>4, EmptyTable DEF Crash, Underway, PoolBusy, Busy
  <2> QED
    BY <2>1 DEF Pointed, RowsPoint, IdsPoint, IdsFit, RowsFit
<1>5. CASE WorkerStep \/ Bystanding
  <2>1. UNCHANGED <<poolPhase, tierInProgress, bracketStep, rows, teamIds, Underway, Closing>>
    BY <1>5 DEF WorkerStep, Bystanding, poolVars, Underway, Closing, PoolBusy
  <2> QED
    BY <1>1, <2>1, PointedKept
<1> QED
  BY <1>2, <1>3, <1>4, <1>5, StepKinds DEF Typed

LEMMA PointedHolds == Spec => []Pointed
<1>1. Init => Pointed
  BY EmptyTable
     DEF Init, PoolReset, Pointed, RowsPoint, IdsPoint, IdsFit, RowsFit, Underway, PoolBusy, Busy
<1> QED
  BY <1>1, PointedStep, PoolIsTyped, PTL DEF Spec

\* A team that a row of the job points to is, if it still exists, a team of the row's
\* tier with the row's bot on it: no team of an earlier run is taken over.
THEOREM RowsMatchTeamsHolds == Spec => []RowsMatchTeams
<1>1. Pointed => RowsMatchTeams
  BY DEF Pointed, RowsPoint, Points, RowsMatchTeams
<1> QED
  BY <1>1, PointedHolds, PTL

-----------------------------------------------------------------------------
(* The finished pool. *)

\* The slots of the lineups are all the slots, so rows that fit are complete.
LEMMA FitIsComplete ==
    ASSUME NEW rs, DOMAIN rs = Tiers \X Slots, \A t \in Tiers : TierFits(rs, t)
    PROVE  Complete(rs)
<1> SUFFICES ASSUME NEW x \in Tiers \X Slots
             PROVE  \E s \in Brackets : rs[x].team[s] # 0
  BY DEF Complete
<1>1. x[1] \in Tiers /\ x[2] \in Slots /\ x = <<x[1], x[2]>>
  OBVIOUS
<1>2. PICK s \in Brackets : \E k \in 1 .. Len(Lineups[s]) : x[2] \in Range(Lineups[s][k])
  BY <1>1, LineupAssumption
<1>3. PICK k \in 1 .. TeamCount[s] : x[2] \in Range(Lineups[s][k])
  BY <1>2, LineupTypes
<1> DEFINE f == [i \in Slots |-> rs[<<x[1], i>>].team[s]]
<1>4. LineupsFit(f, s)
  BY <1>1 DEF TierFits
<1>5. f[Lineups[s][k][1]] # 0 /\ {i \in Slots : f[i] = f[Lineups[s][k][1]]} = Range(Lineups[s][k])
  BY <1>4 DEF LineupsFit
<1>6. f[x[2]] = f[Lineups[s][k][1]]
  BY <1>3, <1>5
<1>7. f[x[2]] = rs[x].team[s]
  BY <1>1
<1> QED
  BY <1>5, <1>6, <1>7

\* Once a finished job's writes have run, the table is the finished pool.
THEOREM DoneIsDurableHolds ==
    ASSUME Timely
    PROVE  Spec => []DoneIsDurable
<1>1. Typed /\ Written /\ Pointed => DoneIsDurable
  <2> SUFFICES ASSUME Typed, Written, Pointed, poolPhase = "Done", writes = {}
               PROVE  table = rows /\ Complete(table)
    BY DEF DoneIsDurable
  <2>1. Underway /\ Closing /\ tierInProgress = TierCount /\ TierCount >= 2 /\ TierCount \in Nat
    BY WorldAssumption DEF Underway, Closing, Timely, Typed, JobShape
  <2>2. Settled /\ NoReplace
    BY <2>1 DEF Settled, Quiet, FirstTier, NoReplace
  <2>3. DOMAIN table = DOMAIN rows
        /\ \A x \in DOMAIN rows : table[x].bot = rows[x].bot /\ table[x].team = rows[x].team
    BY <2>2 DEF Written, Settles
  <2>4. /\ table = [x \in DOMAIN table |-> table[x]] /\ rows = [x \in DOMAIN rows |-> rows[x]]
        /\ \A x \in DOMAIN rows : rows[x] \in Row
        /\ \A x \in DOMAIN table : table[x] \in Row
    BY DEF Typed, PoolTypes, IsTable, IsRows
  <2>5. \A x \in DOMAIN rows : table[x] = rows[x]
    BY <2>3, <2>4 DEF Row
  <2>6. table = rows
    BY <2>3, <2>4, <2>5
  <2>7. DOMAIN rows = Tiers \X Slots
    BY <2>1 DEF Typed, JobShape, PinnedSlots, Tiers
  <2>8. \A t \in Tiers : TierFits(rows, t)
    <3>1. \A t \in Tiers : t < tierInProgress \/ t = tierInProgress
      BY <2>1 DEF Tiers
    <3> QED
      BY <2>1, <3>1 DEF Pointed, RowsFit
  <2> QED
    BY <2>6, <2>7, <2>8, FitIsComplete
<1> QED
  BY <1>1, PoolIsTyped, WrittenHolds, PointedHolds, PTL

-----------------------------------------------------------------------------
(* Complete means usable. As soon as a team id of the last tier is on its way *)
(* there is one finished pool F behind it: the statements pending and the     *)
(* table, while it has rows of the last tier, say what F says.                *)

Lineage(F) ==
    /\ \A w \in writes : w.op = "teams" /\ w.at[1] = TierCount => Agrees(w, F)
    /\ Full(table) =>
        /\ DOMAIN table = Tiers \X Slots
        /\ \A x \in DOMAIN table : table[x].team = F[x].team \/ table[x].team = Unteamed
        /\ \A w \in writes : w.op = "teams" => Agrees(w, F)

FinishedPool(F) == DOMAIN F = Tiers \X Slots /\ \A t \in Tiers : TierFits(F, t)

LastIssued == LastTeamed(table) \/ \E w \in writes : w.op = "teams" /\ w.at[1] = TierCount
LastClosing == tierInProgress = TierCount /\ poolPhase = "LogoutWave"

Finished ==
    LastIssued =>
        /\ \E F : FinishedPool(F) /\ Lineage(F)
        /\ \A w \in writes : w.op = "replace" => ~Full(w.rows)
        /\ PoolBusy /\ ~LastClosing /\ Full(table) => \E w \in writes : w.op = "clear"

\* A step that leaves the table and at most ages or loses statements.
LEMMA FinishedKept ==
    ASSUME Typed, Finished, table' = table,
           \A v \in writes' : \E w \in writes : Alike(v, w),
           PoolBusy' /\ ~LastClosing' =>
               /\ PoolBusy /\ ~LastClosing
               /\ \A w \in writes : \E v \in writes' : Alike(v, w)
    PROVE  Finished'
<1> SUFFICES ASSUME LastIssued'
             PROVE  /\ \E F : FinishedPool(F) /\ Lineage(F)'
                    /\ \A v \in writes' : v.op = "replace" => ~Full(v.rows)
                    /\ PoolBusy' /\ ~LastClosing' /\ Full(table) => \E v \in writes' : v.op = "clear"
  <2>1. \A F : FinishedPool(F)' <=> FinishedPool(F)
    BY DEF FinishedPool, TierFits, LineupsFit
  <2>2. Full(table)' <=> Full(table)
    BY DEF Full
  <2>3. \A v : Full(v.rows)' <=> Full(v.rows)
    BY DEF Full
  <2> QED
    BY <2>1, <2>2, <2>3 DEF Finished
<1>1. LastIssued
  BY DEF LastIssued, LastTeamed, Alike
<1>2. PICK F : FinishedPool(F) /\ Lineage(F)
  BY <1>1 DEF Finished
<1>3. Lineage(F)'
  BY <1>2 DEF Lineage, Full, Alike, Agrees
<1>4. \A v \in writes' : v.op = "replace" => ~Full(v.rows)
  BY <1>1 DEF Finished, Alike
<1>5. PoolBusy' /\ ~LastClosing' /\ Full(table) => \E v \in writes' : v.op = "clear"
  BY <1>1 DEF Finished, Alike
<1> QED
  BY <1>2, <1>3, <1>4, <1>5

LEMMA FinishedWorker ==
    ASSUME Typed, Finished, WorkerStep
    PROVE  Finished'
<1> PICK w \in writes : RunWrite(w)
  BY DEF WorkerStep
<1>1. /\ UNCHANGED <<PoolBusy, LastClosing>>
      /\ table' = Executed(w) /\ writes' = writes \ {w}
  BY DEF WorkerStep, RunWrite, poolVars, LastClosing, PoolBusy
<1>2. IsWrite(w) /\ w.op \in {"clear", "teams", "replace"}
  BY WriteOps DEF Typed, PoolTypes
<1>3. w.op = "clear" => table' = NoRows
  BY <1>1, ExecutedTable DEF Typed
<1>4. w.op = "replace" => table' = w.rows \/ table' = table
  BY <1>1, ExecutedTable DEF Typed
<1>5. w.op = "teams" =>
        /\ DOMAIN table' = DOMAIN table
        /\ \A x \in DOMAIN table :
              table'[x].team = IF x = w.at THEN w.team ELSE table[x].team
  BY <1>1, ExecutedTable DEF Typed
<1>6. w.op = "clear" => ~Full(table') /\ ~LastTeamed(table')
  BY <1>3, EmptyTable DEF Full, LastTeamed
<1>7. w.op = "teams" => (Full(table') <=> Full(table))
  BY <1>5 DEF Full
<1>8. w.op = "replace" => ~LastTeamed(w.rows)
  BY <1>2, WriteOps DEF IsReplace
<1> SUFFICES ASSUME LastIssued'
             PROVE  /\ \E F : FinishedPool(F) /\ Lineage(F)'
                    /\ \A v \in writes' : v.op = "replace" => ~Full(v.rows)
                    /\ PoolBusy' /\ ~LastClosing' /\ Full(table') => \E v \in writes' : v.op = "clear"
  <2>1. \A F : FinishedPool(F)' <=> FinishedPool(F)
    BY DEF FinishedPool, TierFits, LineupsFit
  <2>2. Full(table)' <=> Full(table')
    BY DEF Full
  <2>3. \A v : Full(v.rows)' <=> Full(v.rows)
    BY DEF Full
  <2> QED
    BY <2>1, <2>2, <2>3 DEF Finished
<1>9. LastIssued
  <2>1. CASE \E v \in writes' : v.op = "teams" /\ v.at[1] = TierCount
    BY <1>1, <2>1 DEF LastIssued
  <2>2. CASE LastTeamed(table')
    <3>1. CASE w.op = "teams"
      <4>1. PICK x \in DOMAIN table : x[1] = TierCount /\ table'[x].team # Unteamed
        BY <1>5, <2>2, <3>1 DEF LastTeamed
      <4>2. CASE x = w.at
        BY <3>1, <4>1, <4>2 DEF LastIssued
      <4>3. CASE x # w.at
        BY <1>5, <3>1, <4>1, <4>3 DEF LastIssued, LastTeamed
      <4> QED
        BY <4>2, <4>3
    <3>2. CASE w.op # "teams"
      BY <1>2, <1>4, <1>6, <1>8, <2>2, <3>2 DEF LastIssued
    <3> QED
      BY <3>1, <3>2
  <2>3. LastIssued' <=> (LastTeamed(table') \/ \E v \in writes' : v.op = "teams" /\ v.at[1] = TierCount)
    BY DEF LastIssued, LastTeamed
  <2> QED
    BY <2>1, <2>2, <2>3
<1>10. PICK F : FinishedPool(F) /\ Lineage(F)
  BY <1>9 DEF Finished
<1>11. w.op = "replace" => ~Full(w.rows)
  BY <1>9 DEF Finished
<1>12. Full(table') => Full(table) /\ (table' = table \/ w.op = "teams")
  BY <1>2, <1>4, <1>6, <1>7, <1>11
<1>13. Lineage(F)'
  <2>1. \A v \in writes' : v.op = "teams" /\ v.at[1] = TierCount => Agrees(v, F)
    BY <1>1, <1>10 DEF Lineage
  <2>2. ASSUME Full(table')
        PROVE  /\ DOMAIN table' = Tiers \X Slots
               /\ \A x \in DOMAIN table' : table'[x].team = F[x].team \/ table'[x].team = Unteamed
               /\ \A v \in writes' : v.op = "teams" => Agrees(v, F)
    <3>1. /\ DOMAIN table = Tiers \X Slots
          /\ \A x \in DOMAIN table : table[x].team = F[x].team \/ table[x].team = Unteamed
          /\ \A v \in writes : v.op = "teams" => Agrees(v, F)
      BY <1>10, <1>12, <2>2 DEF Lineage
    <3>2. CASE table' = table
      BY <1>1, <3>1, <3>2
    <3>3. CASE w.op = "teams"
      <4>1. w.team = F[w.at].team
        BY <3>1, <3>3 DEF Agrees
      <4> QED
        BY <1>1, <1>5, <3>1, <3>3, <4>1
    <3> QED
      BY <1>12, <2>2, <3>2, <3>3
  <2>3. /\ \A v : Agrees(v, F)' <=> Agrees(v, F)
        /\ Full(table)' <=> Full(table')
        /\ Unteamed' = Unteamed /\ Tiers' = Tiers /\ Slots' = Slots
    BY DEF Agrees, Full, Unteamed, Tiers, Slots
  <2> QED
    BY <2>1, <2>2, <2>3 DEF Lineage
<1>14. \A v \in writes' : v.op = "replace" => ~Full(v.rows)
  BY <1>1, <1>9 DEF Finished
<1>15. ASSUME PoolBusy, ~LastClosing, Full(table')
       PROVE  \E v \in writes' : v.op = "clear"
  <2>1. PICK v \in writes : v.op = "clear"
    BY <1>9, <1>12, <1>15 DEF Finished
  <2>2. w.op # "clear"
    BY <1>6, <1>15
  <2> QED
    BY <1>1, <2>1, <2>2
<1> QED
  BY <1>1, <1>10, <1>13, <1>14, <1>15

LEMMA FinishedStart ==
    ASSUME Typed, Finished, StartPoolInit
    PROVE  Finished'
<1>1. table' = table /\ writes' = writes \cup {ClearPool} /\ ClearPool.op = "clear"
  BY DEF StartPoolInit, ClearPool
<1> SUFFICES ASSUME LastIssued'
             PROVE  /\ \E F : FinishedPool(F) /\ Lineage(F)'
                    /\ \A v \in writes' : v.op = "replace" => ~Full(v.rows)
                    /\ \E v \in writes' : v.op = "clear"
  <2>1. \A F : FinishedPool(F)' <=> FinishedPool(F)
    BY DEF FinishedPool, TierFits, LineupsFit
  <2>2. \A v : Full(v.rows)' <=> Full(v.rows)
    BY DEF Full
  <2> QED
    BY <2>1, <2>2 DEF Finished
<1>2. LastIssued
  BY <1>1 DEF LastIssued, LastTeamed
<1>3. PICK F : FinishedPool(F) /\ Lineage(F)
  BY <1>2 DEF Finished
<1>4. Lineage(F)'
  BY <1>1, <1>3 DEF Lineage, Full, Agrees
<1>5. \A v \in writes' : v.op = "replace" => ~Full(v.rows)
  BY <1>1, <1>2 DEF Finished
<1> QED
  BY <1>1, <1>3, <1>4, <1>5

LEMMA FinishedPin ==
    ASSUME Timely, Typed, WritesAge, WritesKeepUp, Written, Finished, PinTick
    PROVE  Finished'
<1> PICK p \in Picks : rows' = Merge(rows, NewRows(p))
  BY DEF PinTick
<1>1. /\ poolPhase = "PinBots" /\ poolPhase' = "LoginWave" /\ PoolBusy /\ Underway
      /\ table' = table /\ writes' = Aged \cup {ReplacePool(rows')}
      /\ UNCHANGED tierInProgress /\ tierInProgress \in Tiers /\ ~LastClosing /\ ~LastClosing'
      /\ TierCount \in Nat
  BY WorldAssumption
     DEF PinTick, Typed, JobShape, PoolBusy, Busy, Underway, LastClosing
<1>2. DOMAIN rows' = {x \in Tiers \X Slots : x[1] <= tierInProgress}
  BY <1>1, PinRows
<1>3. AllAlike(Aged, writes)
  BY AgedAlike DEF Typed
<1>4. LastIssued' => LastIssued
  <2>1. ReplacePool(rows').op # "teams"
    BY DEF ReplacePool
  <2> QED
    BY <1>1, <1>3, <2>1 DEF LastIssued, LastTeamed, AllAlike, Alike
<1>5. CASE tierInProgress = TierCount
  <2>1. tierInProgress > 1
    BY <1>1, <1>5 DEF Timely
  <2>2. \A w \in writes : w.op = "teams"
    BY <1>1, <2>1, NothingStale
  <2>3. Quiet /\ ~Closing
    BY <1>1, <2>1 DEF Quiet, FirstTier, Closing
  <2>4. \A w \in writes : w.at[1] < TierCount
    BY <1>5, <2>2, <2>3 DEF Written, QuietWrites
  <2>5. \A w \in writes : w.at[1] # TierCount
    BY <1>1, <2>4
  <2>6. LastTeamed(table) => Full(table)
    BY DEF LastTeamed, Full
  <2>7. ~LastIssued
    BY <1>1, <2>2, <2>5, <2>6 DEF Finished, LastIssued
  <2> QED
    BY <1>4, <2>7 DEF Finished
<1>6. CASE tierInProgress # TierCount
  <2> SUFFICES ASSUME LastIssued'
               PROVE  /\ \E F : FinishedPool(F) /\ Lineage(F)'
                      /\ \A v \in writes' : v.op = "replace" => ~Full(v.rows)
                      /\ Full(table) => \E v \in writes' : v.op = "clear"
    <3>1. \A F : FinishedPool(F)' <=> FinishedPool(F)
      BY DEF FinishedPool, TierFits, LineupsFit
    <3>2. Full(table)' <=> Full(table)
      BY <1>1 DEF Full
    <3>3. \A v : Full(v.rows)' <=> Full(v.rows)
      BY DEF Full
    <3> QED
      BY <3>1, <3>2, <3>3 DEF Finished
  <2>1. PICK F : FinishedPool(F) /\ Lineage(F)
    BY <1>4 DEF Finished
  <2>2. \A v \in writes' : v.op = "teams" =>
            \E w \in writes : w.op = "teams" /\ w.at = v.at /\ w.team = v.team
    <3>1. ReplacePool(rows').op # "teams"
      BY DEF ReplacePool
    <3> QED
      BY <1>1, <1>3, <3>1 DEF AllAlike, Alike
  <2>3. Lineage(F)'
    <3>1. Full(table)' <=> Full(table)
      BY <1>1 DEF Full
    <3>2. \A v \in writes' : v.op = "teams" =>
            /\ (v.at[1] = TierCount => Agrees(v, F))
            /\ (Full(table) => Agrees(v, F))
      BY <2>1, <2>2 DEF Lineage, Agrees
    <3>3. \A v : Agrees(v, F)' <=> Agrees(v, F)
      BY DEF Agrees
    <3> QED
      BY <1>1, <2>1, <3>1, <3>2, <3>3 DEF Lineage
  <2>4. \A v \in writes' : v.op = "replace" => ~Full(v.rows)
    <3>1. ReplacePool(rows').rows = rows'
      BY DEF ReplacePool
    <3>2. \A x \in Tiers \X Slots : x[1] <= tierInProgress => x[1] # TierCount
      BY <1>1, <1>6 DEF Tiers
    <3>3. ~Full(rows')
      BY <1>2, <3>2 DEF Full
    <3>4. \A v \in Aged : v.op = "replace" => ~Full(v.rows)
      BY <1>3, <1>4 DEF AllAlike, Alike, Finished
    <3> QED
      BY <1>1, <3>1, <3>3, <3>4
  <2>5. Full(table) => \E v \in writes' : v.op = "clear"
    <3>1. Full(table) => \E w \in writes : w.op = "clear"
      BY <1>1, <1>4 DEF Finished
    <3> QED
      BY <1>1, <1>3, <3>1 DEF AllAlike, Alike
  <2> QED
    BY <2>1, <2>3, <2>4, <2>5
<1> QED
  BY <1>5, <1>6

\* The tick that writes a tier's team ids. For the last tier it is the finished pool
\* that is on its way; for the others no row of an older finished pool is left.
LEMMA FinishedCreateEnds ==
    ASSUME Timely, Typed, Typed', WritesAge, WritesKeepUp, Written, Written', Pointed',
           Finished, PhaseCreateTeams, CreateEnds
    PROVE  Finished'
<1>1. /\ poolPhase = "CreateTeams" /\ poolPhase' = "LogoutWave" /\ PoolBusy /\ ~LastClosing
      /\ UNCHANGED <<tierInProgress, table>> /\ tierInProgress \in Tiers
      /\ Underway' /\ Closing' /\ bracketStep + 1 >= BracketCount
      /\ TierCount \in Nat
  BY CreateKinds, WorldAssumption
     DEF CreateEnds, Typed, JobShape, PoolBusy, Busy, Underway, Closing, LastClosing
<1>2. \A w \in writes : w.op = "teams"
  BY <1>1, NothingStale
<1>3. AllAlike(Aged, writes)
  BY AgedAlike DEF Typed
<1>4. writes' = Aged \cup {SetPoolTeams(<<tierInProgress, i>>, teamIds'[i]) : i \in Slots}
  BY DEF CreateEnds
<1>5. \A v \in writes' : v \in Aged \/ (v.op = "teams" /\ v.at[1] = tierInProgress)
  <2> SUFFICES ASSUME NEW i \in Slots
               PROVE  /\ SetPoolTeams(<<tierInProgress, i>>, teamIds'[i]).op = "teams"
                      /\ SetPoolTeams(<<tierInProgress, i>>, teamIds'[i]).at[1] = tierInProgress
    BY <1>4
  <2> QED
    BY DEF SetPoolTeams
<1>6. \A v \in writes' : v.op = "teams"
  <2>1. \A v \in Aged : v.op = "teams"
    BY <1>2, <1>3 DEF AllAlike, Alike
  <2> QED
    BY <1>5, <2>1
<1>9. LastIssued' /\ tierInProgress # TierCount => LastIssued
  <2>1. LastIssued' => LastTeamed(table) \/ \E v \in writes' : v.op = "teams" /\ v.at[1] = TierCount
    BY <1>1 DEF LastIssued, LastTeamed
  <2>2. \A v \in Aged : v.op = "teams" /\ v.at[1] = TierCount =>
           \E w \in writes : w.op = "teams" /\ w.at[1] = TierCount
    BY <1>3 DEF AllAlike, Alike
  <2> QED
    BY <1>5, <2>1, <2>2 DEF LastIssued
<1> SUFFICES ASSUME LastIssued'
             PROVE  \E F : FinishedPool(F) /\ Lineage(F)'
  <2>1. \A F : FinishedPool(F)' <=> FinishedPool(F)
    BY DEF FinishedPool, TierFits, LineupsFit
  <2>2. Full(table)' <=> Full(table)
    BY <1>1 DEF Full
  <2>3. Full(table) /\ ~LastClosing' /\ LastIssued' => \E v \in writes' : v.op = "clear"
    <3> SUFFICES ASSUME Full(table), ~LastClosing', LastIssued'
                 PROVE  FALSE
      OBVIOUS
    <3>1. tierInProgress # TierCount
      BY <1>1 DEF LastClosing
    <3>2. LastIssued
      BY <1>9, <3>1
    <3> QED
      BY <1>1, <1>2, <3>2 DEF Finished
  <2> QED
    BY <1>6, <2>1, <2>2, <2>3 DEF Finished
<1>7. CASE tierInProgress = TierCount
  <2>1. DOMAIN rows' = Tiers \X Slots
    BY <1>1, <1>7 DEF Typed, JobShape, PinnedSlots, Tiers
  <2>2. \A t \in Tiers : TierFits(rows', t)
    <3>1. \A t \in Tiers : t < tierInProgress' \/ (t = tierInProgress' /\ Closing')
      BY <1>1, <1>7 DEF Tiers
    <3>2. \A t \in Tiers : TierFits(rows, t)'
      BY <1>1, <3>1 DEF Pointed, RowsFit
    <3> QED
      BY <3>2 DEF TierFits, LineupsFit
  <2>3. tierInProgress >= 2 /\ tierInProgress' = tierInProgress
    BY <1>1, <1>7 DEF Timely
  <2>4. Quiet' /\ Settled'
    BY <1>1, <2>3 DEF Quiet, Settled, FirstTier
  <2>5. \A v \in writes' : v.op = "teams" => Agrees(v, rows')
    BY <1>6, <2>4 DEF Written, QuietWrites, Agrees
  <2>6. NoReplace'
    BY <1>6 DEF NoReplace
  <2>7. /\ DOMAIN table' = DOMAIN rows'
        /\ \A x \in DOMAIN rows' :
              table'[x].team = rows'[x].team \/ table'[x].team = Unteamed
    BY <2>4, <2>6 DEF Written, Settles
  <2> PICK F : F = rows'
    OBVIOUS
  <2>8. Lineage(F)'
    <3>1. \A v \in writes' : v.op = "teams" => Agrees(v, F)'
      BY <2>5 DEF Agrees
    <3>2. Tiers' = Tiers /\ Slots' = Slots /\ Unteamed' = Unteamed
      BY DEF Tiers, Slots, Unteamed
    <3> QED
      BY <2>1, <2>7, <3>1, <3>2 DEF Lineage
  <2> QED
    BY <2>1, <2>2, <2>8 DEF FinishedPool
<1>8. CASE tierInProgress # TierCount
  <2>1. LastIssued
    BY <1>8, <1>9
  <2>2. PICK F : FinishedPool(F) /\ Lineage(F)
    BY <2>1 DEF Finished
  <2>3. ~Full(table)
    BY <1>1, <1>2, <2>1 DEF Finished
  <2>4. \A v \in writes' : v.op = "teams" /\ v.at[1] = TierCount => Agrees(v, F)
    <3> SUFFICES ASSUME NEW v \in writes', v.op = "teams", v.at[1] = TierCount
                 PROVE  Agrees(v, F)
      OBVIOUS
    <3>1. v \in Aged
      BY <1>5, <1>8
    <3>2. PICK w \in writes : Alike(v, w)
      BY <1>3, <3>1 DEF AllAlike
    <3> QED
      BY <2>2, <3>2 DEF Lineage, Alike, Agrees
  <2>5. Lineage(F)'
    <3>1. (Full(table)' <=> Full(table)) /\ \A v : Agrees(v, F)' <=> Agrees(v, F)
      BY <1>1 DEF Full, Agrees
    <3> QED
      BY <2>3, <2>4, <3>1 DEF Lineage
  <2> QED
    BY <2>2, <2>5
<1> QED
  BY <1>7, <1>8

LEMMA FinishedTick ==
    ASSUME Timely, Typed, Typed', WritesAge, Written, Written', Pointed', Finished, PoolTick
    PROVE  Finished'
<1>1. WritesKeepUp /\ PoolBusy
  BY DEF PoolTick
<1>2. /\ \A v \in Aged : \E w \in writes : Alike(v, w)
      /\ \A w \in writes : \E v \in Aged : Alike(v, w)
  BY AgedAlike DEF AllAlike, Typed
<1>3. CASE WaitTick \/ LoggedInTick \/ PreparedTick
  <2>1. table' = table /\ writes' = Aged /\ ~LastClosing
    BY <1>3 DEF WaitTick, LoggedInTick, PreparedTick, Untouched, LastClosing
  <2> QED
    BY <1>1, <1>2, <2>1, FinishedKept
<1>4. CASE PhaseLogoutWave
  <2>1. /\ table' = table /\ writes' = Aged /\ poolPhase = "LogoutWave"
        /\ \/ tierInProgress < TierCount
           \/ poolPhase' = "Done"
    BY <1>4 DEF PhaseLogoutWave, MoreTiers
  <2>2. tierInProgress \in Int /\ TierCount \in Int
    BY WorldAssumption DEF Typed, PoolTypes
  <2>3. PoolBusy' => ~LastClosing
    BY <2>1, <2>2 DEF LastClosing, PoolBusy, Busy
  <2> QED
    BY <1>1, <1>2, <2>1, <2>3, FinishedKept
<1>5. CASE PhaseCreateTeams
  <2>1. poolPhase = "CreateTeams" /\ table' = table /\ ~LastClosing
    BY <1>5, CreateKinds DEF LastClosing
  <2>2. CASE CreateFails \/ CreateGoesOn
    <3>1. writes' = Aged
      BY <2>2 DEF CreateFails, CreateGoesOn
    <3> QED
      BY <1>1, <1>2, <2>1, <3>1, FinishedKept
  <2> QED
    BY <1>1, <1>5, <2>2, CreateKinds, FinishedCreateEnds
<1> QED
  BY <1>1, <1>3, <1>4, <1>5, TickKinds, FinishedPin

LEMMA FinishedStep ==
    ASSUME Timely
    PROVE  Typed /\ Typed' /\ WritesAge /\ Written /\ Written' /\ Pointed' /\ Finished
             /\ [Next]_vars => Finished'
<1> SUFFICES ASSUME Typed, Typed', WritesAge, Written, Written', Pointed', Finished, [Next]_vars
             PROVE  Finished'
  OBVIOUS
<1>1. CASE Crash
  <2>1. table' = table /\ writes' = {} /\ ~PoolBusy'
    BY <1>1 DEF Crash, WorldCrash, PoolBusy, Busy
  <2> QED
    BY <2>1, FinishedKept
<1>2. CASE Bystanding
  <2>1. table' = table /\ UNCHANGED <<PoolBusy, LastClosing>>
    BY <1>2 DEF Bystanding, poolVars, PoolBusy, LastClosing
  <2>2. AllAlike(writes', writes)
    BY <1>2, AgedAlike DEF Bystanding, Typed
  <2> QED
    BY <2>1, <2>2, FinishedKept DEF AllAlike
<1> QED
  BY <1>1, <1>2, StepKinds, FinishedTick, FinishedStart, FinishedWorker DEF Typed

\* A table the idempotency probe calls complete is a usable pool, whatever crash,
\* failed job or reordered write produced it.
THEOREM CompleteIsCoherentHolds ==
    ASSUME Timely
    PROVE  Spec => []CompleteIsCoherent
<1>1. Init => Finished
  BY EmptyTable DEF Init, WorldInit, Finished, LastIssued, LastTeamed
<1>2. Typed /\ Typed' /\ WritesAge /\ Written /\ Written' /\ Pointed' /\ Finished
        /\ [Next]_vars => Finished'
  BY FinishedStep
<1>3. Spec => []Finished
  BY <1>1, <1>2, PoolIsTyped, AgeHolds, WrittenHolds, PointedHolds, PTL DEF Spec
<1>4. Finished => CompleteIsCoherent
  <2> SUFFICES ASSUME Finished, Complete(table)
               PROVE  \A t \in Tiers : TierFits(table, t)
    <3>1. ASSUME \A t \in Tiers : TierFits(table, t),
                 NEW t \in Tiers, NEW s \in Brackets, NEW k \in 1 .. TeamCount[s]
          PROVE  LET slots == Range(Lineups[s][k])
                     id    == table[<<t, Lineups[s][k][1]>>].team[s]
                 IN  id # 0 /\ {i \in Slots : table[<<t, i>>].team[s] = id} = slots
      <4> DEFINE f == [i \in Slots |-> table[<<t, i>>].team[s]]
      <4>1. LineupsFit(f, s)
        BY <3>1 DEF TierFits
      <4>2. /\ f[Lineups[s][k][1]] # 0
            /\ {i \in Slots : f[i] = f[Lineups[s][k][1]]} = Range(Lineups[s][k])
        BY <4>1 DEF LineupsFit
      <4>3. Lineups[s][k][1] \in Slots
        BY LineupTypes
      <4>4. f[Lineups[s][k][1]] = table[<<t, Lineups[s][k][1]>>].team[s]
        BY <4>3
      <4>5. \A i \in Slots : f[i] = table[<<t, i>>].team[s]
        OBVIOUS
      <4> HIDE DEF f
      <4> QED
        BY <4>2, <4>4, <4>5
    <3> QED
      BY <3>1 DEF CompleteIsCoherent
  <2>1. DOMAIN table = Tiers \X Slots
        /\ \A x \in DOMAIN table : \E s \in Brackets : table[x].team[s] # 0
    BY DEF Complete
  <2>2. \A x \in DOMAIN table : table[x].team # Unteamed
    BY <2>1 DEF Unteamed
  <2>3. <<TierCount, 0>> \in DOMAIN table
    BY <2>1, WorldAssumption DEF Tiers, Slots
  <2>4. Full(table) /\ LastTeamed(table)
    BY <2>2, <2>3 DEF Full, LastTeamed
  <2>5. PICK F : FinishedPool(F) /\ Lineage(F)
    BY <2>4 DEF Finished, LastIssued
  <2>6. \A x \in Tiers \X Slots : table[x].team = F[x].team
    BY <2>1, <2>2, <2>4, <2>5 DEF Lineage
  <2> SUFFICES ASSUME NEW t \in Tiers, NEW s \in Brackets
               PROVE  LineupsFit([i \in Slots |-> table[<<t, i>>].team[s]], s)
    BY DEF TierFits
  <2>7. [i \in Slots |-> table[<<t, i>>].team[s]] = [i \in Slots |-> F[<<t, i>>].team[s]]
    BY <2>6
  <2> QED
    BY <2>5, <2>7 DEF FinishedPool, TierFits
<1> QED
  BY <1>3, <1>4, PTL
=============================================================================
