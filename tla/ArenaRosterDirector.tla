------------------------- MODULE ArenaRosterDirector -------------------------
(* The whole director: OnUpdate advances the pool job and then the queue      *)
(* watch, the chat commands start a job or force a serve between two ticks,   *)
(* and both machines share the bots, the pool table and the arena teams.      *)
EXTENDS ArenaPool, ArenaEngagement

CONSTANTS
    Elapsed,      \* milliseconds an OnUpdate may see, in the unit of the timeouts
    MaxCrashes    \* bound: restarts of the worldserver

ASSUME DirectorAssumption == Elapsed \subseteq Nat \ {0} /\ MaxCrashes \in Nat

VARIABLES
    pc,       \* "idle" between two OnUpdate calls, "watch" between its two halves
    crashes   \* restarts so far

vars == <<worldVars, poolVars, engVars, pc, crashes>>

Init ==
    /\ WorldInit /\ PoolReset /\ EngInit
    /\ pc = "idle" /\ crashes = 0

-----------------------------------------------------------------------------
\* OnUpdate: a busy pool job first; the queue watch follows in the same call.
UpdatePool ==
    /\ pc = "idle" /\ PoolBusy /\ WritesKeepUp
    /\ \E elapsed \in Elapsed : TickPoolInit(elapsed)
    /\ pc' = "watch"
    /\ UNCHANGED <<engVars, crashes>>

UpdateWatchOnly ==
    /\ pc = "idle" /\ ~PoolBusy /\ WritesKeepUp
    /\ \E elapsed \in Elapsed : TickQueueWatch(elapsed)
    /\ writes' = Aged
    /\ UNCHANGED <<poolVars, pc, crashes>>

UpdateWatch ==
    /\ pc = "watch"
    /\ \/ /\ eng.active \/ ~PoolBusy
          /\ \E elapsed \in Elapsed : TickQueueWatch(elapsed)
       \/ /\ ~eng.active /\ PoolBusy
          /\ UNCHANGED <<engVars, conn, table, teams, nextTeam>>
    /\ pc' = "idle"
    /\ UNCHANGED <<poolVars, writes, crashes>>

\* Mutant of CmdPoolInit: poolinit ignores a running engagement.
PoolInitDuringEngagement ==
    /\ pc = "idle"
    /\ StartPoolInit
    /\ UNCHANGED <<engVars, pc, crashes>>

\* .arenaroster poolinit
CmdPoolInit ==
    /\ pc = "idle" /\ ~eng.active
    /\ StartPoolInit
    /\ UNCHANGED <<engVars, pc, crashes>>

\* Mutant of ForceQueue: a serve ignores a running job.
ForceQueueDuringJob ==
    /\ pc = "idle"
    /\ \E t \in Tiers, s \in Brackets : ServeOpponents(t, s)
    /\ UNCHANGED <<poolVars, table, writes, teams, nextTeam, pc, crashes>>

\* .arenaroster forcequeue: serve a tier with no player queueing.
ForceQueue ==
    /\ pc = "idle" /\ ~PoolBusy
    /\ \E t \in Tiers, s \in Brackets : ServeOpponents(t, s)
    /\ UNCHANGED <<poolVars, table, writes, teams, nextTeam, pc, crashes>>

-----------------------------------------------------------------------------
Logins ==
    /\ pc = "idle"
    /\ \E b \in Bots : LoginDone(b) \/ BotLost(b)
    /\ UNCHANGED <<poolVars, engVars, pc, crashes>>

Disbandings ==
    /\ pc = "idle"
    /\ \E id \in DOMAIN teams : TeamVanishes(id)
    /\ UNCHANGED <<poolVars, engVars, pc, crashes>>

Workers ==
    /\ \E w \in writes : RunWrite(w)
    /\ UNCHANGED <<poolVars, engVars, pc, crashes>>

Arena ==
    /\ pc = "idle"
    /\ \/ PlayerQueues \/ PlayerLeavesQueue \/ JoinHandled \/ LeaveHandled
       \/ MatchPops \/ QueueDrops \/ MatchEnds
    /\ UNCHANGED <<poolVars, pc, crashes>>

Crash ==
    /\ crashes < MaxCrashes
    /\ crashes' = crashes + 1
    /\ WorldCrash
    /\ poolPhase' = "Idle" /\ tierInProgress' = 0 /\ poolTimer' = 0
    /\ prepIdx' = 0 /\ bracketStep' = 0 /\ rows' = NoRows /\ teamIds' = NoTeams
    /\ eng' = NoEngagement
    /\ lastServed' = [t \in Tiers |-> [s \in Brackets |-> 0]]
    /\ playerQueue' = NoTeam /\ match' = NoMatch /\ packets' = {}
    /\ pc' = "idle"

Update == UpdatePool \/ UpdateWatch \/ UpdateWatchOnly
Next == Update \/ CmdPoolInit \/ ForceQueue \/ Logins \/ Disbandings
        \/ Workers \/ Arena \/ Crash

\* The world thread keeps ticking and the database workers keep draining.
Fairness == WF_vars(Update) /\ WF_vars(Workers)

Spec == Init /\ [][Next]_vars /\ Fairness

-----------------------------------------------------------------------------
TypeOK ==
    /\ conn \in [Bots -> {"offline", "loading", "online"}]
    /\ IsRows(table) /\ IsRows(rows)
    /\ \A w \in writes : w.op \in {"clear", "replace", "teams"} /\ w.age \in Nat
    /\ nextTeam \in Nat /\ DOMAIN teams \subseteq Nat
    /\ poolPhase \in Phases
    /\ tierInProgress \in 0 .. TierCount
    /\ poolTimer \in Nat /\ prepIdx \in 0 .. TierSize /\ bracketStep \in 0 .. BracketCount
    /\ teamIds \in [Slots -> [Brackets -> Nat]]
    /\ eng.active \in BOOLEAN /\ eng.st \in States /\ eng.bots \subseteq Bots
    /\ eng.stateMs \in Nat /\ eng.graceMs \in Nat
    /\ lastServed \in [Tiers -> [Brackets -> Nat]]
    /\ match.st \in {"none", "queue", "arena"}
    /\ packets \subseteq {"join", "leave"}
    /\ pc \in {"idle", "watch"} /\ crashes \in 0 .. MaxCrashes

\* A pool job and an engagement never run at the same time: each would log out,
\* regear or disband what the other is fielding (guards in ServeOpponents,
\* StartPoolInit and the order inside OnUpdate).
MutualExclusion == ~(PoolBusy /\ eng.active)

\* No character is pinned for two slots of the pool, in memory or in the table,
\* although PinBots reads a table that lags behind its own writes.
PinnedOnce == Distinct(rows) /\ Distinct(table)

\* A table the idempotency probe calls complete is a usable pool whatever crash,
\* failed job or reordered write produced it: within each tier and bracket the
\* slots of one lineup carry one team id that no other slot carries.
CompleteIsCoherent ==
    Complete(table) =>
        \A t \in Tiers, s \in Brackets : \A k \in 1 .. TeamCount[s] :
            LET slots == Range(Lineups[s][k])
                id    == table[<<t, Lineups[s][k][1]>>].team[s]
            IN  /\ id # 0
                /\ {i \in Slots : table[<<t, i>>].team[s] = id} = slots

\* Once a finished job's writes have run, the table is the finished pool: the
\* teams of the early tiers survive the ReplacePool of every later tier.
DoneIsDurable == (poolPhase = "Done" /\ writes = {}) => table = rows /\ Complete(table)

\* A team that a pool row of the running job points to, if it still exists, is a
\* team of that row's tier with the row's bot on it: no team of an earlier run
\* is taken over with its old members.
RowsMatchTeams ==
    \A x \in DOMAIN rows, s \in Brackets :
        LET id == rows[x].team[s] IN
        id \in DOMAIN teams => teams[id].tier = x[1] /\ rows[x].bot \in teams[id].members

\* Serving rotates: the team picked is the first live one behind the last served,
\* so no live team of the tier and bracket is passed over, dead ids or not.
RotationFair ==
    [][(~eng.active /\ eng'.active) =>
          \A o \in LineupIds(eng'.tier, eng'.bracket) \cap DOMAIN teams :
              LET cur == lastServed[eng'.tier][eng'.bracket] IN
              ~ \/ cur < o /\ o < eng'.team
                \/ eng'.team <= cur /\ (o > cur \/ o < eng'.team)]_vars

\* When a fought match is handed to Draining the served team is back in its band.
RenormalizedAfterMatch ==
    [][(eng.st = "Fighting" /\ eng'.st = "Draining" /\ eng.team \in DOMAIN teams') =>
          TierFor(teams'[eng.team].rating) = eng.tier]_vars

\* An ended engagement leaves nothing of its lineup behind in the arena queue.
NothingLeftQueued == ~eng.active => match.st # "queue" /\ packets = {}

\* Every state of a job progresses or fails, whatever bots and writes do.
JobSettles == PoolBusy ~> ~PoolBusy

\* Every state of an engagement either progresses or aborts: it cannot hang.
EngagementEnds == eng.active ~> ~eng.active

\* Fail and AbortEngagement promise that no bot is stranded: with no job and no
\* engagement, and no login in flight, no bot is online.
NoStrandedBots ==
    (~PoolBusy /\ ~eng.active /\ \A b \in Bots : conn[b] # "loading") =>
        \A b \in Bots : conn[b] = "offline"

-----------------------------------------------------------------------------
(* The director implements the lease: who runs decides who holds the bots.    *)
Owner == IF PoolBusy THEN "job" ELSE IF eng.active THEN "engagement" ELSE "none"
Held  == {b \in Bots : conn[b] # "offline"}

Lease == INSTANCE ArenaLease
    WITH owner <- Owner, held <- Held, Holders <- {"job", "engagement"}, None <- "none"

\* The director implements ArenaLease: poolinit and the queue watch hand the pool
\* bots over only through an idle director, and neither a queued player nor a
\* command brings a bot in while the other machine runs.
ImplementsLease == Lease!Spec
=============================================================================
