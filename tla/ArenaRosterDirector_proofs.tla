---------------------- MODULE ArenaRosterDirector_proofs ----------------------
(* The pool job and the engagement never run together, and the director       *)
(* implements ArenaLease: for any number of bots, tiers and slots, any        *)
(* timeouts, and any order of ticks, commands, logins, writes and crashes.    *)
EXTENDS ArenaPool_proofs, FiniteSetTheorems, FunctionTheorems

-----------------------------------------------------------------------------
(* Who runs. *)

\* Every action keeps the two machines apart: the guards of CmdPoolInit and
\* ForceQueue, and OnUpdate's look at the other machine before it ticks one.
LEMMA MutualExclusionStep == MutualExclusion /\ [Next]_vars => MutualExclusion'
<1> SUFFICES ASSUME MutualExclusion, [Next]_vars
             PROVE  MutualExclusion'
  OBVIOUS
<1> USE DEF MutualExclusion, PoolBusy
<1>1. CASE UpdatePool
  BY <1>1 DEF UpdatePool, engVars
<1>2. CASE UpdateWatchOnly
  BY <1>2 DEF UpdateWatchOnly, poolVars
<1>3. CASE UpdateWatch
  BY <1>3 DEF UpdateWatch, poolVars, engVars
<1>4. CASE CmdPoolInit
  BY <1>4 DEF CmdPoolInit, engVars
<1>5. CASE ForceQueue
  BY <1>5 DEF ForceQueue, poolVars
<1>6. CASE Logins \/ Disbandings \/ Workers
  BY <1>6 DEF Logins, Disbandings, Workers, poolVars, engVars
<1>7. CASE Arena
  <2>1. poolPhase' = poolPhase
    BY <1>7 DEF Arena, poolVars
  <2>2. eng' = eng
    BY <1>7 DEF Arena, PlayerQueues, PlayerLeavesQueue, JoinHandled, LeaveHandled,
                MatchPops, QueueDrops, MatchEnds
  <2> QED
    BY <2>1, <2>2
<1>8. CASE Crash
  BY <1>8 DEF Crash, NoEngagement
<1>9. CASE UNCHANGED vars
  BY <1>9 DEF vars, poolVars, engVars
<1> QED
  BY <1>1, <1>2, <1>3, <1>4, <1>5, <1>6, <1>7, <1>8, <1>9 DEF Next, Update

\* A pool job and an engagement never run at the same time.
THEOREM MutualExclusionHolds == Spec => []MutualExclusion
<1>1. Init => MutualExclusion
  BY DEF Init, PoolReset, MutualExclusion, PoolBusy, Busy
<1> QED
  BY <1>1, MutualExclusionStep, PTL DEF Spec

-----------------------------------------------------------------------------
(* The login states, which the refinement needs typed. *)

LoginStates == {"offline", "loading", "online"}
ConnOK      == conn \in [Bots -> LoginStates]

LEMMA AddKeepsType ==
    ASSUME NEW bs, ConnOK
    PROVE  AddPlayerBot(conn, bs) \in [Bots -> LoginStates]
BY DEF ConnOK, AddPlayerBot, LoginStates

LEMMA LogoutKeepsType ==
    ASSUME NEW c \in [Bots -> LoginStates], NEW bs
    PROVE  LogoutPlayerBot(c, bs) \in [Bots -> LoginStates]
BY DEF LogoutPlayerBot, LoginStates

LEMMA PoolConn ==
    ASSUME ConnOK, NEW elapsed \in Elapsed, TickPoolInit(elapsed)
    PROVE  ConnOK'
<1>1. \A bs : AddPlayerBot(conn, bs) \in [Bots -> LoginStates]
  BY AddKeepsType
<1>2. \A bs : LogoutPlayerBot(conn, bs) \in [Bots -> LoginStates]
  BY LogoutKeepsType DEF ConnOK
<1>3. CASE PhasePinBots
  BY <1>1, <1>2, <1>3 DEF PhasePinBots, Fail, ConnOK
<1>4. CASE PhaseLoginWave(elapsed)
  <2>1. PICK bs : conn' \in {conn, AddPlayerBot(conn, bs),
                       LogoutPlayerBot(AddPlayerBot(conn, bs), TierBots(rows, tierInProgress))}
    BY <1>4 DEF PhaseLoginWave, Fail
  <2> QED
    BY <1>1, <2>1, LogoutKeepsType DEF ConnOK
<1>5. CASE PhasePrepareBots(elapsed)
  BY <1>1, <1>2, <1>5 DEF PhasePrepareBots, PrepareTo, Fail, ConnOK
<1>6. CASE PhaseCreateTeams
  BY <1>2, <1>6 DEF PhaseCreateTeams, Fail, ConnOK
<1>7. CASE PhaseLogoutWave
  BY <1>2, <1>7 DEF PhaseLogoutWave, LoggedOut, ConnOK
<1> QED
  BY <1>3, <1>4, <1>5, <1>6, <1>7 DEF TickPoolInit

LEMMA ServeConn ==
    ASSUME ConnOK, NEW t, NEW s, ServeOpponents(t, s)
    PROVE  ConnOK'
BY AddKeepsType DEF ServeOpponents, ConnOK

LEMMA WatchConn ==
    ASSUME ConnOK, NEW elapsed \in Elapsed, TickQueueWatch(elapsed)
    PROVE  ConnOK'
<1>1. CASE TickEngagement(elapsed)
  <2>1. \A bs : AddPlayerBot(conn, bs) \in [Bots -> LoginStates]
    BY AddKeepsType
  <2>2. \A bs : LogoutPlayerBot(conn, bs) \in [Bots -> LoginStates]
    BY LogoutKeepsType DEF ConnOK
  <2>3. CASE TickLoggingIn(elapsed)
    BY <2>1, <2>3 DEF TickLoggingIn, ConnOK
  <2>4. CASE TickQueueing(elapsed) \/ TickFighting(elapsed)
    BY <2>4 DEF TickQueueing, TickFighting, ConnOK
  <2>5. CASE TickDraining(elapsed)
    BY <2>2, <2>5 DEF TickDraining, ConnOK
  <2> QED
    BY <1>1, <2>3, <2>4, <2>5 DEF TickEngagement
<1>2. CASE ServeQueuedPlayer
  BY <1>2, ServeConn DEF ServeQueuedPlayer
<1>3. CASE ScanServesNobody
  BY <1>3 DEF ScanServesNobody, ConnOK
<1> QED
  BY <1>1, <1>2, <1>3 DEF TickQueueWatch

LEMMA ConnStep == ConnOK /\ [Next]_vars => ConnOK'
<1> SUFFICES ASSUME ConnOK, [Next]_vars
             PROVE  ConnOK'
  OBVIOUS
<1>1. CASE UpdatePool
  BY <1>1, PoolConn DEF UpdatePool
<1>2. CASE UpdateWatchOnly
  BY <1>2, WatchConn DEF UpdateWatchOnly
<1>3. CASE UpdateWatch
  BY <1>3, WatchConn DEF UpdateWatch, ConnOK
<1>4. CASE CmdPoolInit
  BY <1>4, LogoutKeepsType DEF CmdPoolInit, StartPoolInit, ConnOK
<1>5. CASE ForceQueue
  BY <1>5, ServeConn DEF ForceQueue
<1>6. CASE Logins
  BY <1>6 DEF Logins, LoginDone, BotLost, ConnOK, LoginStates
<1>7. CASE Disbandings \/ Workers
  BY <1>7 DEF Disbandings, TeamVanishes, Workers, RunWrite, ConnOK
<1>8. CASE Arena
  BY <1>8 DEF Arena, PlayerQueues, PlayerLeavesQueue, JoinHandled, LeaveHandled,
              MatchPops, QueueDrops, MatchEnds, worldVars, ConnOK
<1>9. CASE Crash
  BY <1>9 DEF Crash, WorldCrash, ConnOK, LoginStates
<1>10. CASE UNCHANGED vars
  BY <1>10 DEF vars, worldVars, ConnOK
<1> QED
  BY <1>1, <1>2, <1>3, <1>4, <1>5, <1>6, <1>7, <1>8, <1>9, <1>10 DEF Next, Update

-----------------------------------------------------------------------------
(* The refinement: every step of the director is a step of the lease, or one  *)
(* that the lease does not see.                                               *)

LeaseNext == [Lease!Next]_<<Owner, Held>>

LEMMA HeldIsBots == Held \subseteq Bots /\ Held' \subseteq Bots
BY DEF Held

\* A tick of the job: the job holds the bots before it, and after it the job or
\* nobody does.
LEMMA JobMaps ==
    ASSUME MutualExclusion, UpdatePool
    PROVE  LeaseNext
<1>1. PoolBusy /\ ~eng.active /\ ~eng'.active
  BY DEF MutualExclusion, UpdatePool, engVars
<1>2. Owner = "job" /\ Owner' \in {"job", "none"}
  BY <1>1 DEF Owner
<1> QED
  BY <1>2, HeldIsBots DEF LeaseNext, Lease!Next, Lease!Use, Lease!Release

\* A serve takes the lease from nobody, or finds no live team and changes nothing.
LEMMA ServeMaps ==
    ASSUME ~PoolBusy, ~PoolBusy', NEW t, NEW s, ServeOpponents(t, s)
    PROVE  LeaseNext
<1>1. Owner = "none"
  BY DEF Owner, ServeOpponents
<1>2. CASE eng'.active
  <2>1. Owner' = "engagement"
    BY <1>2 DEF Owner
  <2> QED
    BY <1>1, <2>1, HeldIsBots DEF LeaseNext, Lease!Next, Lease!Take
<1>3. CASE ~eng'.active
  <2>1. conn' = conn
    BY <1>3 DEF ServeOpponents, NoEngagement
  <2>2. Owner' = "none" /\ Held' = Held
    BY <1>3, <2>1 DEF Owner, Held
  <2> QED
    BY <1>1, <2>2 DEF LeaseNext
<1> QED
  BY <1>2, <1>3

\* The queue watch with no job running.
LEMMA WatchMaps ==
    ASSUME ~PoolBusy, ~PoolBusy', NEW elapsed \in Elapsed, TickQueueWatch(elapsed)
    PROVE  LeaseNext
<1>1. CASE TickEngagement(elapsed)
  <2>1. Owner = "engagement" /\ Owner' \in {"engagement", "none"}
    BY <1>1 DEF Owner, TickEngagement
  <2> QED
    BY <2>1, HeldIsBots DEF LeaseNext, Lease!Next, Lease!Use, Lease!Release
<1>2. CASE ServeQueuedPlayer
  BY <1>2, ServeMaps DEF ServeQueuedPlayer
<1>3. CASE ScanServesNobody
  BY <1>3 DEF ScanServesNobody, LeaseNext, Owner, Held
<1> QED
  BY <1>1, <1>2, <1>3 DEF TickQueueWatch

LEMMA LeaseStep ==
    MutualExclusion /\ ConnOK /\ [Next]_vars => LeaseNext
<1> SUFFICES ASSUME MutualExclusion, ConnOK, [Next]_vars
             PROVE  LeaseNext
  OBVIOUS
<1>1. CASE UpdatePool
  BY <1>1, JobMaps
<1>2. CASE UpdateWatchOnly
  <2>1. ~PoolBusy /\ ~PoolBusy'
    BY <1>2 DEF UpdateWatchOnly, poolVars, PoolBusy
  <2> QED
    BY <1>2, <2>1, WatchMaps DEF UpdateWatchOnly
<1>3. CASE UpdateWatch
  <2>1. CASE PoolBusy
    <3>1. eng' = eng /\ conn' = conn /\ poolPhase' = poolPhase
      BY <1>3, <2>1 DEF UpdateWatch, MutualExclusion, engVars, poolVars
    <3> QED
      BY <3>1 DEF LeaseNext, Owner, Held, PoolBusy
  <2>2. CASE ~PoolBusy
    <3>1. ~PoolBusy'
      BY <1>3, <2>2 DEF UpdateWatch, poolVars, PoolBusy
    <3> QED
      BY <1>3, <2>2, <3>1, WatchMaps DEF UpdateWatch
  <2> QED
    BY <2>1, <2>2
<1>4. CASE CmdPoolInit
  <2>1. Owner = "none" /\ Owner' = "job"
    BY <1>4 DEF CmdPoolInit, StartPoolInit, Owner, PoolBusy, Busy
  <2> QED
    BY <2>1, HeldIsBots DEF LeaseNext, Lease!Next, Lease!Take
<1>5. CASE ForceQueue
  <2>1. ~PoolBusy /\ ~PoolBusy'
    BY <1>5 DEF ForceQueue, poolVars, PoolBusy
  <2> QED
    BY <1>5, <2>1, ServeMaps DEF ForceQueue
<1>6. CASE Logins
  <2>1. Owner' = Owner
    BY <1>6 DEF Logins, poolVars, engVars, Owner, PoolBusy
  <2>2. Held' \subseteq Held
    BY <1>6 DEF Logins, LoginDone, BotLost, Held, ConnOK, LoginStates
  <2> QED
    BY <2>1, <2>2 DEF LeaseNext, Lease!Next, Lease!Lose
<1>7. CASE Disbandings \/ Workers
  BY <1>7 DEF Disbandings, TeamVanishes, Workers, RunWrite, poolVars, engVars,
              LeaseNext, Owner, PoolBusy, Held
<1>8. CASE Arena
  <2>1. eng' = eng /\ conn' = conn /\ poolPhase' = poolPhase
    BY <1>8 DEF Arena, PlayerQueues, PlayerLeavesQueue, JoinHandled, LeaveHandled,
                MatchPops, QueueDrops, MatchEnds, worldVars, poolVars
  <2> QED
    BY <2>1 DEF LeaseNext, Owner, PoolBusy, Held
<1>9. CASE Crash
  <2>1. Owner' = "none" /\ Held' = {}
    BY <1>9 DEF Crash, WorldCrash, NoEngagement, Owner, PoolBusy, Busy, Held
  <2> QED
    BY <2>1, HeldIsBots DEF LeaseNext, Lease!Next, Lease!Release, Lease!Lose
<1>10. CASE UNCHANGED vars
  BY <1>10 DEF vars, worldVars, poolVars, engVars, LeaseNext, Owner, PoolBusy, Held
<1> QED
  BY <1>1, <1>2, <1>3, <1>4, <1>5, <1>6, <1>7, <1>8, <1>9, <1>10 DEF Next, Update

\* The director implements the lease: the pool bots pass from one machine to the
\* other only through an idle director, and only the holder brings bots in.
THEOREM DirectorImplementsLease == Spec => ImplementsLease
<1>1. Init => Lease!Init
  BY DEF Init, WorldInit, PoolReset, EngInit, NoEngagement, Lease!Init, Owner,
         PoolBusy, Busy, Held
<1>2. Init => ConnOK
  BY DEF Init, WorldInit, ConnOK, LoginStates
<1>3. Spec => []ConnOK
  BY <1>2, ConnStep, PTL DEF Spec
<1> QED
  BY <1>1, <1>3, LeaseStep, MutualExclusionHolds, PTL
     DEF Spec, ImplementsLease, Lease!Spec, Lease!lvars, LeaseNext

-----------------------------------------------------------------------------
(* The engagement record and what the queue watch keeps of it. *)

IsEng(e) == DOMAIN e = DOMAIN NoEngagement /\ e.active \in BOOLEAN

\* What an engagement that goes on keeps: the team it serves and where.
SameTeam(e) == /\ IsEng(e) /\ e.active = eng.active
               /\ e.tier = eng.tier /\ e.bracket = eng.bracket /\ e.team = eng.team

EngGoesOn == eng.active /\ SameTeam(eng') /\ match' = match
EngIsOver == /\ eng.active /\ eng' = NoEngagement /\ packets' = {}
             /\ match' = IF InQueue THEN NoMatch ELSE match

LEMMA NoEngagementIsEng == IsEng(NoEngagement) /\ ~NoEngagement.active
BY DEF IsEng, NoEngagement

LEMMA TickedSame ==
    ASSUME IsEng(eng), NEW elapsed
    PROVE  SameTeam(Ticked(elapsed))
BY DEF IsEng, NoEngagement, Ticked, SameTeam

LEMMA AbortSame ==
    ASSUME NEW e, SameTeam(e)
    PROVE  SameTeam(Abort(e))
BY DEF SameTeam, IsEng, NoEngagement, Abort

LEMMA EngTick ==
    ASSUME IsEng(eng), NEW elapsed \in Elapsed, TickEngagement(elapsed)
    PROVE  EngGoesOn \/ EngIsOver
<1> DEFINE e == Ticked(elapsed)
<1>1. eng.active /\ SameTeam(e)
  BY TickedSame DEF TickEngagement
<1> HIDE DEF e
<1>2. CASE TickLoggingIn(elapsed) /\ UNCHANGED match
  <2>1. eng' \in {e, [e EXCEPT !.st = "Queueing", !.stateMs = 0], Abort(e)}
    BY <1>2 DEF TickLoggingIn, AbortEngagement, e
  <2>2. SameTeam([e EXCEPT !.st = "Queueing", !.stateMs = 0])
    BY <1>1 DEF SameTeam, IsEng, NoEngagement
  <2> QED
    BY <1>1, <1>2, <2>1, <2>2, AbortSame DEF EngGoesOn
<1>3. CASE TickQueueing(elapsed) /\ UNCHANGED match
  <2>1. CASE eng' = Abort(e)
    BY <1>1, <1>3, <2>1, AbortSame DEF EngGoesOn
  <2>2. CASE QueueStep(e)
    <3>1. CASE TeleportCaptain(e)
      <4>1. CASE \E i \in eng.bmCacheIdx + 1 .. Battlemasters, arrives \in BOOLEAN :
                    eng' = [e EXCEPT !.bmCacheIdx = i, !.bmTeleported = arrives]
        BY <1>1, <1>3, <4>1 DEF SameTeam, IsEng, NoEngagement, EngGoesOn
      <4>2. CASE eng' = Abort([e EXCEPT !.bmCacheIdx = Battlemasters])
        <5>1. SameTeam([e EXCEPT !.bmCacheIdx = Battlemasters])
          BY <1>1 DEF SameTeam, IsEng, NoEngagement
        <5> QED
          BY <1>1, <1>3, <4>2, <5>1, AbortSame DEF EngGoesOn
      <4> QED
        BY <3>1, <4>1, <4>2 DEF TeleportCaptain, AbortEngagement
    <3>2. CASE GroupTeam([e EXCEPT !.bm = TRUE])
      <4> DEFINE g == [e EXCEPT !.bm = TRUE]
      <4>1. SameTeam(g) /\ SameTeam([g EXCEPT !.grouped = TRUE])
        BY <1>1 DEF SameTeam, IsEng, NoEngagement
      <4> HIDE DEF g
      <4>2. eng' = [g EXCEPT !.grouped = TRUE] \/ eng' = Abort(g)
        BY <3>2 DEF GroupTeam, AbortEngagement, g
      <4> QED
        BY <1>1, <1>3, <4>1, <4>2, AbortSame DEF EngGoesOn
    <3>3. CASE eng' \in {e, [e EXCEPT !.bm = TRUE, !.queued = TRUE], [e EXCEPT !.bm = FALSE],
                         [e EXCEPT !.st = "Fighting", !.stateMs = 0]}
      BY <1>1, <1>3, <3>3 DEF SameTeam, IsEng, NoEngagement, EngGoesOn
    <3> QED
      BY <2>2, <3>1, <3>2, <3>3 DEF QueueStep
  <2> QED
    BY <1>3, <2>1, <2>2 DEF TickQueueing, AbortEngagement, e
<1>4. CASE TickFighting(elapsed) /\ UNCHANGED match
  <2>1. eng' \in {e, Abort(e)}
    BY <1>4 DEF TickFighting, e
  <2> QED
    BY <1>1, <1>4, <2>1, AbortSame DEF EngGoesOn
<1>5. CASE TickDraining(elapsed)
  <2>1. SameTeam([e EXCEPT !.graceMs = @ + elapsed])
    BY <1>1 DEF SameTeam, IsEng, NoEngagement
  <2> QED
    BY <1>1, <1>5, <2>1 DEF TickDraining, EngGoesOn, EngIsOver, e
<1> QED
  BY <1>2, <1>3, <1>4, <1>5 DEF TickEngagement

-----------------------------------------------------------------------------
(* Steps, as the engagement sees them. *)

EngTypes ==
    /\ IsEng(eng)
    /\ eng.active => eng.tier \in Tiers
    /\ lastServed \in [Tiers -> [Brackets -> Nat]]
    /\ playerQueue # NoTeam => playerQueue.bracket \in Brackets

\* What is left in the queue or on its way there belongs to the engagement.
QueueHeld ==
    /\ match.st = "queue" => eng.active /\ match.team = eng.team
    /\ packets # {} => eng.active

EngTicks  == \E elapsed \in Elapsed : TickEngagement(elapsed)
Serves(t, s) == ServeOpponents(t, s) /\ UNCHANGED teams
ArenaStep == \/ PlayerQueues \/ PlayerLeavesQueue \/ JoinHandled \/ LeaveHandled
             \/ MatchPops \/ QueueDrops \/ MatchEnds

LEMMA WatchKinds ==
    ASSUME EngTypes, NEW elapsed \in Elapsed, TickQueueWatch(elapsed)
    PROVE  EngTicks \/ (\E t, s : s \in Brackets /\ Serves(t, s)) \/ UNCHANGED engVars
<1>1. CASE TickEngagement(elapsed)
  BY <1>1 DEF EngTicks
<1>2. CASE ServeQueuedPlayer /\ UNCHANGED teams
  BY <1>2 DEF ServeQueuedPlayer, Serves, EngTypes
<1>3. CASE ScanServesNobody
  BY <1>3 DEF ScanServesNobody, engVars
<1> QED
  BY <1>1, <1>2, <1>3 DEF TickQueueWatch

LEMMA EngStepKinds ==
    ASSUME EngTypes, [Next]_vars
    PROVE  \/ EngTicks
           \/ \E t, s : s \in Brackets /\ Serves(t, s)
           \/ ArenaStep \/ Crash \/ UNCHANGED engVars
<1>1. CASE UpdatePool
  BY <1>1 DEF UpdatePool
<1>2. CASE UpdateWatchOnly
  BY <1>2, WatchKinds DEF UpdateWatchOnly
<1>3. CASE UpdateWatch
  BY <1>3, WatchKinds DEF UpdateWatch
<1>4. CASE CmdPoolInit
  BY <1>4 DEF CmdPoolInit
<1>5. CASE ForceQueue
  BY <1>5 DEF ForceQueue, Serves
<1>6. CASE Logins \/ Disbandings \/ Workers
  BY <1>6 DEF Logins, Disbandings, Workers
<1>7. CASE Arena
  BY <1>7 DEF Arena, ArenaStep
<1>8. CASE UNCHANGED vars
  BY <1>8 DEF vars
<1> QED
  BY <1>1, <1>2, <1>3, <1>4, <1>5, <1>6, <1>7, <1>8 DEF Next, Update

\* Only the tiers of the ladder have lineups, finitely many of them.
LEMMA LineupIdsTypes ==
    ASSUME IsRows(table), NEW t, NEW s \in Brackets
    PROVE  /\ LineupIds(t, s) \in SUBSET Nat
           /\ IsFiniteSet(LineupIds(t, s))
           /\ LineupIds(t, s) # {} => t \in Tiers
<1> DEFINE D == {y \in DOMAIN table : y[1] = t}
           T == {table[x].team[s] : x \in D}
           f == [x \in D |-> table[x].team[s]]
<1>1. IsFiniteSet(Tiers \X Slots)
  <2>1. TierCount \in Int /\ TierSize - 1 \in Int
    BY WorldAssumption
  <2>2. IsFiniteSet(Tiers) /\ IsFiniteSet(Slots)
    BY <2>1, FS_Interval DEF Tiers, Slots
  <2> QED
    BY <2>2, FS_Product
<1>2. IsFiniteSet(D)
  BY <1>1, FS_Subset DEF IsRows
<1>3. f \in Surjection(D, T)
  BY DEF Surjection
<1>4. IsFiniteSet(T)
  BY <1>2, <1>3, FS_Surjection
<1>5. T \subseteq Nat /\ (T # {} => t \in Tiers)
  BY DEF IsRows, Row
<1>6. LineupIds(t, s) = T \ {0}
  BY DEF LineupIds
<1> QED
  BY <1>4, <1>5, <1>6, FS_Subset

LEMMA ServeEffect ==
    ASSUME EngTypes, IsRows(table), NEW t, NEW s \in Brackets, Serves(t, s)
    PROVE  /\ EngTypes' /\ match' = match /\ packets' = packets /\ ~eng.active
           /\ eng'.active => /\ t \in Tiers /\ eng'.tier = t /\ eng'.bracket = s
                             /\ eng'.team \in LineupIds(t, s) \cap DOMAIN teams
                             /\ \A o \in LineupIds(t, s) \cap DOMAIN teams :
                                  Rank(eng'.team, lastServed[t][s], LineupIds(t, s))
                                    <= Rank(o, lastServed[t][s], LineupIds(t, s))
<1> DEFINE ids == LineupIds(t, s)
           cur == lastServed[t][s]
<1>1. ids \subseteq Nat /\ t \in Tiers
  BY LineupIdsTypes DEF Serves, ServeOpponents
<1>2. \A id \in ids : [lastServed EXCEPT ![t][s] = id] \in [Tiers -> [Brackets -> Nat]]
  BY <1>1 DEF EngTypes
<1>3. CASE \E id \in ids \cap DOMAIN teams :
             /\ \A o \in ids \cap DOMAIN teams : Rank(id, cur, ids) <= Rank(o, cur, ids)
             /\ eng' = [NoEngagement EXCEPT
                          !.active = TRUE, !.tier = t, !.bracket = s, !.team = id,
                          !.captain = teams[id].captain, !.bots = Lineup(t, s, id)]
             /\ lastServed' = [lastServed EXCEPT ![t][s] = id]
  <2> PICK id \in ids \cap DOMAIN teams :
             /\ \A o \in ids \cap DOMAIN teams : Rank(id, cur, ids) <= Rank(o, cur, ids)
             /\ eng' = [NoEngagement EXCEPT
                          !.active = TRUE, !.tier = t, !.bracket = s, !.team = id,
                          !.captain = teams[id].captain, !.bots = Lineup(t, s, id)]
             /\ lastServed' = [lastServed EXCEPT ![t][s] = id]
    BY <1>3
  <2>1. IsEng(eng') /\ eng'.tier = t /\ eng'.bracket = s /\ eng'.team = id
    BY DEF IsEng, NoEngagement
  <2> QED
    BY <1>1, <1>2, <2>1 DEF EngTypes, Serves, ServeOpponents
<1>4. CASE eng' = eng /\ \E id \in ids : lastServed' = [lastServed EXCEPT ![t][s] = id]
  BY <1>2, <1>4 DEF EngTypes, Serves, ServeOpponents
<1> QED
  BY <1>3, <1>4 DEF Serves, ServeOpponents

LEMMA EngTypesStep == Typed /\ EngTypes /\ [Next]_vars => EngTypes'
<1> SUFFICES ASSUME Typed, EngTypes, [Next]_vars
             PROVE  EngTypes'
  OBVIOUS
<1>1. CASE EngTicks
  <2>1. PICK elapsed \in Elapsed : TickEngagement(elapsed)
    BY <1>1 DEF EngTicks
  <2>2. lastServed' = lastServed /\ playerQueue' = playerQueue
    BY <2>1 DEF TickEngagement
  <2>3. EngGoesOn \/ EngIsOver
    BY <2>1, EngTick DEF EngTypes
  <2> QED
    BY <2>2, <2>3, NoEngagementIsEng DEF EngTypes, EngGoesOn, SameTeam, EngIsOver
<1>2. CASE \E t, s : s \in Brackets /\ Serves(t, s)
  BY <1>2, ServeEffect DEF Typed, PoolTypes, IsTable
<1>3. CASE ArenaStep
  <2>1. eng' = eng /\ lastServed' = lastServed
    BY <1>3 DEF ArenaStep, PlayerQueues, PlayerLeavesQueue, JoinHandled, LeaveHandled,
                MatchPops, QueueDrops, MatchEnds
  <2>2. playerQueue' \in {playerQueue, NoTeam} \cup [rating : Ratings, bracket : Brackets]
    BY <1>3 DEF ArenaStep, PlayerQueues, PlayerLeavesQueue, JoinHandled, LeaveHandled,
                MatchPops, QueueDrops, MatchEnds
  <2> QED
    BY <2>1, <2>2 DEF EngTypes
<1>4. CASE Crash
  BY <1>4, NoEngagementIsEng DEF Crash, EngTypes
<1>5. CASE UNCHANGED engVars
  BY <1>5 DEF engVars, EngTypes
<1> QED
  BY <1>1, <1>2, <1>3, <1>4, <1>5, EngStepKinds

\* The engagement is a well-typed record whatever happens, and serves a tier of
\* the ladder.
LEMMA EngIsTyped == Spec => []EngTypes
<1>1. Init => EngTypes
  BY NoEngagementIsEng DEF Init, EngInit, EngTypes
<1> QED
  BY <1>1, EngTypesStep, PoolIsTyped, PTL DEF Spec

-----------------------------------------------------------------------------
(* The queue. *)

LEMMA QueueHeldStep == Typed /\ EngTypes /\ QueueHeld /\ [Next]_vars => QueueHeld'
<1> SUFFICES ASSUME Typed, EngTypes, QueueHeld, [Next]_vars
             PROVE  QueueHeld'
  OBVIOUS
<1>1. CASE EngTicks
  <2>1. EngGoesOn \/ EngIsOver
    BY <1>1, EngTick DEF EngTicks, EngTypes
  <2> QED
    BY <2>1 DEF QueueHeld, EngGoesOn, SameTeam, EngIsOver, InQueue, NoMatch
<1>2. CASE \E t, s : s \in Brackets /\ Serves(t, s)
  <2>1. match' = match /\ packets' = packets /\ ~eng.active
    BY <1>2, ServeEffect DEF Typed, PoolTypes, IsTable
  <2> QED
    BY <2>1 DEF QueueHeld
<1>3. CASE ArenaStep
  <2>1. eng' = eng
    BY <1>3 DEF ArenaStep, PlayerQueues, PlayerLeavesQueue, JoinHandled, LeaveHandled,
                MatchPops, QueueDrops, MatchEnds
  <2>2. CASE JoinHandled
    <3>1. match' \in {match, [st |-> "queue", team |-> eng.team]}
      BY <2>2 DEF JoinHandled
    <3> QED
      BY <2>1, <2>2, <3>1 DEF JoinHandled, QueueHeld
  <2>3. CASE MatchPops
    <3>1. match'.st = "arena" \/ match' = match
      BY <2>3 DEF MatchPops
    <3> QED
      BY <2>1, <2>3, <3>1 DEF MatchPops, QueueHeld
  <2>4. CASE PlayerQueues \/ PlayerLeavesQueue \/ LeaveHandled \/ QueueDrops \/ MatchEnds
    BY <2>1, <2>4 DEF PlayerQueues, PlayerLeavesQueue, LeaveHandled, QueueDrops,
                      MatchEnds, NoMatch, QueueHeld
  <2> QED
    BY <1>3, <2>2, <2>3, <2>4 DEF ArenaStep
<1>4. CASE Crash
  BY <1>4 DEF Crash, NoMatch, QueueHeld
<1>5. CASE UNCHANGED engVars
  BY <1>5 DEF engVars, QueueHeld
<1> QED
  BY <1>1, <1>2, <1>3, <1>4, <1>5, EngStepKinds

\* An ended engagement leaves no team in the arena queue and no packet on its way
\* there: whatever is queued or in flight is of the engagement that runs, and the
\* logout that ends it takes both along.
THEOREM NothingLeftQueuedHolds == Spec => []NothingLeftQueued
<1>1. Init => QueueHeld
  BY DEF Init, EngInit, NoMatch, QueueHeld
<1>2. QueueHeld => NothingLeftQueued
  BY DEF QueueHeld, NothingLeftQueued
<1> QED
  BY <1>1, <1>2, QueueHeldStep, EngIsTyped, PoolIsTyped, PTL DEF Spec

-----------------------------------------------------------------------------
(* The rotation. *)

LEMMA SmallerSet ==
    ASSUME NEW T, IsFiniteSet(T), NEW S \in SUBSET T, NEW x \in T, x \notin S
    PROVE  /\ Cardinality(S) \in Nat /\ Cardinality(T) \in Nat
           /\ Cardinality(S) < Cardinality(T)
<1>1. IsFiniteSet(S) /\ Cardinality(S) <= Cardinality(T) /\ Cardinality(S) # Cardinality(T)
  BY FS_Subset
<1>2. Cardinality(S) \in Nat /\ Cardinality(T) \in Nat
  BY <1>1, FS_CardinalityType
<1> QED
  BY <1>1, <1>2

\* A live lineup between the cursor and the team picked would have had a lower rank.
LEMMA LowestRankIsNext ==
    ASSUME NEW ids \in SUBSET Nat, IsFiniteSet(ids), NEW cur \in Nat,
           NEW id \in ids, NEW o \in ids,
           Rank(id, cur, ids) <= Rank(o, cur, ids)
    PROVE  ~ \/ cur < o /\ o < id
             \/ id <= cur /\ (o > cur \/ o < id)
<1>1. id \in Nat /\ o \in Nat /\ (\A i \in ids : i \in Nat)
  OBVIOUS
<1>2. \A S, T : S \subseteq T /\ T \subseteq ids /\ id \in T /\ id \notin S
                  => /\ Cardinality(S) \in Nat /\ Cardinality(T) \in Nat
                     /\ Cardinality(S) < Cardinality(T)
  BY FS_Subset, SmallerSet
<1>3. ASSUME cur < o, o < id
      PROVE  FALSE
  <2> DEFINE S == {i \in ids : cur < i /\ i <= o}
             T == {i \in ids : cur < i /\ i <= id}
  <2>1. S \subseteq T /\ T \subseteq ids
    <3>1. \A i \in ids : i <= o => i <= id
      BY <1>1, <1>3
    <3> QED
      BY <3>1
  <2>2. id \in T /\ id \notin S
    BY <1>1, <1>3
  <2>3. Rank(id, cur, ids) = Cardinality(T) /\ Rank(o, cur, ids) = Cardinality(S)
    BY <1>1, <1>3 DEF Rank
  <2> HIDE DEF S, T
  <2>4. Cardinality(S) \in Nat /\ Cardinality(T) \in Nat /\ Cardinality(S) < Cardinality(T)
    BY <1>2, <2>1, <2>2
  <2> QED
    BY <2>3, <2>4
<1>4. ASSUME id <= cur, o > cur
      PROVE  FALSE
  <2> DEFINE S == {i \in ids : cur < i /\ i <= o}
             T == {i \in ids : i > cur \/ i <= id}
  <2>1. S \subseteq T /\ T \subseteq ids
    BY <1>1, <1>4
  <2>2. id \in T /\ id \notin S
    BY <1>1, <1>4
  <2>3. Rank(id, cur, ids) = Cardinality(T) /\ Rank(o, cur, ids) = Cardinality(S)
    BY <1>1, <1>4 DEF Rank
  <2> HIDE DEF S, T
  <2>4. Cardinality(S) \in Nat /\ Cardinality(T) \in Nat /\ Cardinality(S) < Cardinality(T)
    BY <1>2, <2>1, <2>2
  <2> QED
    BY <2>3, <2>4
<1>5. ASSUME id <= cur, o < id
      PROVE  FALSE
  <2> DEFINE S == {i \in ids : i > cur \/ i <= o}
             T == {i \in ids : i > cur \/ i <= id}
  <2>1. S \subseteq T /\ T \subseteq ids
    <3>1. \A i \in ids : i <= o => i <= id
      BY <1>1, <1>5
    <3> QED
      BY <3>1
  <2>2. id \in T /\ id \notin S
    BY <1>1, <1>5
  <2>3. Rank(id, cur, ids) = Cardinality(T) /\ Rank(o, cur, ids) = Cardinality(S)
    BY <1>1, <1>5 DEF Rank
  <2> HIDE DEF S, T
  <2>4. Cardinality(S) \in Nat /\ Cardinality(T) \in Nat /\ Cardinality(S) < Cardinality(T)
    BY <1>2, <2>1, <2>2
  <2> QED
    BY <2>3, <2>4
<1> QED
  BY <1>1, <1>3, <1>4, <1>5

NextInTurn ==
    (~eng.active /\ eng'.active) =>
        \A o \in LineupIds(eng'.tier, eng'.bracket) \cap DOMAIN teams :
            LET cur == lastServed[eng'.tier][eng'.bracket] IN
            ~ \/ cur < o /\ o < eng'.team
              \/ eng'.team <= cur /\ (o > cur \/ o < eng'.team)

LEMMA RotationStep == Typed /\ EngTypes /\ [Next]_vars => NextInTurn
<1> SUFFICES ASSUME Typed, EngTypes, [Next]_vars, ~eng.active, eng'.active
             PROVE  NextInTurn
  BY DEF NextInTurn
<1>1. ~EngTicks
  BY DEF EngTicks, TickEngagement
<1>2. CASE \E t, s : s \in Brackets /\ Serves(t, s)
  <2> PICK t, s : s \in Brackets /\ Serves(t, s)
    BY <1>2
  <2> DEFINE ids == LineupIds(t, s)
             cur == lastServed[t][s]
  <2>1. /\ t \in Tiers /\ eng'.tier = t /\ eng'.bracket = s
        /\ eng'.team \in ids \cap DOMAIN teams
        /\ \A o \in ids \cap DOMAIN teams : Rank(eng'.team, cur, ids) <= Rank(o, cur, ids)
    BY ServeEffect DEF Typed, PoolTypes, IsTable
  <2>2. ids \in SUBSET Nat /\ IsFiniteSet(ids) /\ cur \in Nat
    BY <2>1, LineupIdsTypes DEF Typed, PoolTypes, IsTable, EngTypes
  <2>3. \A o \in ids \cap DOMAIN teams :
           ~ \/ cur < o /\ o < eng'.team
             \/ eng'.team <= cur /\ (o > cur \/ o < eng'.team)
    BY <2>1, <2>2, LowestRankIsNext
  <2> QED
    BY <2>1, <2>3 DEF NextInTurn
<1>3. ~ArenaStep
  BY DEF ArenaStep, PlayerQueues, PlayerLeavesQueue, JoinHandled, LeaveHandled,
         MatchPops, QueueDrops, MatchEnds
<1>4. ~Crash
  BY NoEngagementIsEng DEF Crash
<1>5. eng' # eng
  OBVIOUS
<1> QED
  BY <1>1, <1>2, <1>3, <1>4, <1>5, EngStepKinds DEF engVars

\* Serving rotates: whichever teams died or appeared since the cursor was set, no
\* live team of the tier and bracket stands between it and the team picked.
THEOREM RotationFairHolds == Spec => RotationFair
<1>1. Typed /\ EngTypes /\ [Next]_vars => [NextInTurn]_vars
  BY RotationStep
<1> QED
  BY <1>1, EngIsTyped, PoolIsTyped, PTL DEF Spec, RotationFair, NextInTurn

-----------------------------------------------------------------------------
(* The rating band. *)

\* What a usable ladder is: ascending ceilings and a rating for every tier within
\* its band. The configuration is free to break it; the shipped one, ceilings
\* 800, 1400 and 1800 and ratings 400, 1100, 1600 and 2000, does not.
Ladder ==
    /\ \A t, u \in 1 .. TierCount - 1 : t <= u => TierCeilings[t] <= TierCeilings[u]
    /\ \A t \in Tiers : InBand(TierRatings[t], t)

Rated == \A id \in DOMAIN teams : teams[id].rating \in Nat

\* On a ladder the band of a tier is what ArenaRosterTierFor sends to the tier.
LEMMA BandIsTier ==
    ASSUME Ladder, NEW r \in Nat, NEW t \in Tiers, InBand(r, t)
    PROVE  TierFor(r) = t
<1> DEFINE S == {u \in 1 .. TierCount - 1 : r < TierCeilings[u]} \cup {TierCount}
<1>1. TierCount \in Nat /\ t \in 1 .. TierCount
      /\ \A u \in 1 .. TierCount - 1 : TierCeilings[u] \in Nat
  BY WorldAssumption, EngagementAssumption DEF Tiers
<1>2. t \in S
  BY <1>1 DEF InBand
<1>3. ASSUME NEW u \in S
      PROVE  t <= u /\ u \in Int
  <2>1. CASE u = TierCount
    BY <1>1, <2>1
  <2>2. CASE u \in 1 .. TierCount - 1 /\ r < TierCeilings[u]
    <3>1. ASSUME u < t
          PROVE  FALSE
      <4>1. t - 1 \in 1 .. TierCount - 1 /\ u <= t - 1 /\ t >= 2
        BY <1>1, <2>2, <3>1
      <4>2. TierCeilings[u] <= TierCeilings[t - 1] /\ TierCeilings[t - 1] <= r
        BY <2>2, <4>1 DEF Ladder, InBand
      <4> QED
        BY <1>1, <2>2, <4>1, <4>2
    <3> QED
      BY <1>1, <2>2, <3>1
  <2> QED
    BY <2>1, <2>2
<1>4. \A x \in S : (\A y \in S : x <= y) => x = t
  BY <1>1, <1>2, <1>3
<1> HIDE DEF S
<1>5. (CHOOSE x \in S : \A y \in S : x <= y) = t
  BY <1>2, <1>3, <1>4
<1> QED
  BY <1>5 DEF TierFor, Min, S

LEMMA RatingRated ==
    ASSUME Rated, NEW id, NEW r \in Nat, teams' = [teams EXCEPT ![id].rating = r],
           \A i \in DOMAIN teams : IsTeam(teams[i])
    PROVE  Rated'
<1> SUFFICES ASSUME NEW i \in DOMAIN teams'
             PROVE  teams'[i].rating \in Nat
  BY DEF Rated
<1>1. CASE i # id
  BY <1>1 DEF Rated
<1>2. CASE i = id
  BY <1>2 DEF IsTeam
<1> QED
  BY <1>1, <1>2

LEMMA RenormalizedRated ==
    ASSUME Typed, EngTypes, Rated, eng.active, teams' = Renormalized
    PROVE  Rated'
<1>1. TierRatings[eng.tier] \in Nat
  BY WorldAssumption DEF EngTypes
<1>2. CASE teams' = teams
  BY <1>2 DEF Rated
<1>3. CASE teams' = [teams EXCEPT ![eng.team].rating = TierRatings[eng.tier]]
  BY <1>1, <1>3, RatingRated DEF Typed, PoolTypes
<1> QED
  BY <1>2, <1>3, Zenon DEF Renormalized

LEMMA WatchRated ==
    ASSUME Typed, EngTypes, Rated, NEW elapsed \in Elapsed, TickQueueWatch(elapsed)
    PROVE  Rated'
<1>1. CASE TickEngagement(elapsed)
  <2>1. eng.active /\ (teams' = teams \/ teams' = Renormalized)
    BY <1>1 DEF TickEngagement, TickLoggingIn, TickQueueing, TickFighting, TickDraining
  <2>2. CASE teams' = teams
    BY <2>2 DEF Rated
  <2> QED
    BY <2>1, <2>2, RenormalizedRated
<1>2. CASE teams' = teams
  BY <1>2 DEF Rated
<1> QED
  BY <1>1, <1>2 DEF TickQueueWatch

LEMMA JobRated ==
    ASSUME Typed, Rated, NEW elapsed \in Elapsed, TickPoolInit(elapsed), PoolBusy
    PROVE  Rated'
<1>1. CASE PhaseCreateTeams
  <2> DEFINE s == bracketStep
  <2>1. TierRatings[tierInProgress] \in Nat
    BY WorldAssumption DEF Typed, JobShape
  <2>2. \A k : TeamMade(s, k).rating \in Nat
    BY <1>1, <2>1, FreshNames DEF TeamMade, PhaseCreateTeams
  <2> QED
    BY <1>1, <2>2, CreateEffect DEF Rated
<1>2. CASE teams' = teams
  BY <1>2 DEF Rated
<1> QED
  BY <1>1, <1>2 DEF TickPoolInit, PhasePinBots, PhaseLoginWave, PhasePrepareBots, PhaseLogoutWave

LEMMA RatedStep == Typed /\ EngTypes /\ Rated /\ [Next]_vars => Rated'
<1> SUFFICES ASSUME Typed, EngTypes, Rated, [Next]_vars
             PROVE  Rated'
  OBVIOUS
<1>1. CASE UpdatePool
  BY <1>1, JobRated DEF UpdatePool
<1>2. CASE UpdateWatchOnly
  BY <1>2, WatchRated DEF UpdateWatchOnly
<1>3. CASE UpdateWatch
  BY <1>3, WatchRated DEF UpdateWatch, Rated
<1>4. CASE CmdPoolInit
  BY <1>4 DEF CmdPoolInit, StartPoolInit, DisbandPoolTeams, NoRows, Rated
<1>5. CASE Disbandings
  BY <1>5 DEF Disbandings, TeamVanishes, Rated
<1>6. CASE Arena
  <2>1. CASE MatchEnds
    <3> PICK r \in Ratings :
          teams' = IF match.team \in DOMAIN teams
                   THEN [teams EXCEPT ![match.team].rating = r] ELSE teams
      BY <2>1 DEF MatchEnds
    <3>1. CASE teams' = [teams EXCEPT ![match.team].rating = r]
      <4>1. r \in Nat /\ \A i \in DOMAIN teams : IsTeam(teams[i])
        BY EngagementAssumption DEF Typed, PoolTypes
      <4> QED
        BY <3>1, <4>1, RatingRated
    <3>2. CASE teams' = teams
      BY <3>2 DEF Rated
    <3> QED
      BY <3>1, <3>2
  <2>2. CASE teams' = teams
    BY <2>2 DEF Rated
  <2> QED
    BY <1>6, <2>1, <2>2 DEF Arena, PlayerQueues, PlayerLeavesQueue, JoinHandled,
                            LeaveHandled, MatchPops, QueueDrops, worldVars
<1>7. CASE teams' = teams
  BY <1>7 DEF Rated
<1> QED
  BY <1>1, <1>2, <1>3, <1>4, <1>5, <1>6, <1>7
     DEF Next, Update, ForceQueue, Logins, LoginDone, BotLost, Workers, RunWrite,
         Crash, WorldCrash, vars, worldVars

LEMMA RatedHolds == Spec => []Rated
<1>1. Init => Rated
  BY DEF Init, WorldInit, NoRows, Rated
<1> QED
  BY <1>1, RatedStep, EngIsTyped, PoolIsTyped, PTL DEF Spec

BackInBand ==
    (eng.st = "Fighting" /\ eng'.st = "Draining" /\ eng.team \in DOMAIN teams') =>
        TierFor(teams'[eng.team].rating) = eng.tier

LEMMA FightEnds ==
    ASSUME Ladder, Typed, EngTypes, Rated, eng.active, teams' = Renormalized,
           eng.team \in DOMAIN teams'
    PROVE  TierFor(teams'[eng.team].rating) = eng.tier
<1>1. eng.tier \in Tiers /\ TierRatings[eng.tier] \in Nat
  BY WorldAssumption DEF EngTypes
<1>2. DOMAIN teams' = DOMAIN teams
  BY DEF Renormalized
<1>3. teams[eng.team].rating \in Nat /\ IsTeam(teams[eng.team])
  BY <1>2 DEF Rated, Typed, PoolTypes
<1>4. CASE InBand(teams[eng.team].rating, eng.tier)
  <2>1. teams' = teams
    BY <1>4 DEF Renormalized
  <2> QED
    BY <1>1, <1>3, <1>4, <2>1, BandIsTier
<1>5. CASE ~InBand(teams[eng.team].rating, eng.tier)
  <2>1. teams'[eng.team].rating = TierRatings[eng.tier]
    BY <1>2, <1>3, <1>5 DEF Renormalized, IsTeam
  <2>2. InBand(TierRatings[eng.tier], eng.tier)
    BY <1>1 DEF Ladder
  <2> QED
    BY <1>1, <2>1, <2>2, BandIsTier
<1> QED
  BY <1>4, <1>5

LEMMA BandStep ==
    Ladder /\ Typed /\ EngTypes /\ Rated /\ [Next]_vars => BackInBand
<1> SUFFICES ASSUME Ladder, Typed, EngTypes, Rated, [Next]_vars,
                    eng.st = "Fighting", eng'.st = "Draining", eng.team \in DOMAIN teams'
             PROVE  TierFor(teams'[eng.team].rating) = eng.tier
  BY DEF BackInBand
<1>1. CASE EngTicks
  <2>1. PICK elapsed \in Elapsed : TickEngagement(elapsed)
    BY <1>1 DEF EngTicks
  <2>2. eng.active /\ TickFighting(elapsed)
    BY <2>1 DEF TickEngagement, TickLoggingIn, TickQueueing, TickDraining
  <2>3. Ticked(elapsed).st = "Fighting"
    BY DEF EngTypes, IsEng, NoEngagement, Ticked
  <2>4. teams' = Renormalized
    BY <2>2, <2>3 DEF TickFighting
  <2> QED
    BY <2>2, <2>4, FightEnds
<1>2. CASE \E t, s : s \in Brackets /\ Serves(t, s)
  BY <1>2 DEF Serves, ServeOpponents, NoEngagement
<1>3. CASE ArenaStep
  BY <1>3 DEF ArenaStep, PlayerQueues, PlayerLeavesQueue, JoinHandled, LeaveHandled,
              MatchPops, QueueDrops, MatchEnds
<1>4. CASE Crash
  BY <1>4 DEF Crash, NoEngagement
<1>5. eng' # eng
  OBVIOUS
<1> QED
  BY <1>1, <1>2, <1>3, <1>4, <1>5, EngStepKinds DEF engVars

\* On a usable ladder a fought match leaves the served team, if it still exists,
\* with a rating that belongs to the tier it was served for.
THEOREM RenormalizedHolds == ASSUME Ladder PROVE Spec => RenormalizedAfterMatch
<1>1. Typed /\ EngTypes /\ Rated /\ [Next]_vars => [BackInBand]_vars
  BY BandStep
<1> QED
  BY <1>1, EngIsTyped, PoolIsTyped, RatedHolds, PTL
     DEF Spec, RenormalizedAfterMatch, BackInBand
=============================================================================
