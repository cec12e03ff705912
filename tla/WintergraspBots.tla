--------------------------- MODULE WintergraspBots ---------------------------
(***************************************************************************)
(* The battle director of mod-wintergrasp-bots.  OnUpdate runs on the      *)
(* world thread; while a battle is on it moves the managed bots every      *)
(* second and reconciles everything else every TicksPerFull seconds: the   *)
(* breach stage, the defenders' sortie, the field garrison, who is         *)
(* managed, who does what, the cannon gunners and the abandoned engines.   *)
(* Whatever the battle does, it does between two ticks: bots walk, die and *)
(* leave, walls fall, workshops flip, engines are built and deserted.      *)
(***************************************************************************)
EXTENDS WintergraspJobs

CONSTANTS Bots, NoBot, TeamOf, Adoptable, Cannons,
          TicksPerFull, PerFaction, Grace, ReapTicks, SquadSize, MaxStrays, MaxVehicles,
          BackToBack   \* a battle may begin before OnUpdate ran after the last one

ASSUME BotsAssumption ==
  /\ IsFiniteSet(Bots) /\ NoBot \notin Bots /\ Adoptable \subseteq Bots
  /\ TeamOf \in [Bots -> Teams]
  /\ {Cannons, PerFaction, Grace, SquadSize, MaxStrays, MaxVehicles} \subseteq Nat
  /\ {TicksPerFull, ReapTicks} \subseteq Nat \ {0}
  /\ BackToBack \in BOOLEAN

VARIABLES
  war,         \* the battlefield is at war
  peace,       \* OnUpdate has run since the last battle ended
  attacker,    \* its attacking team
  fallen,      \* axis structures down: door, mid wall, last door
  owner,       \* workshop -> controlling team
  bot,         \* Bots -> [place, alive, seat]
  ranked,      \* bots with the Lieutenant aura
  engine,      \* the siege engine: [at, driver, rider], at "none" when dead
  guards,      \* workshop -> guards of its squad (_garrison) still standing
  strays,      \* workshop -> guards in no squad: [slot, afar], at its post or off it
  shelled,     \* the axis structure that lost health since the director looked, or 0
  clock,       \* _accumMs in seconds
  active,      \* _battleActive
  stage,       \* _breachStage
  seen,        \* _attackerTeam, _relicOpen and _controlled of the last look
  managed,     \* _managed of both teams
  objective,   \* _objective: managed bot -> anchor
  sortie,      \* _sortieReleased, _sortieAgeMs, _sortieLowTicks
  wallSeen,    \* _wallHealth holds the axis structures
  squadOwner,  \* _garrisonOwner, "none" where no squad was raised
  dry,         \* _gunnerIdle: gunner -> reconciles without a target
  idle         \* _idleVeh of the engine, in reconciles

world == << war, peace, attacker, fallen, owner, bot, ranked, engine, guards, strays, shelled >>
director == << clock, active, stage, seen, managed, objective, sortie,
               wallSeen, squadOwner, dry, idle >>
vars == << world, director >>

NoEngine == [at |-> "none", driver |-> NoBot, rider |-> FALSE]
Walk == [released |-> FALSE, age |-> 0, low |-> 0]   \* no sortie under way
NoStrays == [slot |-> 0, afar |-> 0]
Nothing == [w \in Workshops |-> "none"]
Unseen(att) == [attacker |-> att, open |-> FALSE, held |-> [t \in Teams |-> 0]]

TypeOK ==
  /\ {war, peace} \subseteq BOOLEAN /\ attacker \in Teams /\ fallen \in 0..3
  /\ owner \in [Workshops -> Teams \cup {"none"}]
  /\ bot \in [Bots -> [place : Places, alive : BOOLEAN,
                       seat : {"foot", "cannon", "engine"}]]
  /\ ranked \subseteq Bots
  /\ engine \in [at : Ground \cup {"none"}, driver : Bots \cup {NoBot}, rider : BOOLEAN]
  /\ guards \in [Workshops -> 0..SquadSize]
  /\ strays \in [Workshops -> [slot : 0..MaxStrays, afar : 0..MaxStrays]]
  /\ shelled \in 0..3 /\ wallSeen \in BOOLEAN
  /\ clock \in 0..(TicksPerFull - 1) /\ active \in BOOLEAN /\ stage \in 0..2
  /\ seen.attacker \in Teams /\ seen.open \in BOOLEAN
  /\ managed \subseteq Bots
  /\ DOMAIN objective \subseteq Bots
  /\ \A b \in DOMAIN objective : objective[b] \in Ground
  /\ sortie \in [released : BOOLEAN, age : 0..(Grace + 1), low : 0..1]
  /\ squadOwner \in [Workshops -> Teams \cup {"none"}]
  /\ DOMAIN dry \subseteq Bots /\ \A b \in DOMAIN dry : dry[b] \in 0..1
  /\ idle \in 0..(ReapTicks - 1)

-----------------------------------------------------------------------------
\* Bots as the director looks at them.

InZone(b) == bot[b].place \in Ground
Afoot(b) == InZone(b) /\ bot[b].alive /\ bot[b].seat = "foot"
Gunner(b) == bot[b].alive /\ bot[b].seat = "cannon"
OfTeam(S, t) == {b \in S : TeamOf[b] = t}
Defending == Other(attacker)
Without(f, S) == [b \in DOMAIN f \ S |-> f[b]]
Merge(f, g) == [b \in DOMAIN f \cup DOMAIN g |-> IF b \in DOMAIN g THEN g[b] ELSE f[b]]

\* BuildBattleState: the living defender nearest the gate looks around, and
\* everything he cannot see is not there this time.
Scouts(S) == {b \in OfTeam(S, Defending) : InZone(b) /\ bot[b].alive}
Nearest(S) == {b \in S : \A c \in S : Dist2(bot[b].place, KeepGate) <= Dist2(bot[c].place, KeepGate)}
Spotted(p) == \E b \in Nearest(Scouts(managed)) : InSight(bot[b].place, p)

\* The engine keeps the attacker's colours, crewed or deserted.
ThreatCount ==
  IF engine.at # "none" /\ Spotted(engine.at) /\ Within(engine.at, KeepGate, 35)
  THEN 1 ELSE 0
\* In front of the structure that was hit, standing or just fallen.
FiredWall == CASE shelled = 3 -> "inner" [] shelled = 2 -> "court" [] OTHER -> "gate"
WallUnderFire == Spotted(KeepGate) /\ wallSeen /\ shelled > 0

Crewed(S) == engine.driver \in OfTeam(S, attacker) /\ bot[engine.driver].alive
Convoy(S) == IF Crewed(S) THEN << engine.at >> ELSE << >>

Controlled == [t \in Teams |-> Cardinality({w \in Workshops : owner[w] = t})]

Battle(S) ==
  [ owner |-> owner, attacker |-> attacker, open |-> fallen = 3,
    stage |-> stage', held |-> Controlled, released |-> sortie'.released,
    vehicles |-> IF engine.at = "none" THEN 0 ELSE 1, maxVeh |-> MaxVehicles,
    lts |-> Cardinality({b \in OfTeam(managed, attacker) :
                           bot[b].place # "flight" /\ bot[b].alive /\ b \in ranked}),
    van |-> Convoy(managed), convoy |-> Convoy(S),
    threat |-> ThreatCount, threatAt |-> engine.at,
    fired |-> WallUnderFire, firedAt |-> FiredWall ]

-----------------------------------------------------------------------------
\* The parts of Reconcile, in its order.

LookAround ==
  seen' = [attacker |-> attacker, open |-> fallen = 3, held |-> Controlled]

\* The managed bot nearest the gate reads the doors, if it can see them; the
\* stage is latched for the battle.
UpdateStage(latched) ==
  LET near == Nearest({b \in managed : InZone(b)})
      read == IF fallen > 2 THEN 2 ELSE fallen
  IN stage' \in {IF InSight(bot[b].place, KeepGate) /\ read > latched
                 THEN read ELSE latched : b \in near}
             \cup (IF near = {} THEN {latched} ELSE {})

AtRally(b) ==
  LET rally == IF ThreatCount > 0 THEN engine.at ELSE FiredWall
  IN ~IsInsideKeep(bot[b].place) /\ Within(bot[b].place, rally, 8)
Troop == {b \in OfTeam(managed, Defending) : Afoot(b)}

\* UpdateSortie: hold at the muster until the quorum is there, leave as a
\* wave, regroup once the wave is gone for two looks after its grace.
UpdateSortie ==
  LET threat == ThreatCount > 0 \/ WallUnderFire
      age == IF sortie.age > Grace THEN sortie.age ELSE sortie.age + 1
      gone == age > Grace /\ Cardinality({b \in Troop : AtRally(b)}) < 2
      mustered == Cardinality({b \in Troop : Within(bot[b].place, "muster", 2)})
      want == RallyWant([threat |-> ThreatCount], Cardinality(Troop))
      quorum == IF Quorum < want THEN Quorum ELSE want
  IN sortie' =
       CASE ~threat \/ Quorum = 0 -> Walk
         [] threat /\ Quorum > 0 /\ sortie.released ->
              IF gone /\ sortie.low = 1 THEN Walk
              ELSE [released |-> TRUE, age |-> age, low |-> IF gone THEN 1 ELSE 0]
         [] OTHER -> [Walk EXCEPT !.released = mustered >= quorum]

Flipped(w) == owner[w] \in Teams /\ squadOwner[w] # owner[w]
Strays(w) == strays[w].slot + strays[w].afar

\* Guards of the old squad that the map does not find by their ids stay where
\* they are, in no list: how many at their slots, and how many off them.
Orphans == [slot : 0..SquadSize, afar : 0..SquadSize]
Missed(w) ==
  {l \in Orphans : /\ l.slot + l.afar <= guards[w]
                   /\ l # NoStrays => Strays(w) + l.slot + l.afar <= MaxStrays}
Left(w, l) == [slot |-> strays[w].slot + l.slot, afar |-> strays[w].afar + l.afar]

\* The audit looks around from a guard: whoever stands at a slot of the post
\* and is not of the squad is removed.
Swept(s) == [s EXCEPT !.slot = 0]

StraysAuditFirst(w, l, n) ==
  IF n = 0 THEN Left(w, l) ELSE [slot |-> l.slot, afar |-> strays[w].afar + l.afar]
StraysOf(w, l, n) == IF n = 0 THEN Left(w, l) ELSE Swept(Left(w, l))

\* UpdateGarrison: a post whose workshop changed hands loses its squad and gets
\* one of the new owner, as many guards as the core lets spawn.  With nobody in
\* Wintergrasp its map may not be loaded.
Turns(w) ==
  IF Flipped(w)
  THEN {[squad |-> n, left |-> StraysOf(w, l, n), by |-> owner[w]] :
          l \in Missed(w), n \in 0..SquadSize}
  ELSE {[squad |-> guards[w], left |-> strays[w], by |-> squadOwner[w]]}
UpdateGarrison ==
  \/ (\A b \in Bots : ~InZone(b)) /\ UNCHANGED << guards, strays, squadOwner >>
  \/ \E post \in [Workshops -> UNION {Turns(w) : w \in Workshops}] :
       /\ \A w \in Workshops : post[w] \in Turns(w)
       /\ guards' = [w \in Workshops |-> post[w].squad]
       /\ strays' = [w \in Workshops |-> post[w].left]
       /\ squadOwner' = [w \in Workshops |-> post[w].by]

\* Adopt every eligible living bot in the zone, drop whoever is not there.
AdoptAndPrune ==
  (managed \cup {b \in Adoptable : InZone(b) /\ bot[b].alive}) \ {b \in Bots : ~InZone(b)}

Pool(S) == {b \in S : Afoot(b)}

\* A gunner fires at an engine in range; dry for two looks, or with the keep
\* out of danger, he climbs down.
DryFor(b) ==
  IF engine.at # "none" /\ Within(bot[b].place, engine.at, 12) THEN 0
  ELSE (IF b \in DOMAIN dry THEN dry[b] ELSE 0) + 1
StandDown(S) ==
  {b \in S : Gunner(b) /\ (DryFor(b) >= 2 \/ ~(ThreatCount > 0 \/ WallUnderFire))}
UpdateGunners(S) ==
  LET out == StandDown(S)
      manning == {b \in S : Gunner(b)} \ out
      kept == ((DOMAIN dry \cap S) \ Pool(S)) \ (out \cup manning)
  IN dry' = [b \in manning \cup kept |-> IF b \in manning THEN DryFor(b) ELSE dry[b]]

\* EnforceBreachFrontier, with what the director knows of the relic.
Snapped(b, st, knows) ==
  Frontier(bot[b].place, TeamOf[b] = knows.attacker, st, knows.open)
OutOfBounds(b, st, knows) == Snapped(b, st, knows) # bot[b].place

\* TrySeatCannon and TryRecrewVehicle for the bots that got that far.
FreeCannons(S) ==
  Cannons - Cardinality({b \in Bots : bot[b].seat = "cannon"} \ StandDown(S))
MayCrew(b, job) ==
  job.duty = "crew" /\ \E p \in {"post", "spost"} : Within(bot[b].place, p, 3)
MayDrive(b, job) ==
  /\ TeamOf[b] = attacker /\ job.duty = "generic"
  /\ engine.at # "none" /\ engine.driver = NoBot
  /\ Within(bot[b].place, engine.at, 4)

\* SelectEligibleBots: as many free bots of the team as it is short of living
\* bots in the zone.
CountInZoneBots(t) == Cardinality({b \in OfTeam(Bots, t) : InZone(b) /\ bot[b].alive})
Shortage(t) == PerFaction - CountInZoneBots(t)
Picks(t) ==
  LET free == {b \in OfTeam(Adoptable, t) : bot[b].place = "away" /\ bot[b].alive}
      want == Cardinality(free)
      n == IF Shortage(t) < want THEN Shortage(t) ELSE want
  IN IF n <= 0 THEN {{}} ELSE {S \in SUBSET free : Cardinality(S) = n}

\* ReapIdleVehicles: an engine some managed attacker sees empty ages, and is
\* killed at the threshold; any other look starts it afresh.
ReapIdleVehicleTotal(driver) ==
  LET empty == /\ engine.at # "none" /\ driver = NoBot /\ ~engine.rider
               /\ \E b \in OfTeam(managed', attacker) :
                    bot'[b].place \in Ground /\ Within(bot'[b].place, engine.at, 40)
      reap == empty /\ idle + 1 >= ReapTicks
  IN /\ idle' = IF reap THEN 0 ELSE IF empty THEN idle + 1 ELSE idle
     /\ engine' = IF reap THEN NoEngine ELSE [engine EXCEPT !.driver = driver]

ReapIdleVehicle(driver) ==
  LET empty == /\ engine.at # "none" /\ driver = NoBot /\ ~engine.rider
               /\ \E b \in OfTeam(managed', attacker) :
                    bot'[b].place \in Ground /\ Within(bot'[b].place, engine.at, 40)
      reap == empty /\ idle + 1 >= ReapTicks
  IN /\ idle' = IF empty /\ ~reap THEN idle + 1 ELSE 0
     /\ engine' = IF reap THEN NoEngine ELSE [engine EXCEPT !.driver = driver]

Orders(plan, S, out, crew, driver, picks) ==
  [b \in Bots |->
    CASE b \in out /\ b \in DOMAIN plan -> [bot[b] EXCEPT !.place = Snapped(b, stage', seen')]
      [] b \in out /\ b \notin DOMAIN plan -> [bot[b] EXCEPT !.seat = "foot"]
      [] b \in crew -> [bot[b] EXCEPT !.seat = "cannon"]
      [] b = driver /\ driver # engine.driver ->
           [bot[b] EXCEPT !.seat = "engine", !.place = engine.at]
      [] b \in picks -> [bot[b] EXCEPT !.place = "flight"]
      [] OTHER -> bot[b]]

Assign(S) ==
  LET place == [b \in S |-> bot[b].place]
      Plan(t) == Plans(BuildJobs(Battle(S), t, Cardinality(OfTeam(Pool(S), t))),
                       OfTeam(Pool(S), t), place, ranked)
  IN \E pa \in Plan("alliance"), ph \in Plan("horde") :
     LET plan == Merge(pa, ph)
         out == {b \in Pool(S) : OutOfBounds(b, stage', seen')}
         able == Pool(S) \ out
         busy == {b \in able : seen'.open /\ bot[b].place = "relic"}
     IN \E crew \in SUBSET {b \in able : MayCrew(b, plan[b])},
           driver \in {engine.driver} \cup {b \in able \ busy : MayDrive(b, plan[b])},
           xa \in Picks("alliance"), xh \in Picks("horde") :
          /\ Cardinality(crew) <= FreeCannons(S) /\ driver \notin crew
          /\ managed' = S \cup xa \cup xh
          /\ objective' = Merge([b \in DOMAIN objective \cap S |-> objective[b]],
                                [b \in Pool(S) |-> plan[b].at])
          /\ bot' = Orders(plan, S, out \cup StandDown(S), crew, driver, xa \cup xh)
          /\ ReapIdleVehicle(driver)

Reconcile(latched) ==
  LET S == AdoptAndPrune IN
  /\ LookAround
  /\ UpdateStage(latched)
  /\ wallSeen' = (wallSeen \/ Spotted(KeepGate))
  /\ shelled' = IF Spotted(KeepGate) THEN 0 ELSE shelled
  /\ UpdateSortie
  /\ UpdateGarrison
  /\ UpdateGunners(S)
  /\ Assign(S)
  /\ UNCHANGED ranked

\* MovementTick: between two reconciles only the frontier is enforced; the
\* steps towards the objective are the walks below.
MovementTick(latched) ==
  /\ stage' = latched
  /\ bot' = [b \in Bots |->
       IF b \in managed /\ Afoot(b)
       THEN [bot[b] EXCEPT !.place = Snapped(b, latched, seen)] ELSE bot[b]]
  /\ UNCHANGED << ranked, engine, guards, strays, shelled, seen, managed, objective, sortie, wallSeen, squadOwner, dry, idle >>

\* The garrison stands down: the guards of a squad go, and if one of them is
\* found, dead or alive, so does whoever is left at the slots.
Departures(w) ==
  {Left(w, l) : l \in {m \in Missed(w) : m.slot + m.afar = guards[w]}}
  \cup (IF squadOwner[w] = "none" THEN {} ELSE {Swept(Left(w, l)) : l \in Missed(w)})
StandGarrisonDown ==
  \E left \in [Workshops -> UNION {Departures(w) : w \in Workshops}] :
    /\ \A w \in Workshops : left[w] \in Departures(w)
    /\ strays' = left
    /\ guards' = [w \in Workshops |-> 0] /\ squadOwner' = Nothing

ReleaseAll ==
  /\ StandGarrisonDown
  /\ managed' = {} /\ objective' = << >> /\ dry' = << >> /\ idle' = 0
  /\ seen' = Unseen(seen.attacker)
  /\ stage' = 0 /\ sortie' = Walk /\ wallSeen' = FALSE
  /\ UNCHANGED << bot, ranked, engine, shelled >>

Idle == UNCHANGED << bot, ranked, engine, guards, strays, shelled, stage, seen, managed,
                     objective, sortie, wallSeen, squadOwner, dry, idle >>

OnUpdateReleaseOnFull ==
  LET full == clock + 1 = TicksPerFull
      latched == IF active THEN stage ELSE 0
  IN /\ clock' = IF full THEN 0 ELSE clock + 1
     /\ active' = (war \/ (active /\ ~full))
     /\ peace' = ~war /\ UNCHANGED << war, attacker, fallen, owner >>
     /\ \/ war /\ full /\ Reconcile(latched)
        \/ war /\ ~full /\ MovementTick(latched)
        \/ ~war /\ active /\ full /\ ReleaseAll
        \/ ~war /\ ~(active /\ full) /\ Idle

OnUpdate ==
  LET full == clock + 1 = TicksPerFull
      latched == IF active THEN stage ELSE 0
  IN /\ clock' = IF full THEN 0 ELSE clock + 1
     /\ active' = war
     /\ peace' = ~war /\ UNCHANGED << war, attacker, fallen, owner >>
     /\ \/ war /\ full /\ Reconcile(latched)
        \/ war /\ ~full /\ MovementTick(latched)
        \/ ~war /\ active /\ ReleaseAll
        \/ ~war /\ ~active /\ Idle

-----------------------------------------------------------------------------
\* The battle between two ticks.

\* The core rebuilds every wall to full health.
BattleStarts ==
  /\ ~war /\ (peace \/ BackToBack)
  /\ war' = TRUE /\ peace' = FALSE /\ fallen' = 0
  /\ attacker' \in Teams /\ owner' \in [Workshops -> Teams]
  /\ shelled' = 0
  /\ UNCHANGED << bot, ranked, engine, guards, strays, director >>

BattleEnds ==
  /\ war /\ war' = FALSE /\ peace' = FALSE
  /\ ranked' = {} /\ engine' = NoEngine
  /\ bot' = [b \in Bots |-> [bot[b] EXCEPT !.seat = "foot"]]
  /\ UNCHANGED << attacker, fallen, owner, guards, strays, shelled, director >>

WallFalls ==
  /\ war /\ fallen < 3 /\ fallen' = fallen + 1 /\ shelled' = fallen + 1
  /\ UNCHANGED << war, peace, attacker, owner, bot, ranked, engine, guards, strays, director >>

WallHit ==
  /\ war /\ fallen < 3 /\ shelled' = fallen + 1
  /\ UNCHANGED << war, peace, attacker, fallen, owner, bot, ranked, engine, guards, strays, director >>

WorkshopFlips(w) ==
  /\ war /\ \E t \in Teams \cup {"none"} : owner' = [owner EXCEPT ![w] = t]
  /\ UNCHANGED << war, peace, attacker, fallen, bot, ranked, engine, guards, strays, shelled, director >>

\* Guards fall, of the squad or not; a stray runs after an enemy and comes back.
GuardDies(w) ==
  /\ guards[w] > 0 /\ guards' = [guards EXCEPT ![w] = @ - 1]
  /\ UNCHANGED << war, peace, attacker, fallen, owner, bot, ranked, engine, strays, shelled, director >>

StrayMoves(w) ==
  /\ strays' \in {[strays EXCEPT ![w] = s] :
                    s \in {t \in [slot : 0..Strays(w), afar : 0..Strays(w)] :
                             t.slot + t.afar \in {Strays(w), Strays(w) - 1}}}
  /\ UNCHANGED << war, peace, attacker, fallen, owner, bot, ranked, engine, guards, shelled, director >>

\* A kill at a garrison gives a bot of the attacker its rank.
Promoted(b) ==
  /\ war /\ InZone(b) /\ TeamOf[b] = attacker /\ ranked' = ranked \cup {b}
  /\ UNCHANGED << war, peace, attacker, fallen, owner, bot, engine, guards, strays, shelled, director >>

\* .wgbots grantrank: every bot of the attacker in the zone.
HandleGrantRank ==
  /\ war /\ ranked' = ranked \cup {b \in OfTeam(Bots, attacker) : InZone(b)}
  /\ UNCHANGED << war, peace, attacker, fallen, owner, bot, engine, guards, strays, shelled, director >>

\* Steps of the director, of playerbots and of native combat movement: the
\* last goes through standing walls.
BotWalks(b, p) ==
  /\ Afoot(b) /\ bot' = [bot EXCEPT ![b].place = p]
  /\ UNCHANGED << war, peace, attacker, fallen, owner, ranked, engine, guards, strays, shelled, director >>

\* A bot sent to the battle arrives, and another comes on its own.
BotArrives(b) ==
  /\ bot[b].place \in {"flight", "away"}
  /\ bot' = [bot EXCEPT ![b].place = "center"]
  /\ UNCHANGED << war, peace, attacker, fallen, owner, ranked, engine, guards, strays, shelled, director >>

BotLeaves(b) ==
  /\ InZone(b) /\ bot[b].seat = "foot"
  /\ bot' = [bot EXCEPT ![b].place = "away", ![b].alive = TRUE]
  /\ UNCHANGED << war, peace, attacker, fallen, owner, ranked, engine, guards, strays, shelled, director >>

Off(b) == IF engine.driver = b THEN [engine EXCEPT !.driver = NoBot] ELSE engine

BotDies(b) ==
  /\ InZone(b) /\ bot[b].alive
  /\ bot' = [bot EXCEPT ![b].alive = FALSE, ![b].seat = "foot"] /\ engine' = Off(b)
  /\ UNCHANGED << war, peace, attacker, fallen, owner, ranked, guards, strays, shelled, director >>

BotRevives(b) ==
  /\ ~bot[b].alive /\ bot' = [bot EXCEPT ![b].alive = TRUE]
  /\ UNCHANGED << war, peace, attacker, fallen, owner, ranked, engine, guards, strays, shelled, director >>

\* FindAttackerBotToBuild; the model's battle has one engine at a time.
CanBuild(b) == war /\ Afoot(b) /\ TeamOf[b] = attacker
Built(b, p) ==
  /\ CanBuild(b) /\ engine.at = "none"
  /\ engine' = [at |-> p, driver |-> b, rider |-> FALSE]
  /\ bot' = [bot EXCEPT ![b].seat = "engine", ![b].place = p]
  /\ UNCHANGED << war, peace, attacker, fallen, owner, ranked, guards, strays, shelled, director >>

\* The siege strategy of playerbots, or .wgbots buildtest, builds an engine and
\* seats a bot of the attacker in it; siegetest also moves it to the door.
EngineBuilt(b) == Built(b, bot[b].place)
HandleSiegeTest(b) == Built(b, "gate")

\* .wgbots siegeprep: a bot of the attacker is put down at the fortress door.
HandleSiegePrep(b) ==
  /\ CanBuild(b) /\ bot' = [bot EXCEPT ![b].place = "gate"]
  /\ UNCHANGED << war, peace, attacker, fallen, owner, ranked, engine, guards, strays, shelled, director >>

\* .wgbots hitcast and siegefire: a bot seated anywhere fires at what it finds
\* near it, the first at a fortification and the second at a door.
Fires(range) ==
  /\ \E b \in Bots, p \in {"gate", "inner"} :
       InZone(b) /\ bot[b].seat # "foot" /\ Within(bot[b].place, p, range)
  /\ WallHit \/ WallFalls
HandleHitCast == Fires(20)
HandleSiegeFire == Fires(12)

EngineDrives(p) ==
  /\ engine.driver # NoBot
  /\ engine' = [engine EXCEPT !.at = p]
  /\ bot' = [bot EXCEPT ![engine.driver].place = p]
  /\ UNCHANGED << war, peace, attacker, fallen, owner, ranked, guards, strays, shelled, director >>

EngineDeserted ==
  /\ engine.driver # NoBot
  /\ engine' = Off(engine.driver) /\ bot' = [bot EXCEPT ![engine.driver].seat = "foot"]
  /\ UNCHANGED << war, peace, attacker, fallen, owner, ranked, guards, strays, shelled, director >>

\* A player takes or leaves a passenger seat.
RiderMoves ==
  /\ engine.at # "none" /\ engine' = [engine EXCEPT !.rider = ~@]
  /\ UNCHANGED << war, peace, attacker, fallen, owner, bot, ranked, guards, strays, shelled, director >>

Init ==
  /\ war = FALSE /\ peace = TRUE /\ attacker \in Teams /\ fallen = 0
  /\ owner = [w \in Workshops |-> "none"]
  /\ bot \in [Bots -> [place : {"away"}, alive : BOOLEAN, seat : {"foot"}]]
  /\ ranked = {} /\ engine = NoEngine
  /\ guards = [w \in Workshops |-> 0] /\ strays = [w \in Workshops |-> NoStrays]
  /\ shelled = 0 /\ clock = 0 /\ active = FALSE /\ stage = 0
  /\ seen = Unseen(attacker) /\ managed = {} /\ objective = << >>
  /\ sortie = Walk /\ wallSeen = FALSE /\ squadOwner = Nothing
  /\ dry = << >> /\ idle = 0

Battlefield ==
  \/ BattleStarts \/ BattleEnds \/ WallFalls \/ WallHit
  \/ \E w \in Workshops : WorkshopFlips(w) \/ GuardDies(w) \/ StrayMoves(w)

Field ==
  \/ \E b \in Bots : \/ Promoted(b) \/ BotArrives(b) \/ BotLeaves(b) \/ BotDies(b)
                     \/ BotRevives(b) \/ EngineBuilt(b) \/ HandleSiegeTest(b)
                     \/ HandleSiegePrep(b) \/ \E p \in Ground : BotWalks(b, p)
  \/ \E p \in Ground : EngineDrives(p)
  \/ EngineDeserted \/ RiderMoves \/ HandleGrantRank \/ HandleHitCast \/ HandleSiegeFire

Next == OnUpdate \/ Battlefield \/ Field
Spec == Init /\ [][Next]_vars /\ WF_vars(OnUpdate)

-----------------------------------------------------------------------------
Reconciled == clock = TicksPerFull - 1 /\ clock' = 0 /\ war /\ war'
Ticked == clock' # clock /\ war /\ active

\* No attacker the director manages stands, after a tick, beyond a wall that
\* is still up: what the director remembers of the doors never runs ahead of
\* them, over battles, restarts and lost sight of the keep.
FrontierHeld ==
  [][Ticked => \A b \in OfTeam(managed, attacker) :
       Afoot(b) /\ fallen < 3 => ~AttackerBeyond(bot'[b].place, IF fallen > 2 THEN 2 ELSE fallen)]_vars

\* While the sortie has not been let out, a reconcile sends no defender on
\* foot outside the keep except to a workshop: nobody trickles out to the
\* siege alone.
MusterHolds ==
  [][Reconciled /\ Quorum > 0 /\ ~sortie'.released =>
       \A b \in OfTeam(managed', Defending) :
         Afoot(b) /\ b \in DOMAIN objective' =>
           IsInsideKeep(objective'[b]) \/ objective'[b] \in Workshops]_vars

\* Whatever guards the despawns miss: a workshop's guards only become more when
\* a squad is raised for its new owner; a squad has the slots of its post to
\* itself when it is raised; and when the battle is put away nobody is left at
\* them, unless not one of the squad was found (UpdateGarrison, ReleaseAll).
GuardsHoldTheirPost ==
  [][\A w \in Workshops :
       /\ guards'[w] + Strays(w)' > guards[w] + Strays(w) =>
            squadOwner'[w] # squadOwner[w] /\ squadOwner'[w] = owner[w]
       /\ squadOwner'[w] # squadOwner[w] /\ guards'[w] > 0 => strays'[w].slot = 0
       /\ squadOwner'[w] = "none" /\ squadOwner[w] # "none" /\ strays'[w].slot > 0 =>
            Strays(w)' = Strays(w) + guards[w]]_vars

\* The Lieutenants go to the factories first: as long as the vehicle cap has
\* room, none of them is sent anywhere else while a held workshop is short of
\* its two.
FactoriesFirst ==
  [][Reconciled /\ WorkshopCapture /\ fallen < 3
       /\ (IF engine.at = "none" THEN 0 ELSE 1) + HumanReserve < MaxVehicles =>
     LET mine == {w \in Workshops : owner[w] = attacker}
         lts == {b \in OfTeam(managed', attacker) \cap ranked : Afoot(b)}
     IN (\E b \in lts : objective'[b] \notin mine) =>
          \A w \in mine : Cardinality({b \in lts : objective'[b] = w}) >= 2]_vars
=============================================================================
