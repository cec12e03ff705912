# A formal model of the playerbots server automation

This directory models the server-side logic of this repository in TLA+. The
repository wraps AzerothCore with playerbots in docker and adds C++ modules of its
own (`src/modules/`), a registration web service (`src/webreg/`), a lore service
for the chat bots (`src/lore-sidecar/`), client addons and automation scripts.
What is modelled is the code that keeps state over time, in steps that something
else can come between: the arena pool and its director, the rosters players pin
bots into and what those wear, the whole chatter module from a player's line to
what is remembered of it, the raid scaling registry, and the Wintergrasp battle
director. Every module names the code it translates by its function names;
`PROJECT.json` maps each definition to its lines.

## The system

Components, the state they keep, what they do, and where they are hard.

**Arena roster** (`mod-arena-roster`). Keeps a ladder of bot arena teams, and logs
a team in whenever a real player queues rated. State: the `mod_arena_pool` table,
the director's two state machines (`_poolPhase`..., `_eng`), the rotation cursor,
and, in the core, bot sessions, teams and the arena queue. Operations:
`.arenaroster poolinit` (pin, log in, prepare, create teams, log out, tier by
tier), the queue watch, `forcequeue`, and the engagement states LoggingIn,
Queueing, Fighting, Draining. Hard: table writes are asynchronous and (with more
than one database worker thread) unordered, and the next tier reads the table;
logins finish late, never, or drop; a crash leaves a partial table that the next
poolinit must recognise; both machines log out, regear or disband the same bots
and teams; leave packets race with join packets. Correct when: the machines
exclude each other; a table the probe calls complete is a usable pool; every
machine ends; nothing is left queued or online; the rotation is fair; ratings
stay in their band.

**Rosters** (`mod-raid-roster`, and the partner commands of `mod-arena-roster`).
A player pins forty addclass bots for raids and some partners for the arena. State:
`mod_raid_roster`, `mod_arena_roster`, bot sessions, the player's arena teams.
Operations: create, remove, login (with a planner that fills the gaps of the
group), sync (talents and gear), spec, outings (`go`), logout, stockup, reset. Hard:
every write is asynchronous and read back by the next command; pins are unique per
table only; logins are asynchronous and stay away; a released bot may still be in a
team. Correct when: a roster is whole or absent; released bots are in nobody's team;
a login fills the raid and no more; stock survives an errand. What they wear is
computed by two gearing passes (tier sets with off-pieces; an arena season) over
what the core lets a character equip, and a maintenance pass fills their sockets
with a solver (`CompanionGemPlanner.h`). Correct when: everything worn fits the
character and no slot stays empty that some item fits; the gems are the best that
keep every active meta active.

**Chatter** (`mod-playerbot-chatter`). Bots answer whispers, say, party, guild and
General through a language model, speak unasked, and react to what happens to their
party. State: queue, running count and result list under one mutex; the memory
cache under another, and its table; the ambient contexts with pace, brakes and
rate window; event histories, hints, reactions and cooldowns. Operations: the
observer's hooks, the ambient tick, the events tick, PvP scans, reactions,
submission, one worker thread per job, delivery by the world thread, flush, prune
and load, config reloads. Hard: a thread that ends is the only wake-up of the
backlog; append and result are separate critical sections; groups change while the
model answers; a line drawn in one context may be spoken in another; two clocks;
asynchronous flushes and crashes. Correct when: slots are counted right, no backlog
sleeps, a reply is heard at most once and is remembered by then, unasked lines keep
their pace and their audience, a clean restart forgets nothing new.

**Raid scaling** (`mod-raid-scaling`). Scales health, damage and healing to the
number of players. State: a registry entry per raid instance, cached baselines per
creature, the health it wrote into the creatures, and a mark on summons that come
from players. Operations: default initialisation and clearing by map creation and
destruction, `.raidscale` and `.raidinstance` commands, creature entry and respawn,
boss reset, combat hooks, the Twin Emperors recovery. Hard: a scale computed from a
scaled value compounds; a creature may respawn under the same GUID with other
native stats; off must reach creatures that are dead or no longer scalable; the
owner of a summon may be gone when its origin is asked for. Correct when: a
creature's health is its native health scaled once by the multiplier in force, off
gives it back, and nothing of a player's is ever touched.

**Wintergrasp bots** (`mod-wintergrasp-bots`). Fills both factions of a battle and
leads their bots. State: managed bots, objectives, the latched breach stage, the
sortie, garrisons (guards by id), seats, idle-engine counters, and per bot a travel record.
Operations: one `OnUpdate` per second, a reconcile every few seconds (fill, job
planning and assignment, sortie, garrison, reaping), and movement in between. Hard:
everything is read back from a battlefield that moves between two looks; a stale
stage lets attackers through a wall; a guard may not be found when its squad is
dismissed; jobs compete for the same bots; routes through the keep may circle. Correct
when: nobody stands beyond a standing wall, a sortie goes out together, factories get
their Lieutenants, a new squad has its post to itself, only abandoned engines are reaped,
and nobody circles or stands for ever.

**Auction prices** (`mod-ahbot-price`): stateless arithmetic. **Web registration**
(`webreg`): account creation, signed sessions, a fixed-window rate limiter. **Lore
sidecar**: stateless. **Client addons**: user interface that talks through chat
commands. **Setup, update, backup scripts** and **patches** to the core and to
playerbots: shell automation, and diffs against code that is not here.

Interactions: each C++ module runs on the world thread through its `OnUpdate` or a
core callback and owns its own tables; only chatter has threads of its own. Arena
pool, arena partners and raid roster meet in the pins (a bot pinned by one is not
eligible for the others) and in the logins of playerbots; chatter meets the sidecar
and Ollama over HTTP.

## Modules

| module | code | what it holds |
|---|---|---|
| `ArenaWorld` | `ArenaRosterStore`, bot logins, arena teams | the shared state: login states, table, pending writes, teams, crash |
| `ArenaPool` | `StartPoolInit`, `TickPoolInit` and the five phases | the pool job, one action per phase tick |
| `ArenaEngagement` | `TickQueueWatch`, `ServeOpponents`, `TickEngagement` and helpers | one served lineup, and the core's queue and match as it sees them |
| `ArenaRosterDirector` | `OnUpdate`, the two commands | the composition; its properties |
| `ArenaLease` | - | abstract: the pool bots belong to a job, an engagement or nobody |
| `RaidRosterPlanner` | `RaidRosterPlanner.cpp`, `RaidRosterComp.h` | which bots a raid login brings |
| `Rosters` | `RaidRosterCommand`, the partner commands of `ArenaRosterCommand`, both stores | pins, late writes, sessions, teams, talents |
| `RaidErrands` | `RaidRosterCommand` (stockup, reset) | bags, vendors and instance locks; extends `Rosters` |
| `RosterGear` | `RaidRosterGear`, `ArenaRosterGear` | the two gearing passes |
| `CompanionGems` | `CompanionGemPlanner.h`, `CompanionGemMaintenance` | the gem solver and the maintenance around it |
| `ChatterQueue` | `PBChatterQueue`, `PBChatterMemory::Append`, the drain in `PBChatterWorld` | worker pool, memory order and reloads, thread by thread |
| `ChatterService` | - | abstract: each job is taken or refused once, answered at most once, heard at most once |
| `ChatterScene` | what the other parts see of the world and the queue | players, groups, zones, jobs and results |
| `ChatterAmbient` | `PBChatterAmbient`, `PBChatterChannelPolicy.h` | contexts and their pace |
| `ChatterEvents` | `PBChatterEvents` | histories, hints, reactions, sightings |
| `ChatterMemory` | `PBChatterMemory` | cache and table, flush, load, crash |
| `ChatterTalk` | `PBChatterWorld`, `PBChatterObserver`, `PBChatterClassifier` | the composition: what players say, one update step by step, delivery |
| `RaidScaling` | `RaidScalingMgr`, `RaidScalingState`, the commands | one raid instance, its creatures and baselines |
| `RaidInstance` | - | the registry's instance beside the encounter in it |
| `RaidEncounter` | `RaidCreatureEligibility.h`, `RaidScalingSupport.h`, the unit hooks, `.raidinstance` | whose creatures are scaled, and what a blow or a heal carries |
| `TwinsReset` | `RaidScalingTwinsReset`, `ResetBoss` for boss 7, map creation | the pending request and the recovery of the Twin Emperors |
| `WintergraspField` | the anchors and wall lines, `EnforceBreachFrontier` | the ground |
| `WintergraspJobs` | `BuildJobs` and the assignment in `Reconcile` | the planner |
| `WintergraspBots` | `OnUpdate`, `Reconcile`, `MovementTick`, sortie, garrison, cannons, engines, the test commands | the director over a battle |
| `WintergraspVacancy` | - | a witness beside the director, who looks whether the engine is empty |
| `WintergraspMarch` | `StepBot`, `ComputeLegWaypoint`, `EngageNearbyEnemy`, `WatchVehicle` | one bot's way, one driven engine |
| `*_proofs` | - | theorems about the module they are named after |
| `MC*` | - | instances for TLC |

### Arena

One tick of `OnUpdate` is one action of the pool half (`UpdatePool`) followed by one
of the watch half (`UpdateWatch`); `pc` holds the tick open between them and only
database workers and crashes get in, as nothing else of the world thread can.
Commands, logins and everything the core does happen between ticks. A phase handler
is one action, failure and all early returns included; `CreateOneTeam`'s loop over
the teams of a bracket is computed as the longest prefix that succeeds. Time is
counted in ticks of `Elapsed` against timeouts in the same unit.

A write is a record in `writes` until `RunWrite` executes it in any order
(`setup.sh` leaves the character database with four worker threads). A
`ReplacePool` that would break the unique key fails whole. *Bound*: a write is
executed within `MaxAge` director ticks; the director stops ticking otherwise
(`WritesKeepUp`). Without this bound the table could lag for the minutes of a
whole login wave.

Bots go `offline`, `loading`, `online`. A login submitted while one is in flight
is ignored and a logout reaches only an online bot, as `RandomPlayerbotMgr` does;
a login that does not stick and a bot that drops are both `BotLost`. *Abstracted*:
"connected but not in the world" counts as offline; the module is enabled
throughout; gear, talents and positions; which of the eligible bots the cache
offers first (any injective choice); the core's clamp of a rating to 16 bits; the
gaps a failed creation leaves in the team ids; members of a team that are not pool
bots appear only as `Foreign`. That the core takes a bot that logs out off the
queue, and that `ArenaTeam::Create` makes the captain a member, is taken from the
core. `BotLost`, `TeamVanishes` and everything under "The core and the real
player" in `ArenaEngagement` are external.

### Rosters

Both players' commands read the tables at once and hand their writes to database
workers (`writes`, executed in any order by `RunWrite`). A `Replace` is one
transaction: against the unique key of another player's row it fails whole. A
command is one action with every check and message path. Nothing holds a player's command
until the writes of the last one have run; *bound*: at most `Backlog` writes of a player
wait. A freed partner may so stay in an arena team in two ways, and the code has both: a
`go` typed before the rows of a `remove` are deleted reads the old rows and seats who is
being freed; and `remove` looks only into the teams its player is in, so that who was
seated in a team the player has left since (`deserted`: another player has it) stays
there. The ghost variable `missed` collects exactly these characters at the step that
misses them, and `FreedAreTeamless` says that there are no others. `RaidLogin` takes the group's fixed
members from `Parties` and computes `Plan`, the two loops of the planner; a bot
beyond the plan is dismissed and the missing ones are logged in. *Abstracted*: a player
is in one team per bracket, whose strangers (other players) are counted, and may make,
leave, disband or join one, a friend's team or a deserted one included; two players of the
model are never in the same team; the pool's pins are the constant `PoolPins`, as a
poolinit between a create's check and its write may pin a bot twice in two tables,
which no key forbids. Where the roster lacks a role, the planner's refill may field
dps over a healer it trimmed; the code does so. In `RaidErrands` what is sold and
given is alike for the bots of one command and money is not modelled; *bound*:
`Room` units in a bag.

`RosterGear` is one gearing at a time over item templates that carry what the equip
cache and the scorer say of them. The code's behaviour that a second ring of the
same template is not told apart after the widening, and that a piece of the set may
be above the ceiling of the off-pieces, is kept. Where a set has several pieces for a
slot the code takes the one its cache lists first: `PickSet` compares one drawing per set,
whichever it is. The instance takes a set of two
pieces as enough (`MinSetSlots`, 4 in the code).

`CompanionGems` solves with the code's own state merging (colour counts clamped to
caps read from the rules); `SolveIsBest` compares it with the best of all
assignments. The maintenance is one action per pass, between which the player swaps
items, sockets by hand, and items become held or broken. *Left out*: that the planner
gives up beyond 54 sockets or 16384 plans, or a rule of more than 200 gems; scores are
whole numbers (doubles in the code).

### Chatter

*`ChatterQueue`*: each mutex section is one action, so threads interleave wherever
the code lets them. A worker thread is a job in one of the states `lore`, `ollama`,
`append`, `push`, `finish`; the answer of a service is a nondeterministic "empty or
not". `HistoryLen` does not change at run time in the model.

*`ChatterTalk`* composes the parts over the promise of that queue: jobs start in
order of submission, at most `MaxConcurrent` at a time, and end with a result or in
silence at any moment. One world update is a run of steps (`phase`): the ambient
director looks at one context at a time (`VisitContext`), the event clock moves, the
groups are scanned, the reactions are taken and processed one by one, the results
drained and delivered. Workers end between any two steps; everything else that needs
the world thread happens between two updates. Times are what is left of them, in
units of one update; a draw from an interval is a choice from `Seed` or `Follow`. A
chance roll is a choice. `novel` is a ghost: the pairs whose newest exchange had no
row when it was said. `reactions[i].old` is a ghost too: how old the event really is.
*Abstracted*: the classifiers (a message is a command of playerbots or chat, and names
any set of bots); who is in range of a say; texts, personas, facts and prompt modes;
the lore payload of an event and the two minutes a hint stays fresh; `eligible`, which
is true outside `Sweep`. *Kept as the code has it*: a zone left and entered again has
fresh brakes; `AmbientMaxPerMin` does not count event lines; lines in flight may be
delivered during a cooldown; a hint is used up even if its line is not admitted; lines
for General and a guild are not looked at again when they go out; event reactions wait
in the backlog like replies; with the ambient director off, the clock of histories and
dedupe windows stands still; a module enabled by a reload after a disabled start loads
no memory.

*`ChatterMemory`*: a row's timestamp is the number of its first flush (the table's is in
seconds, so two flushes of one second, a shutdown right behind a periodic flush, are told
apart here and not there); the load may return rows of one flush in any order; a flush's
DELETE may run before its INSERTs, which leaves that pair unpruned until the next; a crash
stores any part of each pair's flush. A word-for-word repeated exchange keeps the row it has, and its rank: after a
clean restart the newest exchange may then be missing, although `README.md:492-494`
says the last ones are remembered across restarts. `RestartKeepsNewest` exempts those.

### Raid scaling

One instance of a supported raid map. Multipliers are numerators over `Original`,
the players the raid was made for, and a creature's flat health modifier is kept
in the unit 1/`Original`, so scaling it is exact and only the maximum rounds: the
code's floats are treated as rationals. `body` is what the core knows of a creature, `base`
the module's cached baseline. `ApplyToMap` is an operator that every handler which
calls it includes whole. `scalable` is the answer of `IsScalableCreature`, which changes
for a creature of any rank: it is false of an elite too while a player controls it.
`passed` is a ghost for the creatures the latest application, or their own entry, passed
over: those that were not scalable then, or entered while the module was disabled. The
code does not look at them again before the next application, so that a boss charmed
while the multiplier changes keeps the earlier one after its release; `CurrentScale` says
so of every creature, and who else must carry the multiplier in force. *Bounds*: damage leaves half of the
maximum or one point, in the run one creature is wounded at a time, a creature respawns
without its health auras, uint32 widths are not reached.
`cached.health` is written and never read by the code and is not kept.

`RaidEncounter` holds what decides who is scaled. A creature or gameobject has links
to its owner, creator and summoner; the walk over them stops at a depth and at a
budget of visits (`Visits` treats a cycle, the depth and the budget alike: excluded),
and what it finds is marked on the summon when it enters. `kin` is a ghost: what
really descends from a player. Damage, healing and shields are stateless factors of
the two ends of a blow (`DealDamage`, `ModifyHealReceived`,
`OnAuraEffectCalculateAmount`). *Kept as the code has it*: `.raidinstance reset all`
without `confirm` cannot succeed, since whoever types it stands inside; offline
members are unbound too; what is summoned through a gameobject whose owner is gone is
not traced.
*Left out*: the target limit of mind control.

### Twin Emperors

The console request, the command given inside the instance and the creation of a
map all run on the world thread, so a request that is processed at once is one
action, recovery included. `ResetTwins(w)` is the set of results the recovery may
have on a room `w`, through the stages of the code: a look for a fight and the checks of
the catalogue, the loading of the grids (`GridsLoaded`, which may start a fight), the
look at the loaded room (`Engaged`), the boss state the script may or may not accept, and
the spawns. It ends refused, incomplete (some spawns restored in the code's
order, the next one or a door not ready) or completed. `last` is a ghost: the
recovery of the last step. *Abstracted*: the checks of the credit mapping, the
spawns and the doors are one constant, `Catalogued`; the order of the catalogue
within emperors and bugs is left free; pending combat, threat, auras and script
state of a spawn are one value, "used". `linked_respawn`, fights, unloading and
restarts are external; an instance id is not reused.

### Wintergrasp

`WintergraspField` keeps the code's own coordinates, rounded to tens of yards, for
two workshops, the walls, the corridor behind the door and the posts; distances and
the keep's box are computed from them. `WintergraspJobs` is the planner as operators
on a snapshot: the list of jobs with headcounts and ranks, and every plan the
nearest-first draft may come to. `WintergraspBots` has one action per `OnUpdate`:
every tick enforces the frontier, and every `TicksPerFull`th reconciles whole, in the
order of the code. Bots come, die, wander, climb, and engines are built, driven,
boarded and deserted by the core and by playerbots in between. A look at the field
sees only what the code's searches reach, from the bot they start at.

A workshop's squad is known by its guards' ids. When the workshop changes hands, or the
battle ends, any of them may not be found (`Missed`): the comments at
`WintergraspBotsDirector.cpp:1117` and `:2014` report the leak. Who is missed stays as a
stray, at a slot of the post or off it, and may come back to one (`StrayMoves`). The audit
after a squad is raised, and the sweep of `ReleaseAll`, remove strays at the slots only,
and only if a guard of the new squad spawned, or one of the old one was found.
`GuardsHoldTheirPost` says what is left of the promise: strays never come from a squad that
stays, a squad finds its slots clear when it is raised, and the slots are clear after the
battle unless none of the squad was found. *Bounds*: `SquadSize` guards, `MaxStrays`
strays at a workshop.

The march of a single bot is a module of its own (`WintergraspMarch`): cells for the parts
of the keep, yards only near the goal, samples of the stuck detection, dwell at the post,
chases, mounts, and the watchdog of a driven engine. Of the ten portals (`:137-148`) four
lie outside the box of `IsInsideKeep` (cell `portal`) and are taken; six lie in it though
before the walls (`alley` west and `backAlley` east of the mid wall). A defender that
comes within the box at one of those counts as inside: the portal step (`:1289`) is not for
it, and it is sent to the arch, the rampart or straight at a standing wall. `NoPingPong`
therefore makes two exceptions, and no other: a defender may be led to such a portal
(`Misled`), and what one at such a portal does is not said. The unstick teleport is its
way out, which `StatueBounded` covers where it has no leg and no structure in its line.

*Left out*: pets, the path and dump diagnostics, the status texts. *Kept as the code
has it*: seated gunners are not counted against `turretCrewMax`; a faction may be
filled over its number when dead bots come back; the floor of the unstick landing
(`arriveRadius`) does not hold for a bot 13 to 16 yards away; a bot stuck within five
yards beyond its arrival radius is not moved.

## Runs

| run | instance | what it shows |
|---|---|---|
| `arena_pool` | 3 tiers, 2 slots, a one-bot and a two-bot bracket, 7 bots, a foreign team member, one crash | pins, rows, teams and table stay coherent over reruns, late logins and reordered writes |
| `arena_director` | 1 tier of three one-bot teams, any of which may vanish; no crash | liveness of both machines; fair rotation past dead ids |
| `arena_ladder` | 2 tiers, one team each, three ratings, one crash | exclusion, the lease, no queue entry left, ratings back in band |
| `arena_stranded` | as `arena_ladder` | *violation*: a login in flight survives `Fail` or `Draining` |
| `rosters` | two players, six bots, a roster of four slots; eleven scenarios (below) | rosters are whole, released bots teamless but for the two ways above, raids filled, gear fits, gems optimal, stock kept |
| `chatter_queue` | 3 replies to one pair (one with lore), one ambient line, limit 1 or 2 | wake-ups, memory order, an end for every job, at-most-once delivery |
| `chatter_talk` | a player, two bots, two zones, a group and a guild; eleven scenes (below) | unasked lines keep their pace and their group; a clean restart keeps what is newest |
| `chatter_clocks` | the director switched off for a while, then a bot of the party loots | *violation*: fresh events are dropped as stale |
| `raid_scaling` | a boss, an aura-aware elite, an add with two native healths, targets 0 and 2 of 4, a multiplier above the clamp; apart from it a boss with its door, a minion, a totem and a trap, and a player | scales never compound, follow the settings in force, and are taken back by off; nothing that descends from a player is scaled |
| `twins_reset` | one AQ40 instance and one of another raid, two bugs, two doors | no reset touches a room with a fight or a controlled creature, a completion is whole, only slowness stops a recovery |
| `twins_queued` | the same | *violation*: a request for another raid is queued as one for AQ40 |
| `wintergrasp` | two attackers, three defenders, two workshops, three walls, one engine; seven scenarios (below) | the frontier, the muster, garrisons, factories, reaping, and the way through the keep |

The bounds are chosen for the cases they must contain. Three tiers are the least
with two tiers of one faction, which is where an unfinished write of an earlier
tier could pin a bot twice; two slots the least with one that shares a lineup; two
brackets the least with a failure in the second after the first was made. Three
teams are the least where a rotation from the cursor differs from one that starts
over. Limits 1 and 2 contain lowering the limit below the running count and
raising it above an existing backlog. Natives 8 and 12 let a creature come back
stronger than its baseline; the clamp of 5 is below the multiplier 6. Auras 1 and
2 separate the aura-aware path from the plain one. `MaxTeamId` (ids handed out)
allows two full runs of `arena_pool`, and in `arena_ladder` a poolinit after an
engagement; `MaxCrashes` is one restart. Two bugs are the least with one restored
and one not, two doors likewise; the second instance is the one a request can name
by mistake.

*Scenarios.* Three instances are split by what moves, the rest of their state standing
still; each split follows the parts that do not share state. `rosters`: `pins` (create
and remove by two players who compete for one priest), `raid` (logins of every size and
party, one after the other), `sync`, `spec`, `outing` (teams of two and three that
others join, take over or leave), `hasty` (the same with a command typed while a write
waits, teams of two), `teams` (one bracket, teams deserted and joined again), `gear` (two classes, five levels around every gate, four item levels, six
sets of pieces the core refuses), `gems` (a helm with a meta and a red socket, a chest
with a yellow and a blue one), `stock` (two bots with all mixes of five goods in a bag of
six), `locks`. In `pins` and `hasty` one write may wait when the next command is typed, so
that two wait at once (`Backlog`), the least that can be reordered. One
stranger leaves room in both brackets, three fill the smaller, four leave one place in the
larger. Two slots of one class, and two bots to lose, are the least where a login
must choose.

`chatter_talk`: General and a raid while a player moves; a raid that is left while a
line is under way; a party joined, left, converted and logged out of; events with a
scan and deaths; say and party lines; guild and General lines; a party with the
director on; hints; logins; reloads with a crash; whispers with flushes, shutdowns and
crashes. One running job is the least with a backlog, two jobs the least that overtake
a change of group; a streak of two, a cooldown of two updates and intervals of one let
every brake engage and run out; three exchanges over a history of two, and three
flushes, are the least in which the order of rows, cache and prune can differ.

`wintergrasp`: `frontier` (walls fall, battles end and start, sight is lost),
`muster` (three defenders, shelling, an engine), `field` (workshops flip, ranks),
`garrison` (guards die, fail to spawn and are missed, strays come and go), `engine` (built, driven, boarded, deserted, tested by command), `march` and
`bay` (one bot, one engine). The three walls are those of the axis; the distances (0, 14
and 40 yards in the cell of the goal, 200 elsewhere) lie on both sides of each threshold;
two stuck samples and two looks at an empty engine are the least that can be interrupted.

*Fairness.* The world loop ticks forever (weak fairness of `Update`) and pending
writes run (weak fairness of `Workers`). Logins are not fair: every property must
hold when a bot never logs in. In `ChatterQueue` every HTTP call has a timeout, so a
worker always gets on (weak fairness per job), and the world thread drains while
the module is enabled. The other runs need none.

The runs allow no deadlock: every cfg leaves TLC's deadlock check on.

### The three violations

`NoStrandedBots` states the comments at `ArenaRosterDirector.cpp:597` ("Never
strand the in-progress tier's bots") and `:564` ("No stranded bots"). The login wave
submits offline bots again on the tick that times out, and `Fail` then calls
`LogoutPlayerBot`, which finds no session to log out; when the login completes,
the bot is online with nobody responsible. The same holds for `Draining`. The
next poolinit logs it out, a restart too.

`StaleIsOld` states `PBChatterAmbient.h:20-21` ("Used by the event-seed store to
timestamp/age events on the same timeline"). Reactions are stamped with the clock of
the ambient director, which stands still while that director is disabled, and aged
(`PBChatterEvents.cpp:473`) with a clock the events keep for themselves, which does
not. Once a reload has kept the director off for a minute, every later reaction looks
older than a minute when it is recorded, and is dropped, until the next restart.

`QueuedIsAQ40` states the message at `RaidScalingTwinsReset.cpp:78` ("Twins reset
queued once for AQ40 instance {} on its next load"). The command checks that the id
is allocated, not that it is an instance of map 531. A request for another raid
waits for a load that never consumes it, and every further request is refused as
"already has a pending request" until the restart.

## Proofs

| module | theorems | say |
|---|---|---|
| `ArenaPool_proofs` | `PoolIsTyped`, `PinnedOnceHolds`, `RowsMatchTeamsHolds`, `DoneIsDurableHolds`, `CompleteIsCoherentHolds` | no bot pinned twice; team ids name teams of the row; a finished pool stays; a table the probe calls complete is a pool |
| `ArenaRosterDirector_proofs` | `MutualExclusionHolds`, `DirectorImplementsLease`, `NothingLeftQueuedHolds`, `RotationFairHolds`, `RenormalizedHolds` | a pool job and an engagement never run together; the director implements `ArenaLease`; queue, rotation and ratings |
| `Rosters_proofs` | `InvHolds`, `RostersAreWhole`, `TeamsHoldPartners`, `LoginFillsTheRaid`, `StockIsKept`, `GearFits`, `SolveFinds`, `GemsAreBest`, `MetasStay` | rosters are whole or absent, teams hold no released bot a removal could see, a settled login fills the raid; stockup takes and gives what it should; gear fits; gems are the best and keep the metas lit |
| `ChatterQueue_proofs` | `TypeCorrect`, `SlotsAreCounted`, `BacklogHasWorker`, `RepliesAreRemembered`, `SlotsAreCapped`, `QueueImplementsService` | types, slot count, wake-up, memory order and limit of the worker pool; it implements `ChatterService` |
| `ChatterTalk_proofs` | `InvHolds`, `DirectorKeepsPace`, `LinesStayHome`, `RestartKeepsMemory` | what is under way is whole; unasked lines keep their pace and their group; a clean restart forgets no pair's newest exchange |
| `RaidScaling_proofs` | `InvHolds`, `ScalesNeverCompound`, `OffRestoresNative`, `FreshFromDefault`, `ScaleInForce`, `FractionKeptHolds`, `KinStaysNative` | health is the native health scaled once, by the multiplier in force; nothing of a player's is touched |
| `TwinsReset_proofs` | `TypeCorrect`, `OrderLetsThrough`, `RequestWaitsForLoad`, `NoFightIsReset`, `CompletionIsWhole`, `RequestRunsOnce` | every property of `twins_reset`, and that a request is consumed by the reset it starts |
| `WintergraspBots_proofs` | `GarrisonHolds`, `FieldIsTyped`, `FrontierHeldHolds`, `MusterHeld`, `FactoriesComeFirst`, `ReapsOnlyAbandoned`, `MarchAdvances` | garrisons, the frontier, the muster, the factories, the reaping of engines and the march of a bot |

They hold for all values of the constants under the named assumptions of the
modules (`WorldAssumption`, `PoolAssumption`, `EngagementAssumption`,
`DirectorAssumption`, `SubCompsAssumption`, `RosterAssumption`, `QueueAssumption`,
`SceneAssumption`, `AmbientAssumption`, `TalkAssumption`, `MemoryAssumption`,
`ScalingAssumption`, `TwinsAssumption`, `PlanAssumption`, `BotsAssumption`), none of which
says more than that sizes, times and ratings are natural numbers, subsets are subsets, players are
not bots, and there are finitely many jobs, bots and slots; and under

- `GoodsAssumption` (`RaidErrands`): finitely many goods; the potion drawn for a kind, if
  it is among them, is of that kind.
- `ItemsAssumption` (`RosterGear`): finitely many item templates of the shape the equip
  cache has, each with an id of its own; the window of the off-pieces is positive.
- `GemsAssumption` (`CompanionGems`): the catalogue's gems have the shape its template
  checks leave (an id each, meta alone or some other colors), rules have the values the
  planner accepts, and there are fewer sockets than a count holds (255 in the code).
- `EncounterAssumption` (`RaidEncounter`): the depth of the walk is positive, its budget
  a natural number.

- `LineupAssumption` (`ArenaPool`): no lineup is empty, the lineups of a bracket are
  disjoint, every slot is in one. The tables `ARENA_POOL_2V2` to `5V5` are constants
  of the code and have these properties.
- `MarchAssumption` (`WintergraspMarch`): besides natural numbers, positive periods and a
  cap above the three holds that are counted (255 in the code), that a bot can stand at
  its very objective, and that `Far`, the distance from any other part of the keep, is
  more than five yards beyond the arrival radius: nobody has arrived in another cell.

Eight theorems state a further hypothesis where they need it:

- `Timely` (`PinnedOnceHolds`, `DoneIsDurableHolds`, `CompleteIsCoherentHolds`): at
  least two tiers, and no write older than `MaxAge` ticks, with `MaxAge` at most one
  more than the number of brackets. The code has four tiers; between the
  `ReplacePool` of a tier and the ids of its last bracket lie a tick of preparation
  and one per bracket, which is the time the database has. With a single tier the
  theorem is false: nothing would repair a late `ClearPool`.
- `Ladder` (`RenormalizedHolds`): the configured ceilings ascend and each tier's rating
  lies in its band. The shipped configuration does; nothing in the code enforces it.
- `~BackToBack` (`FrontierHeldHolds`, `ReapsOnlyAbandoned`): `OnUpdate` runs between
  the end of a battle and the start of the next. The core's battlefield waits for
  hours; without that tick the director would keep the stage of the last battle.
- `TicksPerFull > 1` (`MusterHeld`, `FactoriesComeFirst`, `ReapsOnlyAbandoned`): a
  reconcile comes less than once a second. The shipped `tickMs` is 5000 and the moves
  come every 1000. At one a second the code does the same; the properties could then no
  longer tell a reconcile by its clock.

Each invariant that is not inductive as stated is strengthened, and the strengthening
was checked by TLC before it was proved: the arena pool's on the instance of
`arena_pool` (2,063,366 distinct states, and on smaller ones with `MaxAge` up to its
limit), the garrison's and the field's on `wintergrasp` (810,962), the march's on its march
and bay scenarios.

*Arena pool.* The table alone says little, as what a tick decided is written later and
in any order. The invariant has five layers. `Typed`: the rows kept in memory are those
of the tiers pinned so far, and the core's teams during a job are this job's, so that
no name is met a second time. `WritesAge`: every pending statement of an earlier phase
is at least as old as the ticks since; with `MaxAge` this says which statements must
have run. `Written` (`RowsNew`, `QuietWrites`, `Settles`): once a tier has settled no
clear is pending, what is pending agrees with the rows, and what is in the table differs
from them only by ids still on their way. `PinnedOnce` is a part of this layer. `Pointed`:
an id in a row names, if the team still exists, a team of that tier with that bot in it,
and each lineup has an id of its own. `Finished`: from the first id written for the last
tier on, there is one assignment all later statements belong to; a rerun clears the table
before it reads it. `CompleteIsCoherent` is what `Finished` says of a full table, and
`DoneIsDurable` what `Settles` says of `Done`.

*Arena director.* Mutual exclusion is inductive as it stands. For the lease, each action
maps to a step of the lease or to a stutter; the login states change hands only in
`StartPoolInit` and `ServeOpponents`, both guarded by the other machine being idle.
`NothingLeftQueued` needs the packets that were sent and not yet handled (`QueueHeld`).
`RotationFair` is about one choice: the team of lowest rank counted from the cursor is the
next one in the ring (`LowestRankIsNext`), whatever teams are gone. `Renormalized`
needs that on a ladder a tier's band is exactly what `ArenaRosterTierFor` sends to it
(`BandIsTier`).

*Rosters.* Wholeness of the tables is not inductive alone, as a write is decided on
when it is ordered and executed later: the invariant says of every pending write what
it says of the tables (`WritesOK`). For the teams it says (`TeamsPinned`) that a character
in one is pinned by rows no waiting write will drop (`Owns`), or was missed: rows alone say
too little, as a team is cleaned when the removal is ordered, not when it runs, and a `go`
in between reads rows that are about to change. `LoginFillsTheRaid` rests on `PlanTotals`, what the planner's two loops add up
to for every composition and every party, and on a counting of slots by role.
`RosterSpec` is the specification they are about: every player may give every command.

*Stockup.* The invariant (`BagsCounted`) says that a bag holds each good in a natural
number. `StockKept` then follows the goods through what the command does in turns: what is
sold is for sale, and each turn raises one good's amount by what its stack and the room
allow. What the bag holds is a sum (`SumOver`) that only grows from turn to turn: where the
best potion's turn stopped short of a full stack, there is no room for the rest at the end
either. `ErrandSpec` allows any bag, vendor and roster; `RandomPotion` may name no potion.

*Gear.* A gearing is a run of stages, most of them a fold over slots. The invariant
(`GearInv`) is the property and that what is worn is a dress: an item of the table, or none,
in every place. One lemma per stage says where its pieces come from (`Adds`) and that a
place stays bare only if the core refused every candidate (`Filled1`); `OffPiecesFit` and
`SeasonFits` put the stages of the two passes together, the first with the widening of the
window down to the lowest floor. `GearSpec` allows every level, item level and set of
refusals, where the run has five, four and six.

*Gems.* That merging plans loses nothing is an induction over the sockets (`PlansHold`):
each plan that is kept is a choice of one gem per socket, with its worth and its clamped
counts, and to every choice there is a plan with the same clamped counts worth no less. It
rests on two facts about the caps: adding a color and clamping commute (`ClampAdds`), and no
rule tells clamped counts from the counts (`ClampFits`); the first fails at a saturated
count, which is why the number of sockets matters. `SolveFinds` is the outcome, and
`SolveIsBest` what it says of a pass. For `MetaKept`, `CountsAfter` shows that the colors
worn after the pass are those the plan was reckoned with: the sockets are filled once each
(`InOrderIs`) with gems of the planned colors (`Applied`), and one meta at most is new. The
rules of every meta that is lit, and of the new one, are among those the plan fits.
`GemSpec` lets items come with any gems.

*Chatter queue.* That `g_running` counts the threads is not inductive alone: starting
the head of the queue adds a thread only if that job was not one already. The invariant
adds that the backlog holds each pending job once (`Waits`, `NoDuplicates`).
`NoStall` needs that a full pool is a running pool: the limit 0 means unlimited, so
a pool without a free slot has a positive count. For the service a job's phase is read off
its thread, its result and what was heard; the refinement needs that these never hold a
job twice (`AtMostOnce`), so that a drain, which hears the whole list in one step, is a
`Hear` of the set of jobs in it.

*Chatter talk.* The invariant says that contexts, jobs, results, lines and reactions
are made of keys, players and groups that exist, through restarts too, and that the
director's round only has contexts in it. One lemma per part (`PlayerLineKeeps`,
`VisitKeeps`, `ReactKeeps`, `DeliverKeeps`, `TickKeeps`...) says what it keeps and
what it submits: `StepKeeps` then splits every step into those that submit replies or
event lines (`Calm`) and the visit of a context, whose line is `Paced`. The redirect
into a raid is the one case in which the context looked at is not the one that speaks.
For `LinesStayHome` the key of a group line must be a group, which the invariant knows.

*Chatter memory.* That the newest exchange survives a restart is a matter of counting. The
invariant (`MemoryInv`) says that a pair's rows come in the order of their timestamps, each
exchange once, and no flush made more of them than the cache holds; and that whatever row
the newest exchange of the cache has, all rows from that flush on are of exchanges in the
cache (`Unsurpassed`). So at most `HistoryLen` rows equal or surpass it, and it is among the
last `HistoryLen` in every order that respects the timestamps: the DELETE keeps it and the
load finds it (`KeptNewest`, `PruneKeepsNewest`, `LoadKeepsNewest`). After the load the
newest belongs to the newest flush, all of which fits (`LoadedUnsurpassed`). What a flush
inserts is a fold over the cache, unfolded as in *Wintergrasp* below (`FoldHolds`).

*Raid scaling.* The invariant puts every creature into one of two states: without a
baseline it carries its native stats (`Native`), with one the baseline carries them
(`NativeBase`). Baselines exist only while scaling is on, and an unloaded
instance has neither entry, nor baseline, nor creature. `ScaledOnce` is a part of
it; `OffIsNative` follows from no baselines plus `Native`; `FreshDefault` needs the
last part. `DivExact` (a product divided by a factor is the other factor) is
what makes a restored flat modifier give back the native maximum. `ScaleInForce`
adds that every living creature of an instance with scaling on has the maximum its
native health and the entry's multiplier give, unless it was passed over (`Current`);
each handler that changes the entry ends in `ApplyToMap`, which scales who it reaches and
marks the others. What is said of those follows from `Native`. `FractionKeptHolds` adds that a living creature has between
one point and its maximum (`AllHale`), and puts every step into one of three kinds for
each creature (`Moves`): it comes to life, its maximum stays, or its health is the rounded
share. The share is exact to half a point but for one case: a creature at its last
point whose share would round to nothing keeps that point (`AtLeastOne`), and the property
says so.

*Encounter.* `KinStaysNative` is about `EncounterSpec`: anything may be summoned by anything,
die, leave, respawn and be charmed. The invariant (`KinInv`) says of what descends from a
player and is there that it is marked, and not scaled; the charmed are there. A summon is
marked when the walk finds a marked source among its links, or excludes it: the walk counts
a sum over the links, and a marked source outweighs its whole budget (`DescentIsFound`), so
no number of harmless links hides it.

*Twin Emperors.* The invariant is types plus the two state properties; one lemma
(`ResetResults`) says what the recovery may return on any room, and every property
of a step follows from it. `NeverLinked` is its core: Vek'lor is among the spawns
before any bug, and those are restored by the time the bug is reached.

*Wintergrasp.* `GuardsHoldTheirPost` is about single steps, and follows from the types:
each way a squad may go is one of `StraysOf` or `Departures`, whatever the lookups miss. The frontier needs what the
director remembers (`Remembers`): while a battle it has looked at is on, its stage is not
beyond the fallen walls and the relic it thinks open is open; after a release it manages
nobody. `FrontierLegal` then says that a snap lands on legal ground, and `SameSpot`, from
the coordinates, that a bot who climbs into an engine within reach does not leave it.
The muster and the factories are about what a reconcile orders, and so about the planner:
every job it lists lies where it should (`DefenderJobsListed`, `AttackerJobsListed`), a
drafted plan gives each bot one of the jobs (`PlanFromJobs`), and after the first jobs are
filled no Lieutenant is elsewhere while a factory lacks its two (`FactoryFilled`). The last
two are inductions over the jobs already filled. The library's induction rules take an
operator and cannot be used here; `NatInd` states induction over a set of naturals, and the
fold of `Plans` is unfolded into a function on the first `k` jobs (`DraftExists`,
`DraftUnfold`), whose steps the set collects. Reaping needs that seats agree with the
engine's driver (`SeatsAgree`) and that the age the director keeps is zero between battles
and never ahead of what the witness saw (`AgeWitnessed`).


*The march.* That no step leads a defender back needs to know what the leg under its feet
was meant for: `LegLeadsOn` says that a leg towards the objective ends nearer to it, and,
while the sortie gathers, one from inside the keep ends inside. One lemma (`StepIs`) says
what a step of the bot may come to for any target and distance; the order's own step
(`GoalLeads`) and a chase then share it. That nobody is left standing is a count:
`StillCounted` bounds the ticks a bot had nowhere to go by what its samples have used up
of three stuck periods (`Spent`), two withheld unsticks and the sample under way, and by
the one tick it took to mount; the third unstick is carried out and moves it
(`LandsShort`: the landing is nearer by at least a yard). `JamCounted` says the same of a
wedged engine, whose third try looks in every direction (`FanWidens`).

Three definitions are written so that they can be reasoned about: `WorkshopOrder` and
`Fill` are operators of their own, and the drafting is a fold over the list of jobs.

*Only model-checked*: liveness (`JobSettles`, `EngagementEnds`, `EveryJobEnds`), for
which fairness and `ENABLED` would have to be reasoned about. Every other property of a
passing run is a theorem above.

## Not modelled

- `webreg`: a stateless handler chain around one table, a signed cookie and a mutex;
  it runs beside the game server and shares nothing with it but the account table.
- The prompts, personas, area names and the HTTP client of the chatter, the lore
  sidecar and the auction price commands: text and arithmetic without state between
  calls. The worker pool has their calls as steps that may come back empty.
- Client addons, setup, update, backup and restore: user interface and shell.
- The patches: diffs against code that is not in the repository. What the modelled
  code relies on in the core and in playerbots is marked external in the map.
- Vendored libraries (`httplib.h`, `json.hpp`).

What could come next: a module for `webreg` with concurrent registrations of one name and
the limiter's window.
