---------------------------- MODULE RaidEncounter ----------------------------
(***************************************************************************)
(* Whose creatures mod-raid-scaling scales: the provenance it captures     *)
(* when a summon enters the raid, and the damage, healing and shields it   *)
(* then scales (RaidCreatureEligibility.h, RaidScalingSupport.h, the unit  *)
(* hooks of RaidScalingLoader.cpp); and what .raidinstance does with the   *)
(* instance's spawns and the group's binds.  The health itself is modelled *)
(* in RaidScaling: here a creature is scaled or native.                    *)
(***************************************************************************)
EXTENDS Integers, FiniteSets, FiniteSetsExt

CONSTANTS
  Npcs, Things, Players,   \* creatures, gameobjects and players
  Spawned,                 \* the creatures and gameobjects of the instance itself
  Elites, Critters,
  Pooled,                  \* the spawns that belong to a pool
  Recipes,                 \* encounter -> the creatures and gameobjects it resets
  Depth, Budget,           \* 16 and 64 in the code
  Whole, Half,             \* a factor of one, and the multiplier in force
  MaxAmount                \* the largest signed amount

\* A module that instantiates this one assumes it of its constants.
EncounterAssumption == Depth \in Nat \ {0} /\ Budget \in Nat

VARIABLES
  there,    \* the objects in the map
  links,    \* object -> its owner, creator and summoner
  charmed,  \* the creatures a player charms now
  mood,     \* creature -> hostile or friendly
  origin,   \* the creatures that carry the mark Origin::excluded
  scaled,   \* the creatures whose health is scaled
  dead,     \* corpses
  waiting,  \* spawns with a respawn time; due when it is over
  boss,     \* encounter -> its state
  on,       \* scaling is in force in the instance
  binds,    \* the players bound to the instance
  kin       \* history: the creatures that descended from a player when they entered
encounterVars == << there, links, charmed, mood, origin, scaled, dead, waiting, boss, on, binds, kin >>

-----------------------------------------------------------------------------
\* Provenance.

\* A player, a pet, a charmed creature, a marked one, or a guid of a player:
\* that works even after the player left the map.
Tainted(o) == o \in origin \cup charmed \/ links[o] \cap Players # {}

\* How many objects the walk up the links of o visits; beyond Budget if it meets
\* a player's, runs into a circle or gets too deep.  A source that is gone
\* counts for nothing: "NPC summoners routinely despawn".
Visits[d \in 0..Depth] ==
  [o \in there |->
     IF d = Depth \/ Tainted(o) THEN Budget + 1
     ELSE 1 + MapThenSumSet(LAMBDA s : Visits[d + 1][s], links[o] \cap there)]
HasExcludedOrigin(o) == Visits[0][o] > Budget

\* The same for a creature that enters by way of the objects from.
ExcludedBy(from) ==
  from \cap Players # {} \/ 1 + MapThenSumSet(LAMBDA s : Visits[1][s], from \cap there) > Budget

CombatBody(c) == c \notin Critters /\ (c \in Elites \/ mood[c] = "hostile")
IsScalableCreature(c) == ~HasExcludedOrigin(c) /\ CombatBody(c)

-----------------------------------------------------------------------------
\* What is scaled on the fly.

AtLeast1(n) == IF n < 1 THEN 1 ELSE n
ScaleAmount(n, f) ==
  LET r == (2 * n * f + Whole) \div (2 * Whole)
  IN IF n = 0 \/ f = Whole THEN n ELSE IF r > MaxAmount THEN MaxAmount ELSE AtLeast1(r)

\* Damage of an encounter's creature to the players' side, friendly ones excepted.
GetDamageScale(attacker, toPlayers) ==
  IF /\ on /\ toPlayers /\ attacker \notin Critters
     /\ ~HasExcludedOrigin(attacker) /\ mood[attacker] # "friendly" THEN Half ELSE Whole
DealDamage(attacker, toPlayers, n) ==
  LET f == GetDamageScale(attacker, toPlayers)
  IN IF n = 0 \/ f = Whole THEN n ELSE AtLeast1((n * f) \div Whole)

\* Support of one encounter creature by another follows the recipient's health.
GetSupportScale(source, recipient) ==
  IF /\ on /\ IsScalableCreature(recipient)
     /\ mood[source] # "friendly" /\ mood[recipient] # "friendly"
     /\ source \notin Critters /\ ~HasExcludedOrigin(source) THEN Half ELSE Whole
\* Effects that already follow health or damage are left alone.
Derived == {"percent", "leech"}
IsFlatHealing(effects) == effects \cap Derived = {} /\ "heal" \in effects
ModifyHealReceived(recipient, healer, n, effects) ==
  IF IsFlatHealing(effects) THEN ScaleAmount(n, GetSupportScale(healer, recipient)) ELSE n
\* An area aura has one amount for many recipients.
OnAuraEffectCalculateAmount(owner, caster, n, area) ==
  IF area THEN n ELSE ScaleAmount(n, GetSupportScale(caster, owner))

-----------------------------------------------------------------------------
\* Creatures come and go.

EncounterInit ==
  /\ there = {} /\ links = [o \in Npcs \cup Things |-> {}] /\ charmed = {}
  /\ mood = [c \in Npcs |-> "hostile"] /\ origin = {} /\ scaled = {} /\ dead = {}
  /\ waiting = [o \in Spawned |-> "no"] /\ boss = [e \in DOMAIN Recipes |-> "NOT_STARTED"]
  /\ on \in BOOLEAN /\ binds = {} /\ kin = {}

\* Descent as it is when c enters by way of the objects from.
FromPlayer(from) ==
  \/ from \cap (Players \cup kin \cup charmed) # {}
  \/ \E g \in from \cap Things : links[g] \cap (Players \cup kin \cup charmed) # {}

\* Mutant of CaptureSummonOrigin: what the walk finds is not kept.
CaptureNothing(c, excluded) == origin \ {c}
\* A summon's verdict is kept with it, whether scaling is on or not: its summoner
\* may be gone later.
CaptureSummonOrigin(c, excluded) ==
  IF c \in Spawned \/ ~excluded THEN origin \ {c} ELSE origin \cup {c}

OnCreatureAddWorld(c, excluded) ==
  /\ origin' = CaptureSummonOrigin(c, excluded)
  /\ scaled' = IF on /\ ~excluded /\ CombatBody(c) THEN scaled \cup {c} ELSE scaled \ {c}

\* A summon or a spawn; a gameobject is not looked at.
Enters(o, from) ==
  /\ o \notin there /\ from \subseteq there \cup Players
  /\ (o \in Spawned => from = {} /\ waiting[o] = "no")
  /\ there' = there \cup {o} /\ links' = [links EXCEPT ![o] = from]
  /\ IF o \in Npcs THEN /\ OnCreatureAddWorld(o, ExcludedBy(from))
                        /\ kin' = IF FromPlayer(from) THEN kin \cup {o} ELSE kin
                   ELSE UNCHANGED << origin, scaled, kin >>
  /\ UNCHANGED << charmed, mood, dead, waiting, boss, on, binds >>

\* A spawn leaves a respawn time behind. Guids are not used twice.
Leaves(o) ==
  /\ o \in there /\ (o \in Spawned => o \in dead)
  /\ there' = there \ {o} /\ dead' = dead \ {o}
  /\ links' = [x \in DOMAIN links |-> IF x = o THEN {} ELSE links[x] \ {o}]
  /\ origin' = origin \ {o} /\ scaled' = scaled \ {o} /\ kin' = kin \ {o} /\ charmed' = charmed \ {o}
  /\ waiting' = IF o \in Spawned THEN [waiting EXCEPT ![o] = "yes"] ELSE waiting
  /\ UNCHANGED << mood, boss, on, binds >>
RespawnTimeOver(o) ==
  /\ waiting[o] # "no" /\ waiting' = [waiting EXCEPT ![o] = "no"]
  /\ UNCHANGED << there, links, charmed, mood, origin, scaled, dead, boss, on, binds, kin >>

Charm(c) ==
  /\ c \in there \cap Npcs
  /\ charmed' = (charmed \ {c}) \cup ({c} \ charmed)
  /\ UNCHANGED << there, links, mood, origin, scaled, dead, waiting, boss, on, binds, kin >>
MoodChanges(c, m) ==
  /\ mood' = [mood EXCEPT ![c] = m]
  /\ UNCHANGED << there, links, charmed, origin, scaled, dead, waiting, boss, on, binds, kin >>

\* A kill, or a door that opens; the encounter is done with its last creature,
\* and the players are bound.
Falls(o) ==
  /\ o \in there \ dead /\ dead' = dead \cup {o}
  /\ LET done == {e \in DOMAIN boss : o \in Recipes[e] \cap Npcs /\ Recipes[e] \cap Npcs \subseteq dead \cup {o}}
     IN /\ boss' = [e \in DOMAIN boss |-> IF e \in done THEN "DONE" ELSE boss[e]]
        /\ binds' = IF done = {} THEN binds ELSE Players
  /\ UNCHANGED << there, links, charmed, mood, origin, scaled, waiting, on, kin >>

-----------------------------------------------------------------------------
\* Scaling on and off, and .raidinstance.

\* Every creature of the map's store: spawn ids would omit the temporary ones.
LoadedCreatures == there \cap Npcs
Scalable == {c \in LoadedCreatures : IsScalableCreature(c)}
EnableForMap ==
  /\ on' = TRUE /\ scaled' = scaled \cup (Scalable \ dead)
  /\ UNCHANGED << there, links, charmed, mood, origin, dead, waiting, boss, binds, kin >>
DisableForMap ==
  /\ on' = FALSE /\ scaled' = {}
  /\ UNCHANGED << there, links, charmed, mood, origin, dead, waiting, boss, kin >>
HandleRaidScale == EnableForMap \/ (DisableForMap /\ UNCHANGED binds)

\* A corpse respawns in place, with native health and its provenance anew.
RespawnEntries(S) ==
  /\ dead' = dead \ S
  /\ waiting' = [o \in Spawned |-> IF o \in S \ Pooled /\ waiting[o] = "yes" THEN "due" ELSE waiting[o]]
OnCreatureRespawn(c) ==
  /\ c \in dead \cap Npcs /\ c \notin Spawned /\ dead' = dead \ {c}
  /\ OnCreatureAddWorld(c, HasExcludedOrigin(c))
  /\ UNCHANGED << there, links, charmed, mood, waiting, boss, on, binds, kin >>

\* boss reset: dead spawns stand again, respawn times are over now, except those
\* a pool owns; then the map is scaled.
ResetBoss(e) ==
  /\ boss' = [boss EXCEPT ![e] = "NOT_STARTED"]
  /\ RespawnEntries(Recipes[e])
  /\ scaled' = (scaled \ (dead \cap Recipes[e]))
               \cup {c \in Scalable : on /\ c \notin dead \ Recipes[e]}
  /\ UNCHANGED << there, links, charmed, mood, origin, on, binds, kin >>

\* reset all: only with confirm, for the player who types it stands inside.
ResetGroupBinds == binds' = {} /\ DisableForMap

\* .raidinstance, typed inside the raid
HandleRaidInstance == (\E e \in DOMAIN Recipes : ResetBoss(e)) \/ ResetGroupBinds

EncounterNext ==
  \/ \E o \in Npcs \cup Things : \/ \E from \in SUBSET (there \cup Players) : Enters(o, from)
                                 \/ Leaves(o) \/ Falls(o)
  \/ \E o \in Spawned : RespawnTimeOver(o)
  \/ \E c \in Npcs : Charm(c) \/ OnCreatureRespawn(c) \/ \E m \in {"hostile", "friendly"} : MoodChanges(c, m)
  \/ HandleRaidScale \/ HandleRaidInstance
EncounterSpec == EncounterInit /\ [][EncounterNext]_encounterVars

-----------------------------------------------------------------------------
\* "A child can outlive its player-owned summoner": what descends from a player,
\* over any number of summons, is never scaled, neither its health nor what it
\* deals, heals or receives, although those between it and the player are gone,
\* it dies and respawns, the encounter is reset and scaling goes off and on
\* (CaptureSummonOrigin, HasExcludedOrigin, DealDamage, ModifyHealReceived).
KinUntouched ==
  \A c \in kin :
    /\ c \notin scaled
    /\ \A n \in 0..2 * Whole : DealDamage(c, TRUE, n) = n
    /\ \A x \in there \cap Npcs :
         /\ ModifyHealReceived(c, x, 1, {"heal"}) = 1 /\ ModifyHealReceived(x, c, Whole, {"heal"}) = Whole
         /\ OnAuraEffectCalculateAmount(x, c, Whole, FALSE) = Whole
=============================================================================
