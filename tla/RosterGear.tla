----------------------------- MODULE RosterGear -----------------------------
(***************************************************************************)
(* What a roster character wears after a sync: the tier set and off-pieces *)
(* of RaidRosterGear.cpp (EquipForSpec) and the season set of              *)
(* ArenaRosterGear.cpp (EquipSeason), for one character at a time.         *)
(***************************************************************************)
EXTENDS Integers, Sequences, FiniteSets, SequencesExt

CONSTANTS
  Items,      \* item templates, with what the equip cache and the scorer say of them
  Classes,
  OffWindow, SetTolerance, Headroom, MinSetSlots

VARIABLES
  gear,   \* place -> item worn there
  sync    \* the last gearing: who by, and its inputs
gearVars == << gear, sync >>

None == [id |-> 0]
Item == [id : Nat \ {0}, inv : STRING, ilvl : Nat, key : Int, quality : 0..5, set : Nat, pvp : BOOLEAN,
         armor : STRING, classes : SUBSET Classes, score : Int, line : STRING]
ASSUME ItemsAssumption ==
  /\ Items \subseteq Item /\ IsFiniteSet(Items) /\ \A i, j \in Items : i.id = j.id => i = j
  /\ OffWindow \in Nat \ {0} /\ Headroom \in Nat

\* The slots tier sets cover.
BodySlotForInvType ==
  [HEAD |-> "head", SHOULDERS |-> "shoulders", CHEST |-> "chest", ROBE |-> "chest", LEGS |-> "legs",
   HANDS |-> "hands", WAIST |-> "waist", FEET |-> "feet", WRISTS |-> "wrists"]
BodyInvTypes == DOMAIN BodySlotForInvType
BodySlots == {BodySlotForInvType[t] : t \in BodyInvTypes}
WeaponInvTypes == {"WEAPON", "TWOHAND", "MAINHAND", "OFFHAND", "SHIELD", "HOLDABLE",
                   "RANGED", "RANGEDRIGHT", "THROWN", "RELIC"}
InvTypesOf(slot) ==
  CASE slot \in BodySlots -> {t \in BodyInvTypes : BodySlotForInvType[t] = slot}
    [] slot = "cloak" -> {"CLOAK"} [] slot = "neck" -> {"NECK"} [] OTHER -> {}
Places == BodySlots \cup {"cloak", "neck", "finger1", "finger2", "trinket1", "trinket2",
                          "mainhand", "offhand", "ranged"}

BestArmorSubclassFor(cls, level) ==
  CASE cls = "deathknight" -> "plate"
    [] cls \in {"warrior", "paladin"} -> IF level >= 40 THEN "plate" ELSE "mail"
    [] cls \in {"hunter", "shaman"} -> IF level >= 40 THEN "mail" ELSE "leather"
    [] cls \in {"rogue", "druid"} -> "leather"
    [] OTHER -> "cloth"

-----------------------------------------------------------------------------
\* Equipping one item: the core picks the place, and may refuse the item.

PlacesOf(inv) ==
  CASE inv \in BodyInvTypes -> << BodySlotForInvType[inv] >>
    [] inv = "CLOAK" -> << "cloak" >> [] inv = "NECK" -> << "neck" >>
    [] inv = "FINGER" -> << "finger1", "finger2" >>
    [] inv = "TRINKET" -> << "trinket1", "trinket2" >>
    [] inv \in {"MAINHAND", "TWOHAND"} -> << "mainhand" >>
    [] inv = "WEAPON" -> << "mainhand", "offhand" >>
    [] inv \in {"OFFHAND", "SHIELD", "HOLDABLE"} -> << "offhand" >>
    [] OTHER -> << "ranged" >>
Free(g, i) ==
  {n \in DOMAIN PlacesOf(i.inv) :
     /\ g[PlacesOf(i.inv)[n]] = None
     /\ PlacesOf(i.inv)[n] = "offhand" => g["mainhand"] = None \/ g["mainhand"].inv # "TWOHAND"
     /\ i.inv = "TWOHAND" => g["offhand"] = None}
Equips(g, i, refused) == i.id \notin refused /\ Free(g, i) # {}
EquipEntry(g, i, refused) ==
  IF Equips(g, i, refused) THEN [g EXCEPT ![PlacesOf(i.inv)[Min(Free(g, i))]] = i] ELSE g
CanUseItem(bot, i) == bot.cls \in i.classes

\* The best `count` of the candidates by a score, probing on down the ranking.
EquipBest(g, candidates, score, count, refused) ==
  LET Before(x, y) == score[x] > score[y] \/ (score[x] = score[y] /\ x.id < y.id)
      Tried[T \in SUBSET candidates] ==
        IF T = {} THEN [gear |-> g, want |-> count]
        ELSE LET last == CHOOSE x \in T : \A y \in T \ {x} : Before(y, x)
                 r == Tried[T \ {last}]
             IN IF r.want > 0 /\ Equips(r.gear, last, refused)
                THEN [gear |-> EquipEntry(r.gear, last, refused), want |-> r.want - 1] ELSE r
  IN Tried[candidates]
\* A greedy pass that equips whatever fits.
EquipAll(g, candidates, score, refused) ==
  EquipBest(g, candidates, score, Cardinality(candidates), refused).gear
Stripped == [p \in Places |-> None]

-----------------------------------------------------------------------------
\* RaidRosterGear

\* The level an item was cached under; -1 is an item the cache does not hold.
MeetsLevelRequirement(i, level) == i.key <= level
Curated(invs) == {i \in Items : i.inv \in invs /\ i.key >= 0}
Usable(bot, i) == MeetsLevelRequirement(i, bot.level) /\ CanUseItem(bot, i)

Scores == [i \in Items |-> i.score]
Ilvls  == [i \in Items |-> i.ilvl]
Preference(bot) ==
  [i \in Items |->
     IF i.inv \in BodyInvTypes /\ i.armor = BestArmorSubclassFor(bot.cls, bot.level) THEN 3 * i.score ELSE i.score]
Candidates(bot, invs, floor, ceil) ==
  {i \in Curated(invs) : /\ floor > 0 => i.ilvl >= floor
                         /\ ceil > 0 => i.ilvl <= ceil
                         /\ Usable(bot, i) /\ i.score > 0}

\* The pieces of a set this character may wear, one per slot.
SetPieces(id) ==
  {i \in Curated(BodyInvTypes) : i.set = id /\ i.quality \in 2..4 /\ ~i.pvp}
LegalPieces(bot, id) ==
  {i \in SetPieces(id) : i.armor = BestArmorSubclassFor(bot.cls, bot.level) /\ Usable(bot, i)}
SlotOf(i) == BodySlotForInvType[i.inv]
OnePerSlot(pieces) ==
  {S \in SUBSET pieces : /\ \A i, j \in S : SlotOf(i) = SlotOf(j) => i = j
                         /\ {SlotOf(i) : i \in S} = {SlotOf(i) : i \in pieces}}
MedianIlvl(pieces) ==
  CHOOSE m \in {i.ilvl : i \in pieces} :
    LET half == Cardinality(pieces) \div 2
    IN /\ Cardinality({i \in pieces : i.ilvl < m}) <= half
       /\ Cardinality({i \in pieces : i.ilvl <= m}) > half
QualityOf(pieces) == Max({i.quality : i \in pieces})
Highest(pieces) == Max({i.ilvl : i \in pieces})
ScoreOf(pieces) == FoldSet(LAMBDA i, n : n + i.score, 0, pieces)

SetIds == {i.set : i \in Items} \ {0}
SetIdOf(pieces) == Min({i.set : i \in pieces})
\* A set that has several pieces for a slot is taken with the one the cache lists
\* first, any of them here.
Drawn(bot, id) == OnePerSlot(LegalPieces(bot, id))
Qualifying(bot, target) ==
  {S \in UNION {Drawn(bot, id) : id \in SetIds} :
     /\ Cardinality(S) >= MinSetSlots
     /\ MedianIlvl(S) \in (target - OffWindow)..(target + SetTolerance)}
\* Quality first, then the median, then the score for the spec, then the lower id.
Surpasses(T, S) ==
  \/ S = {}
  \/ QualityOf(T) > QualityOf(S)
  \/ /\ QualityOf(T) = QualityOf(S)
     /\ \/ MedianIlvl(T) > MedianIlvl(S)
        \/ /\ MedianIlvl(T) = MedianIlvl(S)
           /\ \/ ScoreOf(T) > ScoreOf(S)
              \/ ScoreOf(T) = ScoreOf(S) /\ SetIdOf(T) < SetIdOf(S)
\* The sets one drawing of every set may leave as the winner, {} when none qualifies.
PickSet(bot, target) ==
  LET fit == Qualifying(bot, target)
  IN {S \in fit \cup {{}} :
        \A id \in SetIds : \E T \in Drawn(bot, id) : ~(T \in fit /\ Surpasses(T, S))}

\* fillSlot: the floor widens by OffWindow down to 1 and only the remainder is
\* chased; the weapons stop once there is a main hand.
Steps(floor) == IF floor <= 1 THEN 0 ELSE (floor - 1 + OffWindow - 1) \div OffWindow
Floor(floor, n) == IF floor = 0 THEN 0 ELSE Max({1, floor - n * OffWindow})
FillSlot(bot, g, invs, count, floor, ceil, refused) ==
  LET Band(r, n) == EquipBest(r.gear, Candidates(bot, invs, Floor(floor, n), ceil),
                              Preference(bot), r.want, refused)
      Widened[n \in 0..Steps(floor)] ==
        IF n = 0 THEN Band([gear |-> g, want |-> count], 0)
        ELSE LET r == Widened[n - 1] IN IF r.want = 0 THEN r ELSE Band(r, n)
  IN Widened[Steps(floor)].gear
FillWeapons(bot, g, floor, ceil, refused) ==
  LET Band(r, n) == EquipAll(r, Candidates(bot, WeaponInvTypes, Floor(floor, n), ceil),
                             Preference(bot), refused)
      Widened[n \in 0..Steps(floor)] ==
        IF n = 0 THEN Band(g, 0)
        ELSE LET r == Widened[n - 1] IN IF r["mainhand"] # None THEN r ELSE Band(r, n)
  IN Widened[Steps(floor)]

\* Mutant of Covered: the slots the set has pieces for.
CoveredByPieces(g, pieces) == {SlotOf(i) : i \in pieces}
\* The slots the set stage filled, a piece that failed the probe left out.
Covered(g, pieces) == {s \in BodySlots : g[s] \in pieces}
GearedSlots(level) ==
  {s \in BodySlots \cup {"cloak", "neck"} : s \in {"head", "neck"} => level >= 30}

OffPieces(bot, g, pieces, target, refused) ==
  LET targeted == bot.level >= 50
      floor == IF ~targeted THEN 0
               ELSE IF pieces # {} /\ Highest(pieces) < target THEN target ELSE Max({1, target - OffWindow})
      ceil == IF targeted THEN target + OffWindow ELSE bot.level + Headroom
      Fill(r, invs, count) == FillSlot(bot, r, invs, count, floor, ceil, refused)
      open == GearedSlots(bot.level) \ Covered(g, pieces)
      body == [p \in Places |-> IF p \in open THEN Fill(g, InvTypesOf(p), 1)[p] ELSE g[p]]
      rings == IF bot.level >= 20 THEN Fill(body, {"FINGER"}, 2) ELSE body
      trinkets == IF targeted THEN Fill(rings, {"TRINKET"}, 2) ELSE rings
  IN FillWeapons(bot, trinkets, floor, ceil, refused)

\* The gate comes before the strip.
EquipForSpec(bot, target, refused) ==
  IF bot.level < 5 THEN {gear}
  ELSE LET sets == IF bot.level >= 50 THEN PickSet(bot, target) ELSE {{}}
           Equipped(S) == EquipAll(Stripped, S, Scores, refused)
       IN {OffPieces(bot, Equipped(S), S, target, refused) : S \in sets}

-----------------------------------------------------------------------------
\* ArenaRosterGear

SeasonForItemLevel(avg) ==
  IF avg < 206 THEN "savage" ELSE IF avg < 226 THEN "deadly"
  ELSE IF avg < 245 THEN "furious" ELSE IF avg < 258 THEN "relentless" ELSE "wrathful"
SeasonIlvlCap(season) ==
  CASE season = "savage" -> 200 [] season = "deadly" -> 213 [] season = "furious" -> 232
    [] season = "relentless" -> 245 [] OTHER -> 264
\* The season's line, and for the first two the Hateful off-pieces.
RawCandidatesFor(inv, season) ==
  {i \in Items : /\ i.inv = inv /\ i.ilvl >= 190
                 /\ i.line \in {season} \cup (IF season \in {"savage", "deadly"} THEN {"hateful"} ELSE {})}
CandidatesFor(bot, inv, season) ==
  {i \in RawCandidatesFor(inv, season) :
     /\ CanUseItem(bot, i)
     /\ inv \in BodyInvTypes => i.armor = BestArmorSubclassFor(bot.cls, 80)}
TrinketCandidatesFor(bot, season) ==
  {i \in Items : i.line = "medallion" /\ i.ilvl <= SeasonIlvlCap(season) /\ CanUseItem(bot, i)}
SeasonCandidates(bot, invs, season) == UNION {CandidatesFor(bot, t, season) : t \in invs}

SeasonGate(bot) == bot.level >= 80
EquipSeason(bot, season, refused) ==
  IF ~SeasonGate(bot) THEN gear
  ELSE LET Fill(g, invs, count) ==
             EquipBest(g, SeasonCandidates(bot, invs, season), Scores, count, refused).gear
           body == [p \in Places |-> IF InvTypesOf(p) = {} THEN None ELSE Fill(Stripped, InvTypesOf(p), 1)[p]]
           rings == Fill(body, {"FINGER"}, 2)
           medal == EquipBest(rings, TrinketCandidatesFor(bot, season), Ilvls, 1, refused).gear
       IN EquipAll(medal, {i \in SeasonCandidates(bot, WeaponInvTypes, season) : i.score > 0},
                   Scores, refused)

-----------------------------------------------------------------------------
\* A character is synced at some level to some master, in any order; the core
\* refuses some items (unique ones, quest states).

GearInit == gear = Stripped /\ sync = [by |-> "nobody"]
Syncs(by, bot, ilvl, refused) ==
  sync' = [by |-> by, bot |-> bot, ilvl |-> ilvl, refused |-> refused,
           dressed |-> gear # Stripped]
GearForRaid(bot, ilvl, refused) ==
  gear' \in EquipForSpec(bot, ilvl, refused) /\ Syncs("raid", bot, ilvl, refused)
GearForArena(bot, ilvl, refused) ==
  gear' = EquipSeason(bot, SeasonForItemLevel(ilvl), refused) /\ Syncs("arena", bot, ilvl, refused)

GearNext ==
  \E bot \in [cls : Classes, level : Nat], ilvl \in Nat, refused \in SUBSET Nat :
    GearForRaid(bot, ilvl, refused) \/ GearForArena(bot, ilvl, refused)
GearSpec == GearInit /\ [][GearNext]_gearVars

\* "A piece that fails the equip probe must leave its slot to the off-piece
\* stage, not silently empty": a slot is left bare by a sync only if the core
\* refused every item of the character's level, class and spec up to the
\* ceiling; and one too low to be geared keeps what it wears.
BareIfRefused ==
  LET bot == sync.bot
      ceil == IF bot.level >= 50 THEN sync.ilvl + OffWindow ELSE bot.level + Headroom
      Fitting(s) ==
        IF sync.by = "raid"
        THEN {i \in Items : i.inv \in InvTypesOf(s) /\ i.key \in 0..bot.level /\ i.score > 0
                            /\ CanUseItem(bot, i) /\ i.ilvl \in 1..ceil}
        ELSE UNION {CandidatesFor(bot, t, SeasonForItemLevel(sync.ilvl)) : t \in InvTypesOf(s)}
  IN sync.by # "nobody" =>
       IF bot.level < (IF sync.by = "raid" THEN 5 ELSE 80) THEN sync.dressed => gear # Stripped
       ELSE \A s \in GearedSlots(bot.level) :
              gear[s] = None => {i.id : i \in Fitting(s)} \subseteq sync.refused

\* The level gate of quest rewards and the ceilings survive the set stage and
\* the widening: nothing a character wears after a raid sync is above its
\* level, and an off-piece is never above the band of the master.
WearsNothingBeyond ==
  sync.by = "raid" /\ sync.bot.level >= 5 =>
    \A p \in Places : gear[p] # None =>
      /\ gear[p].key <= sync.bot.level
      /\ gear[p].set = 0 =>
           gear[p].ilvl <= (IF sync.bot.level >= 50 THEN sync.ilvl + OffWindow ELSE sync.bot.level + Headroom)

\* No slot is left bare that could be filled, and none is filled beyond the band.
WearsWhatFits == BareIfRefused /\ WearsNothingBeyond
=============================================================================
