------------------------------ MODULE MCRosters ------------------------------
(***************************************************************************)
(* The rosters, their gear and the companions' gems on small instances:    *)
(* one scenario per part, the others stand still in it.                    *)
(***************************************************************************)
EXTENDS RaidErrands, RosterGear, CompanionGems, TLC

CONSTANTS o1, o2, w1, w2, w3, p1, m1, m2, Scenarios

VARIABLE scenario
MCVars == << rosterVars, errandVars, gearVars, gemVars, scenario >>

\* Death knights to choose from, one priest two rosters compete for, and mages.
MCBots == {w1, w2, w3, p1, m1, m2}
MCClassOf == [b \in MCBots |-> CASE b \in {w1, w2, w3} -> "deathknight" [] b = p1 -> "priest" [] OTHER -> "mage"]
Slot(c, r, t) == [cls |-> c, role |-> r, tab |-> t]
MCComp == << Slot("deathknight", "tank", 0), Slot("priest", "heal", 1), Slot("mage", "dps", 2), Slot("deathknight", "dps", 1) >>
MCPartnerDefs == [c \in {"deathknight", "mage"} |-> 2]
Roster(t, h, d) == [r \in Roles |-> CASE r = "tank" -> t [] r = "heal" -> h [] OTHER -> d]
MCSubComps == [s \in {2, 3, 5} |-> CASE s = 2 -> Roster(1, 0, 0) [] s = 3 -> Roster(1, 1, 0) [] OTHER -> Roster(1, 1, 2)]
MCParties == {Roster(0, 0, 1), Roster(1, 0, 0), Roster(0, 2, 0), Roster(1, 0, 2)}
Perms == Permutations({w1, w2, w3}) \cup Permutations({m1, m2})

\* How many writes may wait when the next command is typed: of one player or
\* of two where the scenario is about it, none elsewhere.
Patience(s) == IF s \in {"pins", "hasty"} THEN 1 ELSE 0
Typed(s) ==
  \/ s = "pins" /\ \E o \in Owners : RaidCreate(o) \/ RaidRemove(o) \/ PartnersCreate(o) \/ PartnersRemove(o)
  \/ s = "raid" /\ \/ RaidCreate(o1) \/ RaidRemove(o1) \/ RaidLogout(o1)
                   \/ \E size \in DOMAIN SubComps, party \in Parties : RaidLogin(o1, size, party)
  \/ s = "sync" /\ \/ RaidCreate(o1) \/ RaidLogin(o1, 5, Roster(0, 0, 1))
                   \/ RaidSync(o1) \/ \E b \in Bots : SyncOne(o1, b)
  \/ s = "spec" /\ \/ PartnersCreate(o1) \/ HandleSpec(o1) \/ PartnersSync(o1)
                   \/ HandleGo(o1, 3) \/ PartnersLogout(o1)
  \/ s \in {"outing", "hasty", "teams"} /\ (PartnersCreate(o1) \/ PartnersRemove(o1) \/ HandleGo(o1, 2))
  \/ s = "outing" /\ HandleGo(o1, 3)
RosterSteps(s) ==
  \/ \E w \in writes : RunWrite(w)
  \/ Cardinality(writes) <= Patience(s) /\ Typed(s)
  \/ s \in {"raid", "sync", "spec"} /\ \E b \in Bots : LoginDone(b) \/ BotLost(b)
  \/ s \in {"outing", "hasty"} /\ UNCHANGED deserted
       /\ \E t \in Brackets : teams[o1][t].live /\ TeamChanges(o1, t)
  \/ s = "teams" /\ TeamChanges(o1, 2)

-----------------------------------------------------------------------------
\* Errands begin with a whole roster, two of its bots online.
Good(id, kind, rank, stack, sale) == [id |-> id, kind |-> kind, rank |-> rank, stack |-> stack, sale |-> sale]
MCPotion == Good("potion", "heal", 2, 2, FALSE)
MCGoods ==
  {Good("old", "heal", 1, 1, TRUE), MCPotion, Good("mana", "mana", 1, 1, FALSE), Good("candle", "reagent", 1, 2, FALSE),
   Good("trophy", "none", 1, 1, TRUE)}
MCRandomPotion == [k \in {"heal", "mana"} |-> CHOOSE g \in MCGoods : g.kind = k /\ g.id # "old"]
MCLocks == [map : {"naxx", "ulduar"}, difficulty : {10, 25}]
Errands == {"stock", "locks"}
Ready ==
  /\ raid = [o \in Owners |-> IF o = o1 THEN {[bot |-> w1, slot |-> 1], [bot |-> p1, slot |-> 2],
                                             [bot |-> m1, slot |-> 3], [bot |-> w2, slot |-> 4]} ELSE {}]
  /\ partners = [o \in Owners |-> {}] /\ writes = {}
  /\ session = [b \in Bots |-> IF b \in {w1, m1} THEN [st |-> "on", of |-> o1] ELSE NoOne]
  /\ teams = [o \in Owners |-> [t \in Brackets |-> NoTeam]]
  /\ deserted = [t \in Brackets |-> {}] /\ missed = {}
  /\ talents = [b \in Bots |-> CreatedTab] /\ unlocked = {}
ErrandSteps(s) ==
  \/ s = "stock" /\ \/ StockUp(o1) \/ \E c \in {o1, m1} : VendorNear(c)
                    \/ \E g \in Goods, n \in 0..2 : n <= g.stack /\ BagChanges(m1, g, n)
  \/ s = "locks" /\ \E o \in Owners : HandleReset(o) \/ Leaves(o) \/ \E k \in Locks : Enters(o, k)

-----------------------------------------------------------------------------
\* An epic and a rare set, pieces the core refuses, a quest reward cached above
\* the level of its template, a cloak cached under 0, rings of three eras.
MCClasses == {"deathknight", "priest"}
Piece(id, inv, ilvl, key, q, set, armor, score, line) ==
  [id |-> id, inv |-> inv, ilvl |-> ilvl, key |-> key, quality |-> q, set |-> set, pvp |-> FALSE,
   armor |-> armor, classes |-> MCClasses, score |-> score, line |-> line]
MCItems ==
  {Piece(1, "HEAD", 200, 80, 4, 1, "plate", 10, "pve"), Piece(2, "CHEST", 200, 80, 4, 1, "plate", 10, "pve"),
   Piece(3, "HEAD", 206, 78, 3, 2, "plate", 12, "pve"), Piece(4, "ROBE", 206, 78, 3, 2, "plate", 12, "pve"),
   Piece(5, "HEAD", 190, 78, 3, 0, "plate", 8, "pve"), Piece(6, "CHEST", 210, 80, 4, 0, "cloth", 9, "pve"),
   Piece(7, "HEAD", 174, 70, 2, 0, "cloth", 7, "pve"), Piece(8, "CHEST", 60, 58, 2, 0, "plate", 5, "pve"),
   Piece(9, "FINGER", 200, 80, 4, 0, "none", 9, "pve"), Piece(10, "FINGER", 180, 70, 3, 0, "none", 6, "pve"),
   Piece(11, "FINGER", 28, 20, 2, 0, "none", 2, "pve"), Piece(12, "CLOAK", 232, 0, 4, 0, "none", 20, "pve"),
   Piece(13, "CLOAK", 20, 12, 2, 0, "none", 2, "pve"), Piece(14, "TWOHAND", 200, 80, 4, 0, "none", 20, "pve"),
   Piece(15, "MAINHAND", 190, 78, 3, 0, "none", 11, "pve"), Piece(16, "SHIELD", 190, 78, 3, 0, "none", 4, "pve"),
   Piece(17, "HEAD", 200, 80, 4, 0, "plate", 9, "savage"), Piece(18, "HEAD", 200, 80, 4, 0, "plate", 8, "hateful"),
   Piece(19, "CHEST", 232, 80, 4, 0, "plate", 9, "furious"), Piece(20, "TRINKET", 200, 80, 4, 0, "none", 0, "medallion"),
   Piece(21, "TRINKET", 264, 80, 4, 0, "none", 0, "medallion"), Piece(22, "TRINKET", 200, 80, 3, 0, "none", 3, "pve")}
Dressings == [cls : MCClasses, level : {4, 15, 60, 72, 80}]
Refusals == {{}, {1}, {2, 13}, {3, 6}, {9, 14}, {5, 17}}

\* A gearing begins with a strip: what a character wore before matters only to
\* the ones that stop at their gate.
Gearings(s) ==
  /\ s = "gear"
  /\ \E bot \in Dressings, ilvl \in {70, 187, 203, 230}, refused \in Refusals :
       \/ (sync.by = "nobody" \/ bot.level < 5) /\ GearForRaid(bot, ilvl, refused)
       \/ (sync.by = "nobody" \/ bot.level < 80) /\ GearForArena(bot, ilvl, refused)

-----------------------------------------------------------------------------
\* A helm with a meta and a red socket, a chest with a yellow and a blue one.
MCSockets == 1..4
MCColorsOf == << {"meta"}, {"red"}, {"yellow"}, {"blue"} >>
MCItemOf == << "helm", "helm", "chest", "chest" >>
Gem(id, colors, score, epic, rules) ==
  [id |-> id, colors |-> colors, score |-> score, epic |-> epic, rules |-> rules, readable |-> TRUE]
Rule(c, cmp, other, v) == [color |-> c, cmp |-> cmp, other |-> other, value |-> v]
Chaotic == Gem("chaotic", {"meta"}, 6, FALSE, {Rule("blue", ">", "none", 1)})
Swift == Gem("swift", {"meta"}, 5, FALSE, {Rule("yellow", ">", "red", 0)})
MCBcGemItems ==
  {Gem("ruby", {"red"}, 5, FALSE, {}), Gem("spinel", {"red"}, 9, TRUE, {}),
   Gem("nightseye", {"red", "blue"}, 3, FALSE, {}), Chaotic}
MCManualGems == {Gem("dawnstone", {"yellow"}, 0, FALSE, {}), Swift, [Chaotic EXCEPT !.id = "odd", !.readable = FALSE]}
Bare == [s \in MCSockets |-> Empty]

GemSteps(s) ==
  /\ s = "gems"
  /\ \/ RefreshSettings \/ OnPlayerAfterUpdate \/ Busy \/ PinsChange
     \/ \E i \in {"helm", "chest"} : PutOn(i, Bare)
     \/ \E g \in MCManualGems \cup {Chaotic}, n \in Sockets : SocketByHand(n, g)
     \/ \E i \in {"helm", "chest"}, st \in {"whole", "held", "broken"} : ItemChanges(i, st)

-----------------------------------------------------------------------------
Init ==
  /\ scenario \in Scenarios /\ ErrandInit /\ GearInit /\ GemInit
  /\ IF scenario \in Errands THEN Ready ELSE RosterInit
Next ==
  /\ UNCHANGED scenario
  /\ \/ RosterSteps(scenario) /\ UNCHANGED << errandVars, gearVars, gemVars >>
     \/ ErrandSteps(scenario) /\ UNCHANGED << rosterVars, gearVars, gemVars >>
     \/ Gearings(scenario) /\ UNCHANGED << rosterVars, errandVars, gemVars >>
     \/ GemSteps(scenario) /\ UNCHANGED << rosterVars, errandVars, gearVars >>
Spec == Init /\ [][Next]_MCVars
=============================================================================
