------------------------------ MODULE Rosters ------------------------------
(***************************************************************************)
(* The two rosters a player pins characters of the addclass pool into: the *)
(* raid roster (mod-raid-roster) and the arena partners (mod-arena-roster, *)
(* ArenaRosterCommand.cpp).  Both live in tables that are read at once and *)
(* written by database workers later.                                      *)
(***************************************************************************)
EXTENDS RaidRosterPlanner, FiniteSets

CONSTANTS
  Owners, Bots,
  ClassOf,       \* the class of a pool character
  Guilded,       \* the characters in a guild of players
  PoolPins,      \* the characters pinned by the opponent pool
  Comp,          \* slot -> class, role and talent tab of the raid roster
  PartnerDefs,   \* class -> default talent tab of the arena partner
  Brackets,
  Parties,       \* bound: the fixed members a login may find in the group
  Strangers,     \* bound: how many other players a team may have
  Backlog        \* bound: how many writes of a player may wait at once

ASSUME RosterAssumption ==
  /\ IsFiniteSet(Bots) /\ "none" \notin Owners
  /\ IsFiniteSet(DOMAIN Comp) /\ \A i \in DOMAIN Comp : Comp[i].role \in Roles
  /\ IsFiniteSet(DOMAIN PartnerDefs) /\ \A c \in DOMAIN PartnerDefs : PartnerDefs[c] \in 0..2
  /\ Parties \subseteq Counts /\ Strangers \subseteq Nat /\ Backlog \in Nat

VARIABLES
  raid,      \* mod_raid_roster: owner -> rows
  partners,  \* mod_arena_roster: owner -> rows
  writes,    \* transactions handed to the database workers
  session,   \* character -> offline, loading or online, and whose bot it is
  teams,     \* owner, bracket -> the arena team the player is in
  deserted,  \* bracket -> teams with roster characters that no player is in
  missed,    \* characters no removal could see: they joined a team while a
             \* write over its player's partners waited, or were freed while in
             \* a team their player was not in
  talents,   \* character -> talent tab
  unlocked   \* death knights that may use the dungeon finder
clubs == << teams, deserted, missed >>
rosterVars == << raid, partners, writes, session, clubs, talents, unlocked >>

Tabs == 0..2
\* syncone's tab for a class in a role, where the class can fill it.
SpecTabForRole ==
  [warrior |-> [tank |-> 2, dps |-> 1], paladin |-> [tank |-> 1, heal |-> 0, dps |-> 2],
   deathknight |-> [tank |-> 0, dps |-> 2], druid |-> [tank |-> 1, heal |-> 2, dps |-> 0],
   priest |-> [heal |-> 1, dps |-> 2], shaman |-> [heal |-> 2, dps |-> 1], mage |-> [dps |-> 2],
   warlock |-> [dps |-> 0], hunter |-> [dps |-> 1], rogue |-> [dps |-> 1]]

Row    == [bot : Bots, slot : DOMAIN Comp]
Partner == [bot : Bots, cls : DOMAIN PartnerDefs, tab : Tabs]
CreatedTab == 9   \* whatever the character was made with
NoOne  == [st |-> "off", of |-> "none"]
NoTeam == [live |-> FALSE, bots |-> {}, others |-> 0]
Guids(rows) == {r.bot : r \in rows}
Online(o) == {b \in Bots : session[b] = [st |-> "on", of |-> o]}

\* Nothing holds a command until the writes of the last one have run.
Waiting(o) == {w \in writes : w.of = o}
Writes(tbl, o, rows) ==
  \E n \in 1..Backlog :
    /\ {w.n : w \in Waiting(o)} \cap 1..n = 1..(n - 1)
    /\ writes' = writes \cup {[tbl |-> tbl, of |-> o, n |-> n, rows |-> rows]}

RosterInit ==
  /\ raid = [o \in Owners |-> {}] /\ partners = [o \in Owners |-> {}] /\ writes = {}
  /\ session = [b \in Bots |-> NoOne]
  /\ teams = [o \in Owners |-> [t \in Brackets |-> NoTeam]]
  /\ deserted = [t \in Brackets |-> {}] /\ missed = {}
  /\ talents = [b \in Bots |-> CreatedTab] /\ unlocked = {}

-----------------------------------------------------------------------------
\* The tables. A command reads what the workers have written, not what waits.

Load(o) == raid[o]
LoadPartners(o) == partners[o]

AllPinned(tbl) == UNION {Guids(tbl[o]) : o \in Owners}
Pinned == AllPinned(raid) \cup AllPinned(partners) \cup PoolPins

\* One transaction: the owner's rows are deleted and the new ones inserted; a
\* character of another owner in the table (uk_bot, uk_ar_bot) undoes it all.
\* Mutant of Executed: the rows that can be inserted stay.
ExecutedRowByRow(tbl, w) ==
  [tbl EXCEPT ![w.of] = {r \in w.rows : \A o \in Owners \ {w.of} : r.bot \notin Guids(tbl[o])}]
Executed(tbl, w) ==
  IF \E o \in Owners \ {w.of} : Guids(tbl[o]) \cap Guids(w.rows) # {} THEN tbl
  ELSE [tbl EXCEPT ![w.of] = w.rows]

\* SetPartnerSpec: an UPDATE of the row of the class.
Updated(w, p) == IF \E r \in w.rows : r.cls = p.cls
                 THEN [p EXCEPT !.tab = (CHOOSE r \in w.rows : r.cls = p.cls).tab] ELSE p
Respecced(w) == [partners EXCEPT ![w.of] = {Updated(w, p) : p \in @}]

RunWrite(w) ==
  /\ w \in writes /\ writes' = writes \ {w}
  /\ raid' = IF w.tbl = "raid" THEN Executed(raid, w) ELSE raid
  /\ partners' = CASE w.tbl = "arena" -> Executed(partners, w)
                   [] w.tbl = "spec" -> Respecced(w) [] OTHER -> partners
  /\ UNCHANGED << session, clubs, talents, unlocked >>

-----------------------------------------------------------------------------
\* Sessions.

Eligible == {b \in Bots : session[b].st # "on" /\ b \notin Pinned \cup Guilded}
AddPlayerBot(o, bots) ==
  [b \in Bots |-> IF b \in bots /\ session[b].st = "off"
                  THEN [st |-> "loading", of |-> o] ELSE session[b]]
LogoutPlayerBot(o, bots, s) == [b \in Bots |-> IF b \in bots \cap Online(o) THEN NoOne ELSE s[b]]

LoginDone(b) ==
  /\ session[b].st = "loading"
  /\ session' = [session EXCEPT ![b].st = "on"]
  /\ UNCHANGED << raid, partners, writes, clubs, talents, unlocked >>
BotLost(b) ==
  /\ session[b].st # "off" /\ session' = [session EXCEPT ![b] = NoOne]
  /\ UNCHANGED << raid, partners, writes, clubs, talents, unlocked >>

-----------------------------------------------------------------------------
\* .raidroster

RaidPicks ==
  {f \in [DOMAIN Comp -> Eligible] :
     /\ \A i \in DOMAIN Comp : ClassOf[f[i]] = Comp[i].cls
     /\ \A i, j \in DOMAIN Comp : f[i] = f[j] => i = j}
RaidCreate(o) ==
  /\ Load(o) = {}
  /\ \E f \in RaidPicks : Writes("raid", o, {[bot |-> f[i], slot |-> i] : i \in DOMAIN Comp})
  /\ UNCHANGED << raid, partners, session, clubs, talents, unlocked >>

RoleOf(r) == Comp[r.slot].role
OfRole(rows, role) == {r \in rows : RoleOf(r) = role}
RosterCounts(rows) == [role \in Roles |-> Cardinality(OfRole(rows, role))]
\* .raidroster status
HandleStatus(o) == [roles |-> RosterCounts(Load(o)), online |-> Cardinality(Guids(Load(o)) \cap Online(o))]
Plan(o, size, party) ==
  PlanRaidRosterFill(size, DesiredTotal(SubComps[size]), party, RosterCounts(Load(o)))

\* selectRole: the online rows of the role first, the others at random.
Selected(o, role, n) ==
  LET rows == OfRole(Load(o), role)
      up == {r \in rows : r.bot \in Online(o)}
  IN {s \in SUBSET rows : Cardinality(s) = n /\ (up \subseteq s \/ s \subseteq up)}
Selections(o, plan) ==
  {t \cup h \cup d : t \in Selected(o, "tank", plan["tank"]),
                   h \in Selected(o, "heal", plan["heal"]), d \in Selected(o, "dps", plan["dps"])}
\* Mutant of Dismissed: nobody is sent home.
NobodyDismissed(o, want) == {}
Dismissed(o, want) == Guids(Load(o)) \ Guids(want)

RaidLogin(o, size, party) ==
  /\ Load(o) # {}
  /\ \E want \in Selections(o, Plan(o, size, party)) :
       session' = LogoutPlayerBot(o, Dismissed(o, want), AddPlayerBot(o, Guids(want)))
  /\ UNCHANGED << raid, partners, writes, clubs, talents, unlocked >>

RaidLogout(o) ==
  /\ Load(o) # {}
  /\ session' = LogoutPlayerBot(o, Guids(Load(o)), session)
  /\ UNCHANGED << raid, partners, writes, clubs, talents, unlocked >>

\* remove confirm: log out who is online, drop the rows.
RaidRemove(o) ==
  /\ Load(o) # {}
  /\ session' = LogoutPlayerBot(o, Guids(Load(o)), session)
  /\ Writes("raid", o, {})
  /\ UNCHANGED << raid, partners, clubs, talents, unlocked >>

\* SyncBotToSpec: level, talents, gear (RosterGear), and for a death knight the
\* quest the dungeon finder asks for.
SyncBotToSpec(bots, tab) ==
  /\ talents' = [b \in Bots |-> IF b \in bots THEN tab[b] ELSE talents[b]]
  /\ unlocked' = unlocked \cup {b \in bots : ClassOf[b] = "deathknight"}
RaidSync(o) ==
  /\ Load(o) # {}
  /\ LET rows == {r \in Load(o) : r.bot \in Online(o)}
     IN SyncBotToSpec(Guids(rows), [b \in Guids(rows) |->
          Comp[(CHOOSE r \in rows : r.bot = b).slot].tab])
  /\ UNCHANGED << raid, partners, writes, session, clubs >>

\* syncone: the canonical tab of a role the class can fill, or the roster's.
SyncOne(o, b) ==
  /\ b \in Guids(Load(o)) \cap Online(o)
  /\ \E tab \in {SpecTabForRole[ClassOf[b]][role] : role \in DOMAIN SpecTabForRole[ClassOf[b]]}
                \cup {Comp[r.slot].tab : r \in {x \in Load(o) : x.bot = b}} :
       SyncBotToSpec({b}, [c \in {b} |-> tab])
  /\ UNCHANGED << raid, partners, writes, session, clubs >>

-----------------------------------------------------------------------------
\* .arenaroster

PartnerPicks ==
  {f \in [DOMAIN PartnerDefs -> Eligible] : \A c \in DOMAIN PartnerDefs : ClassOf[f[c]] = c}
PartnersCreate(o) ==
  /\ LoadPartners(o) = {}
  /\ \E f \in PartnerPicks :
       Writes("arena", o, {[bot |-> f[c], cls |-> c, tab |-> PartnerDefs[c]] : c \in DOMAIN PartnerDefs})
  /\ UNCHANGED << raid, partners, session, clubs, talents, unlocked >>

\* Mutant of Cleaned: the rows are dropped and the memberships stay.
CleanedNot(o) == teams[o]
Cleaned(o) == [t \in Brackets |-> IF teams[o][t].live
                 THEN [teams[o][t] EXCEPT !.bots = @ \ Guids(LoadPartners(o))] ELSE teams[o][t]]

\* Characters in teams that the player is not in.
Elsewhere(o, t) ==
  UNION {team.bots : team \in deserted[t] \cup {teams[q][t] : q \in Owners \ {o}}}
PartnersRemove(o) ==
  /\ teams' = [teams EXCEPT ![o] = Cleaned(o)]
  /\ missed' = missed \cup (Guids(LoadPartners(o)) \cap UNION {Elsewhere(o, t) : t \in Brackets})
  /\ Writes("arena", o, {})
  /\ UNCHANGED << raid, partners, session, deserted, talents, unlocked >>

\* ArenaTeam::AddMember, one after the other: twice the bracket's size at most,
\* the player included, and one team of the bracket per character.
Joined(o, t, team, picked) ==
  LET room == 2 * t - 1 - team.others - Cardinality(team.bots)
      new == picked \ (team.bots \cup Elsewhere(o, t))
  IN {[team EXCEPT !.bots = @ \cup s] :
        s \in {x \in SUBSET new : Cardinality(x) = Least(room, Cardinality(new))}}

\* go: a team is made if there is none, partners not picked leave it, the
\* picked ones join, and those who are members are logged in.
HandleGo(o, t) ==
  /\ \E picked \in SUBSET Guids(LoadPartners(o)) :
       /\ Cardinality(picked) = t - 1
       /\ LET stay == [teams[o][t] EXCEPT !.live = TRUE,
                         !.bots = {b \in @ : b \notin Guids(LoadPartners(o)) \/ b \in picked}]
          IN \E team \in Joined(o, t, stay, picked) :
               /\ teams' = [teams EXCEPT ![o][t] = team]
               /\ session' = AddPlayerBot(o, picked \cap team.bots)
               /\ missed' = missed \cup IF \E w \in Waiting(o) : w.tbl = "arena"
                                       THEN team.bots \ teams[o][t].bots ELSE {}
  /\ UNCHANGED << raid, partners, writes, deserted, talents, unlocked >>

\* .arenaroster status
PartnersStatus(o) ==
  {[cls |-> p.cls, tab |-> p.tab, online |-> p.bot \in Online(o)] : p \in LoadPartners(o)}

PartnersSync(o) ==
  /\ LoadPartners(o) # {}
  /\ LET rows == {p \in LoadPartners(o) : p.bot \in Online(o)}
     IN talents' = [b \in Bots |-> IF b \in Guids(rows)
                      THEN (CHOOSE p \in rows : p.bot = b).tab ELSE talents[b]]
  /\ UNCHANGED << raid, partners, writes, session, clubs, unlocked >>
\* Class -> the names of its talent tabs in their order.
TabNames ==
  [warrior |-> << "arms", "fury", "protection" >>, paladin |-> << "holy", "protection", "retribution" >>,
   hunter |-> << "beastmastery", "marksmanship", "survival" >>,
   rogue |-> << "assassination", "combat", "subtlety" >>, priest |-> << "discipline", "holy", "shadow" >>,
   deathknight |-> << "blood", "frost", "unholy" >>,
   shaman |-> << "elemental", "enhancement", "restoration" >>, mage |-> << "arcane", "fire", "frost" >>,
   warlock |-> << "affliction", "demonology", "destruction" >>,
   druid |-> << "balance", "feral", "restoration" >>]
SpecTabFromToken(cls, name) == {t \in Tabs : TabNames[cls][t + 1] = name}

HandleSpec(o) ==
  /\ \E p \in LoadPartners(o) : \E name \in {TabNames[p.cls][n] : n \in 1..3} : \E tab \in SpecTabFromToken(p.cls, name) :
       Writes("spec", o, {[p EXCEPT !.tab = tab]})
  /\ UNCHANGED << raid, partners, session, clubs, talents, unlocked >>
PartnersLogout(o) ==
  /\ LoadPartners(o) # {}
  /\ session' = LogoutPlayerBot(o, Guids(LoadPartners(o)), session)
  /\ UNCHANGED << raid, partners, writes, clubs, talents, unlocked >>

\* Other players join the team, the player disbands it or leaves it to another
\* player, and joins one, which a roster character may still be in.
TeamGrows(o, t) ==
  /\ teams[o][t].live
  /\ \E n \in Strangers :
       /\ n > teams[o][t].others /\ n + Cardinality(teams[o][t].bots) <= 2 * t - 1
       /\ teams' = [teams EXCEPT ![o][t].others = n]
  /\ UNCHANGED deserted
TeamIsLeft(o, t) ==
  /\ teams[o][t].live /\ teams' = [teams EXCEPT ![o][t] = NoTeam]
  /\ \/ UNCHANGED deserted
     \/ teams[o][t].others > 0 /\ deserted' = [deserted EXCEPT ![t] = @ \cup {teams[o][t]}]
TeamIsJoined(o, t) ==
  /\ ~teams[o][t].live
  /\ \E team \in deserted[t] \cup {[NoTeam EXCEPT !.live = TRUE, !.others = n] : n \in Strangers} :
       /\ team.others \in 1..(2 * t - 1)
       /\ teams' = [teams EXCEPT ![o][t] = team]
       /\ deserted' = [deserted EXCEPT ![t] = @ \ {team}]
TeamChanges(o, t) ==
  /\ TeamGrows(o, t) \/ TeamIsLeft(o, t) \/ TeamIsJoined(o, t)
  /\ UNCHANGED << raid, partners, writes, session, missed, talents, unlocked >>

\* The commands of any players, in any order.
Commands(o) ==
  \/ RaidCreate(o) \/ RaidLogout(o) \/ RaidRemove(o) \/ RaidSync(o)
  \/ \E size \in DOMAIN SubComps, party \in Parties : RaidLogin(o, size, party)
  \/ \E b \in Bots : SyncOne(o, b)
  \/ PartnersCreate(o) \/ PartnersRemove(o) \/ PartnersSync(o) \/ HandleSpec(o) \/ PartnersLogout(o)
  \/ \E t \in Brackets : HandleGo(o, t) \/ TeamChanges(o, t)
RosterNext ==
  \/ \E w \in writes : RunWrite(w)
  \/ \E b \in Bots : LoginDone(b) \/ BotLost(b)
  \/ \E o \in Owners : Commands(o)
RosterSpec == RosterInit /\ [][RosterNext]_rosterVars

-----------------------------------------------------------------------------
RosterTypeOK ==
  /\ raid \in [Owners -> SUBSET Row] /\ partners \in [Owners -> SUBSET Partner]
  /\ \A w \in writes : w.tbl \in {"raid", "arena", "spec"} /\ w.of \in Owners
  /\ session \in [Bots -> [st : {"off", "loading", "on"}, of : Owners \cup {"none"}]]
  /\ unlocked \subseteq Bots

\* Overlapping commands of several players, the unique keys and failed
\* transactions never leave half a roster: a player has every slot of the
\* composition, by a character of its class, or none; and no table has a
\* character twice (Replace, ReplacePartners, uk_bot, uk_ar_bot).
RosterWhole ==
  \A o \in Owners :
    /\ raid[o] # {} => /\ {r.slot : r \in raid[o]} = DOMAIN Comp
                       /\ Total(HandleStatus(o).roles) = Cardinality(DOMAIN Comp)
                       /\ \A r \in raid[o] : ClassOf[r.bot] = Comp[r.slot].cls
    /\ partners[o] # {} => /\ {p.cls : p \in partners[o]} = DOMAIN PartnerDefs
                           /\ Cardinality(PartnersStatus(o)) = Cardinality(DOMAIN PartnerDefs)
    /\ \A q \in Owners \ {o} : /\ Guids(raid[o]) \cap Guids(raid[q]) = {}
                               /\ Guids(partners[o]) \cap Guids(partners[q]) = {}

\* "Unpinned partners would otherwise stay members of the owner's teams",
\* strangers that go never evicts: every roster character in a team of players
\* is pinned to one, but for those a removal could not see.  They are two kinds:
\* a go reads rows that a waiting write is about to change, and seats who is
\* being freed; and a removal looks only into the teams its player is in
\* (HandleRemove, HandleGo).
FreedAreTeamless ==
  \A t \in Brackets : \A team \in deserted[t] \cup {teams[o][t] : o \in Owners} :
    team.bots \subseteq AllPinned(partners) \cup missed

\* A login issued with no other login in flight, and no other player's bot in the
\* roster, brings the group to its size as far as the roster reaches, and no
\* further; and it never sends a bot home and logs another of its role in.
RaidFits ==
  [][\A o \in Owners :
       /\ raid[o] # {} /\ \A b \in Guids(raid[o]) : b \in Online(o) \/ session[b] = NoOne
       /\ session' # session
       =>
         LET fielded(role) == {r \in OfRole(raid[o], role) : session'[r.bot].of = o}
             before(role) == {r \in OfRole(raid[o], role) : session[r.bot].of = o}
         IN \A size \in DOMAIN SubComps, party \in Parties :
              RaidLogin(o, size, party) =>
                /\ Cardinality(UNION {fielded(role) : role \in Roles})
                     = Least(SlotsForRoster(size, party), Cardinality(raid[o]))
                /\ \A role \in Roles :
                     fielded(role) \subseteq before(role) \/ before(role) \subseteq fielded(role)]_rosterVars
=============================================================================
