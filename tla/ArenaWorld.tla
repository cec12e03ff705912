----------------------------- MODULE ArenaWorld -----------------------------
(* What the arena director shares with the rest of the worldserver: the login *)
(* state of the addclass bots, the mod_arena_pool table behind asynchronous   *)
(* database workers, and the arena teams the core keeps in memory.            *)
(* Everything here is moved by the director (ArenaPool, ArenaEngagement) and  *)
(* by the surrounding server (the actions of this module).                    *)
EXTENDS Integers, Sequences, FiniteSets

CONSTANTS
    Bots,          \* addclass characters the pool can pin
    TierCount,     \* TIER_COUNT (4)
    TierSize,      \* TIER_SIZE (15)
    BracketCount,  \* BRACKET_COUNT (3)
    TierRatings,   \* [Tiers -> Nat]: g_ArTierRatings, the rating a tier is pinned at
    MaxAge         \* bound: director ticks an asynchronous write may stay pending

Tiers    == 1 .. TierCount
Slots    == 0 .. TierSize - 1
Brackets == 0 .. BracketCount - 1

ASSUME WorldAssumption ==
    /\ TierCount \in Nat \ {0}
    /\ TierSize \in Nat \ {0}
    /\ BracketCount \in Nat \ {0}
    /\ MaxAge \in Nat \ {0}
    /\ TierRatings \in [Tiers -> Nat]

VARIABLES
    conn,     \* [Bots -> login state]: "loading" while a login holder is in flight
    table,    \* mod_arena_pool: (tier, roster_idx) -> row
    writes,   \* statements handed to the database workers and not yet executed
    teams,    \* arena teams of the pool by id
    nextTeam  \* next arena team id the core will hand out

worldVars == <<conn, table, writes, teams, nextTeam>>

Row  == [bot : Bots, team : [Brackets -> Nat]]
IsRows(rs) == DOMAIN rs \subseteq Tiers \X Slots /\ \A x \in DOMAIN rs : rs[x] \in Row
NoRows == [x \in {} |-> x]

BotsOf(rs)        == {rs[x].bot : x \in DOMAIN rs}
TierBots(rs, t)   == {rs[x].bot : x \in {y \in DOMAIN rs : y[1] = t}}
Online(b)         == conn[b] = "online"
Distinct(rs)      == \A x, y \in DOMAIN rs : rs[x].bot = rs[y].bot => x = y

-----------------------------------------------------------------------------
(* RandomPlayerbotMgr: a login is asynchronous and is ignored while one is in *)
(* flight; a logout reaches only a bot that is already logged in.             *)

AddPlayerBot(c, bs) ==
    [b \in Bots |-> IF b \in bs /\ c[b] = "offline" THEN "loading" ELSE c[b]]

LogoutPlayerBot(c, bs) ==
    [b \in Bots |-> IF b \in bs /\ c[b] = "online" THEN "offline" ELSE c[b]]

LoginDone(b) ==
    /\ conn[b] = "loading"
    /\ conn' = [conn EXCEPT ![b] = "online"]
    /\ UNCHANGED <<table, writes, teams, nextTeam>>

\* A login that silently did not stick, or a bot that drops out of the world.
BotLost(b) ==
    /\ conn[b] # "offline"
    /\ conn' = [conn EXCEPT ![b] = "offline"]
    /\ UNCHANGED <<table, writes, teams, nextTeam>>

-----------------------------------------------------------------------------
(* ArenaRosterStore: writes go to CharacterDatabase's worker threads and run  *)
(* in any order; reads are synchronous and see only what has run.             *)

ClearPool           == [op |-> "clear", age |-> 0]
ReplacePool(rs)     == [op |-> "replace", rows |-> rs, age |-> 0]
SetPoolTeams(x, f)  == [op |-> "teams", at |-> x, team |-> f, age |-> 0]

\* Mutant of Executed: SetPoolTeams updates every row of the tier.
ExecutedOnWholeTier(w) ==
    CASE w.op = "clear"   -> NoRows
      [] w.op = "replace" -> w.rows
      [] w.op = "teams"   -> [x \in DOMAIN table |->
                                IF x[1] = w.at[1] THEN [table[x] EXCEPT !.team = w.team]
                                ELSE table[x]]

\* uk_ap_bot makes a ReplacePool transaction that pins a bot twice fail as a whole.
Executed(w) ==
    CASE w.op = "clear"   -> NoRows
      [] w.op = "replace" -> IF Distinct(w.rows) THEN w.rows ELSE table
      [] w.op = "teams"   -> IF w.at \in DOMAIN table
                             THEN [table EXCEPT ![w.at].team = w.team] ELSE table

RunWrite(w) ==
    /\ w \in writes
    /\ table' = Executed(w)
    /\ writes' = writes \ {w}
    /\ UNCHANGED <<conn, teams, nextTeam>>

Aged == {[w EXCEPT !.age = @ + 1] : w \in writes}

\* No write outlives MaxAge ticks of the director.
WritesKeepUp == \A w \in writes : w.age < MaxAge

-----------------------------------------------------------------------------
\* A pool team is disbanded from outside (by hand, or by its captain).
TeamVanishes(id) ==
    /\ id \in DOMAIN teams
    /\ teams' = [i \in DOMAIN teams \ {id} |-> teams[i]]
    /\ UNCHANGED <<conn, table, writes, nextTeam>>

\* A crash of the worldserver: logins, pending writes and memory are gone, the
\* table and the saved teams stay.
WorldCrash ==
    /\ conn' = [b \in Bots |-> "offline"]
    /\ writes' = {}
    /\ UNCHANGED <<table, teams, nextTeam>>

WorldInit ==
    /\ conn = [b \in Bots |-> "offline"]
    /\ table = NoRows
    /\ writes = {}
    /\ teams = NoRows
    /\ nextTeam = 1
=============================================================================
