--------------------------- MODULE ArenaEngagement ---------------------------
(* One served opponent lineup of ArenaRosterDirector: the queue watch that    *)
(* picks a pool team for a real player's rated queue, and the engagement that *)
(* logs the team in, queues it, lets it fight and drains it.                  *)
EXTENDS ArenaWorld, Functions, FiniteSetsExt

CONSTANTS
    NoTeam,             \* no team: no captain and no match
    Ratings,            \* team ratings that occur
    TierCeilings,       \* [1 .. TierCount - 1 -> Nat]: g_ArTierCeilings
    EngLoginTimeout,    \* ENG_LOGIN_TIMEOUT_MS
    EngQueueTimeout,    \* ENG_QUEUE_TIMEOUT_MS
    EngFightTimeout,    \* ENG_FIGHT_TIMEOUT_MS
    GraceLogout,        \* g_ArGraceLogoutSecs
    Battlemasters       \* entries in the battlemaster cache of the captain's faction

ASSUME EngagementAssumption ==
    /\ EngLoginTimeout \in Nat /\ EngQueueTimeout \in Nat /\ EngFightTimeout \in Nat
    /\ GraceLogout \in Nat /\ Battlemasters \in Nat /\ Ratings \subseteq Nat
    /\ TierCeilings \in [1 .. TierCount - 1 -> Nat]

VARIABLES
    eng,         \* _eng
    lastServed,  \* _lastServedTeam
    playerQueue, \* the real player's rated queue entry, or NoTeam
    match,       \* where the core has the served team: queue, arena or nowhere
    packets      \* join and leave packets queued on bot sessions, not yet handled

engVars == <<eng, lastServed, playerQueue, match, packets>>

States == {"LoggingIn", "Queueing", "Fighting", "Draining"}
NoEngagement ==
    [active |-> FALSE, st |-> "LoggingIn", tier |-> 0, bracket |-> 0, team |-> 0,
     captain |-> NoTeam, bots |-> {}, stateMs |-> 0, graceMs |-> 0, bm |-> FALSE,
     bmTeleported |-> FALSE, bmCacheIdx |-> 0, grouped |-> FALSE, queued |-> FALSE]
NoMatch == [st |-> "none", team |-> 0]

EngInit ==
    /\ eng = NoEngagement
    /\ lastServed = [t \in Tiers |-> [s \in Brackets |-> 0]]
    /\ playerQueue = NoTeam
    /\ match = NoMatch
    /\ packets = {}

CaptainOnline == eng.captain \in Bots /\ Online(eng.captain)
InQueue       == match.st = "queue" /\ match.team = eng.team
InArena       == match.st = "arena" /\ match.team = eng.team

-----------------------------------------------------------------------------
\* ArenaRosterTierFor, one-based: the first ceiling above the rating.
TierFor(rating) == Min({t \in 1 .. TierCount - 1 : rating < TierCeilings[t]} \cup {TierCount})

\* Mutant of InBand: the ceiling belongs to both tiers.
InClosedBand(rating, t) ==
    /\ t >= 2 => rating >= TierCeilings[t - 1]
    /\ IF t <= TierCount - 1 THEN rating <= TierCeilings[t] ELSE rating <= 3500

\* The band RenormalizeServedTeam accepts for a tier; 3500 closes the top one.
InBand(rating, t) ==
    /\ t >= 2 => rating >= TierCeilings[t - 1]
    /\ IF t <= TierCount - 1 THEN rating < TierCeilings[t] ELSE rating < 3500

-----------------------------------------------------------------------------
\* The lineups of a tier and bracket as the table has them now.
LineupIds(t, s) == {table[x].team[s] : x \in {y \in DOMAIN table : y[1] = t}} \ {0}
Lineup(t, s, id) == {table[x].bot : x \in {y \in DOMAIN table : y[1] = t /\ table[y].team[s] = id}}

\* Mutant of Rank: lower_bound for upper_bound, the last served team comes first.
RankFromCursor(id, cursor, ids) ==
    IF id >= cursor THEN Cardinality({i \in ids : cursor <= i /\ i <= id})
                    ELSE Cardinality({i \in ids : i >= cursor \/ i <= id})
\* Distance of id behind the cursor in cyclic id order: ids above it come first.
Rank(id, cursor, ids) ==
    IF id > cursor THEN Cardinality({i \in ids : cursor < i /\ i <= id})
                   ELSE Cardinality({i \in ids : i > cursor \/ i <= id})

\* First team behind the cursor that still exists; every dead id on the way moves the cursor.
ServeOpponents(t, s) ==
    LET ids  == LineupIds(t, s)
        live == ids \cap DOMAIN teams
        cur  == lastServed[t][s]
    IN
    /\ ~eng.active
    /\ ids # {}
    /\ \/ \E id \in live :
            /\ \A o \in live : Rank(id, cur, ids) <= Rank(o, cur, ids)
            /\ eng' = [NoEngagement EXCEPT
                         !.active = TRUE, !.tier = t, !.bracket = s, !.team = id,
                         !.captain = teams[id].captain, !.bots = Lineup(t, s, id)]
            /\ lastServed' = [lastServed EXCEPT ![t][s] = id]
            /\ conn' = AddPlayerBot(conn, Lineup(t, s, id))
       \/ /\ live = {}
          /\ \E id \in ids :
               /\ \A o \in ids : Rank(o, cur, ids) <= Rank(id, cur, ids)
               /\ lastServed' = [lastServed EXCEPT ![t][s] = id]
          /\ UNCHANGED <<eng, conn>>
    /\ UNCHANGED <<playerQueue, match, packets>>

\* The scan found a rated queue entry; the player's team rating picks the tier.
ServeQueuedPlayer ==
    /\ playerQueue # NoTeam
    /\ ServeOpponents(TierFor(playerQueue.rating), playerQueue.bracket)

ScanServesNobody ==
    /\ ~eng.active
    /\ playerQueue # NoTeam =>
          LineupIds(TierFor(playerQueue.rating), playerQueue.bracket) = {}
    /\ UNCHANGED <<eng, lastServed, playerQueue, match, packets, conn>>

-----------------------------------------------------------------------------
\* Abort sends a leave packet for a queued bot and always drains.
Abort(e) == [e EXCEPT !.st = "Draining", !.stateMs = 0, !.graceMs = 0]
AbortEngagement(e) ==
    /\ eng' = Abort(e)
    /\ packets' = IF InQueue /\ \E b \in e.bots : Online(b)
                  THEN packets \cup {"leave"} ELSE packets

\* Mutant of Ticked: the state timer is overwritten, not accumulated.
TickedAfresh(elapsed) == [eng EXCEPT !.stateMs = elapsed]
Ticked(elapsed) == [eng EXCEPT !.stateMs = @ + elapsed]

TickLoggingIn(elapsed) ==
    LET e       == Ticked(elapsed)
        missing == {b \in eng.bots : ~Online(b)}
    IN
    /\ eng.st = "LoggingIn"
    /\ conn' = AddPlayerBot(conn, missing)
    /\ \/ /\ missing = {}
          /\ eng' = [e EXCEPT !.st = "Queueing", !.stateMs = 0]
          /\ UNCHANGED packets
       \/ /\ missing # {} /\ e.stateMs > EngLoginTimeout
          /\ AbortEngagement(e)
       \/ /\ missing # {} /\ e.stateMs <= EngLoginTimeout
          /\ eng' = e
          /\ UNCHANGED packets
    /\ UNCHANGED teams

\* TeleportCaptainToBattlemaster: entries without spawn data are skipped, a
\* failed teleport gives up for this tick, running out of entries aborts.
TeleportCaptain(e) ==
    \/ \E i \in eng.bmCacheIdx + 1 .. Battlemasters, arrives \in BOOLEAN :
          /\ eng' = [e EXCEPT !.bmCacheIdx = i, !.bmTeleported = arrives]
          /\ UNCHANGED packets
    \/ AbortEngagement([e EXCEPT !.bmCacheIdx = Battlemasters])

\* GroupEngagementTeam fails when a member has dropped, or when the core refuses.
GroupTeam(e) ==
    \/ /\ \A b \in eng.bots : Online(b)
       /\ eng' = [e EXCEPT !.grouped = TRUE]
       /\ UNCHANGED packets
    \/ AbortEngagement(e)

\* The sub-steps of Queueing, at most one visible step per tick: find a
\* battlemaster (the same tick goes on when one is near), group, send the join.
QueueStep(e) ==
    \/ /\ ~eng.queued /\ ~eng.bm /\ ~eng.bmTeleported
       /\ TeleportCaptain(e)
    \/ /\ ~eng.queued /\ ~eng.bm /\ eng.bmTeleported
       /\ eng' = e /\ UNCHANGED packets
    \/ /\ ~eng.queued /\ ~eng.grouped
       /\ GroupTeam([e EXCEPT !.bm = TRUE])
    \/ /\ ~eng.queued /\ eng.grouped
       /\ eng' = [e EXCEPT !.bm = TRUE, !.queued = TRUE]
       /\ packets' = packets \cup {"join"}
    \/ /\ ~eng.queued /\ eng.grouped
       /\ eng' = [e EXCEPT !.bm = FALSE] /\ UNCHANGED packets
    \/ /\ eng.queued
       /\ eng' = IF InArena THEN [e EXCEPT !.st = "Fighting", !.stateMs = 0] ELSE e
       /\ UNCHANGED packets

TickQueueing(elapsed) ==
    LET e == Ticked(elapsed) IN
    /\ eng.st = "Queueing"
    /\ \/ /\ ~CaptainOnline \/ e.stateMs > EngQueueTimeout
          /\ AbortEngagement(e)
       \/ /\ CaptainOnline /\ e.stateMs <= EngQueueTimeout
          /\ QueueStep(e)
    /\ UNCHANGED <<conn, teams>>

\* RenormalizeServedTeam: a rating outside the tier's band is pinned back.
Renormalized ==
    IF eng.team \in DOMAIN teams /\ ~InBand(teams[eng.team].rating, eng.tier)
    THEN [teams EXCEPT ![eng.team].rating = TierRatings[eng.tier]]
    ELSE teams

TickFighting(elapsed) ==
    LET e       == Ticked(elapsed)
        running == CaptainOnline /\ (InArena \/ InQueue) /\ e.stateMs <= EngFightTimeout
    IN
    /\ eng.st = "Fighting"
    /\ eng' = IF running THEN e ELSE Abort(e)
    /\ teams' = IF running THEN teams ELSE Renormalized
    /\ UNCHANGED <<conn, packets>>

\* Mutant of TickDraining: the engagement is dropped without logging its bots out.
DrainWithoutLogout(elapsed) ==
    /\ eng.st = "Draining"
    /\ eng' = NoEngagement
    /\ UNCHANGED <<conn, packets, match, teams>>

\* The core takes a bot that logs out off its queue and drops its packets.
TickDraining(elapsed) ==
    LET e == [Ticked(elapsed) EXCEPT !.graceMs = @ + elapsed] IN
    /\ eng.st = "Draining"
    /\ \/ /\ e.graceMs < GraceLogout
          /\ eng' = e
          /\ UNCHANGED <<conn, packets, match>>
       \/ /\ e.graceMs >= GraceLogout
          /\ conn' = LogoutPlayerBot(conn, eng.bots)
          /\ packets' = {}
          /\ match' = IF InQueue THEN NoMatch ELSE match
          /\ eng' = NoEngagement
    /\ UNCHANGED teams

TickEngagement(elapsed) ==
    /\ eng.active
    /\ \/ TickLoggingIn(elapsed) /\ UNCHANGED match
       \/ TickQueueing(elapsed) /\ UNCHANGED match
       \/ TickFighting(elapsed) /\ UNCHANGED match
       \/ TickDraining(elapsed)
    /\ UNCHANGED <<lastServed, playerQueue>>

\* TickQueueWatch with no pool job running.
TickQueueWatch(elapsed) ==
    /\ \/ TickEngagement(elapsed)
       \/ ServeQueuedPlayer /\ UNCHANGED teams
       \/ ScanServesNobody /\ UNCHANGED teams
    /\ UNCHANGED <<table, nextTeam>>

-----------------------------------------------------------------------------
(* The core and the real player, as far as the engagement can see them.       *)

PlayerQueues ==
    /\ playerQueue = NoTeam
    /\ playerQueue' \in [rating : Ratings, bracket : Brackets]
    /\ UNCHANGED <<eng, lastServed, match, packets, worldVars>>

PlayerLeavesQueue ==
    /\ playerQueue # NoTeam
    /\ playerQueue' = NoTeam
    /\ UNCHANGED <<eng, lastServed, match, packets, worldVars>>

\* The join handler takes the team into the queue, or rejects it.
JoinHandled ==
    /\ "join" \in packets
    /\ packets' = packets \ {"join"}
    /\ match' \in {match} \cup
         (IF match.st = "none" /\ CaptainOnline THEN {[st |-> "queue", team |-> eng.team]} ELSE {})
    /\ UNCHANGED <<eng, lastServed, playerQueue, worldVars>>

LeaveHandled ==
    /\ "leave" \in packets
    /\ packets' = packets \ {"leave"}
    /\ match' = IF match.st = "queue" THEN NoMatch ELSE match
    /\ UNCHANGED <<eng, lastServed, playerQueue, worldVars>>

\* The queue pairs the team with an opponent, or drops it.
MatchPops ==
    /\ match.st = "queue"
    /\ match' = [match EXCEPT !.st = "arena"]
    /\ playerQueue' = NoTeam
    /\ UNCHANGED <<eng, lastServed, packets, worldVars>>

QueueDrops ==
    /\ match.st = "queue"
    /\ match' = NoMatch
    /\ UNCHANGED <<eng, lastServed, playerQueue, packets, worldVars>>

\* The match is scored (the rating moves) when it ends.
MatchEnds ==
    /\ match.st = "arena"
    /\ match' = NoMatch
    /\ \E r \in Ratings :
         teams' = IF match.team \in DOMAIN teams
                  THEN [teams EXCEPT ![match.team].rating = r] ELSE teams
    /\ UNCHANGED <<eng, lastServed, playerQueue, packets, conn, table, writes, nextTeam>>
=============================================================================
