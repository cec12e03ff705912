------------------------ MODULE WintergraspBots_proofs ------------------------
(* Proofs about WintergraspBots and WintergraspMarch, for every number of    *)
(* bots, cannons, guards and ticks and every distance: a squad that is raised *)
(* stands alone at its post; no attacker the director manages is left *)
(* beyond a wall that still stands; no defender is sent out before the        *)
(* sortie; the Lieutenants staff the factories first; only an abandoned       *)
(* engine is killed; and a bot on its way goes on and is not left standing.   *)
EXTENDS WintergraspVacancy, WintergraspMarch, FiniteSetTheorems, SequenceTheorems, WellFoundedInduction, TLAPS

-----------------------------------------------------------------------------
(* What the claims about the garrison rest on: the types it keeps.            *)

GarrisonTyped ==
    /\ owner \in [Workshops -> Teams \cup {"none"}]
    /\ guards \in [Workshops -> Nat]
    /\ strays \in [Workshops -> [slot : Nat, afar : Nat]]
    /\ squadOwner \in [Workshops -> Teams \cup {"none"}]

\* What a step may do to one post.
PostHeld(w) ==
    /\ guards'[w] + Strays(w)' > guards[w] + Strays(w) =>
         squadOwner'[w] # squadOwner[w] /\ squadOwner'[w] = owner[w]
    /\ squadOwner'[w] # squadOwner[w] /\ guards'[w] > 0 => strays'[w].slot = 0
    /\ squadOwner'[w] = "none" /\ squadOwner[w] # "none" /\ strays'[w].slot > 0 =>
         Strays(w)' = Strays(w) + guards[w]
PostsHeld == \A w \in Workshops : PostHeld(w)

-----------------------------------------------------------------------------
(* What the director remembers of the battle, while one is on: the stage it   *)
(* has latched and the relic it thinks open never run ahead of the walls, and *)
(* it manages nobody before its first look at this battle's attacker.         *)

BotRecords == [place : Places, alive : BOOLEAN, seat : {"foot", "cannon", "engine"}]
Engines    == [at : Ground \cup {"none"}, driver : Bots \cup {NoBot}, rider : BOOLEAN]

FieldTyped ==
    /\ war \in BOOLEAN /\ peace \in BOOLEAN /\ active \in BOOLEAN /\ seen.open \in BOOLEAN
    /\ attacker \in Teams /\ fallen \in 0 .. 3
    /\ bot \in [Bots -> BotRecords] /\ engine \in Engines
    /\ stage \in 0 .. 2 /\ managed \subseteq Bots

Remembers ==
    /\ peace => ~active
    /\ ~active => managed = {}
    /\ war /\ active =>
          /\ stage <= fallen
          /\ managed = {} \/ (seen.attacker = attacker /\ (seen.open => fallen = 3))

FieldInv == FieldTyped /\ Remembers

-----------------------------------------------------------------------------
(* The guards.                                                                *)

\* What leaves the garrison alone holds the posts.
LEMMA StillGarrison ==
    ASSUME GarrisonTyped, UNCHANGED << guards, strays, squadOwner >>,
           owner' \in [Workshops -> Teams \cup {"none"}]
    PROVE  GarrisonTyped' /\ PostsHeld
<1>1. ASSUME NEW w \in Workshops PROVE PostHeld(w)
  <2>1. guards[w] + Strays(w) \in Nat  BY DEF GarrisonTyped, Strays
  <2>2. Strays(w)' = Strays(w)  BY DEF Strays
  <2> QED  BY <2>1, <2>2 DEF PostHeld
<1> QED  BY <1>1 DEF GarrisonTyped, PostsHeld

LEMMA MissedTyped ==
    ASSUME GarrisonTyped, NEW w \in Workshops, NEW l \in Missed(w)
    PROVE  /\ l.slot \in Nat /\ l.afar \in Nat /\ l.slot + l.afar <= guards[w]
           /\ Left(w, l) \in [slot : Nat, afar : Nat]
           /\ Left(w, l).slot + Left(w, l).afar = Strays(w) + l.slot + l.afar
           /\ Swept(Left(w, l)) = [slot |-> 0, afar |-> strays[w].afar + l.afar]
<1>1. l \in Orphans /\ l.slot + l.afar <= guards[w]  BY DEF Missed
<1>2. l.slot \in Nat /\ l.afar \in Nat  BY <1>1, BotsAssumption DEF Orphans
<1>3. strays[w] \in [slot : Nat, afar : Nat]  BY DEF GarrisonTyped
<1>4. strays[w].slot \in Nat /\ strays[w].afar \in Nat  BY <1>3
<1> QED  BY <1>1, <1>2, <1>4 DEF Left, Swept, Strays

\* The squad of a new owner.
LEMMA TurnHolds ==
    ASSUME GarrisonTyped, NEW w \in Workshops, NEW p \in Turns(w),
           guards'[w] = p.squad, strays'[w] = p.left, squadOwner'[w] = p.by
    PROVE  /\ PostHeld(w) /\ guards'[w] \in Nat /\ strays'[w] \in [slot : Nat, afar : Nat]
           /\ squadOwner'[w] \in Teams \cup {"none"}
<1>1. strays[w] \in [slot : Nat, afar : Nat] /\ guards[w] \in Nat
      /\ squadOwner[w] \in Teams \cup {"none"} /\ owner[w] \in Teams \cup {"none"}
  BY DEF GarrisonTyped
<1>2. strays[w].slot \in Nat /\ strays[w].afar \in Nat  BY <1>1
<1>3. Strays(w)' = strays'[w].slot + strays'[w].afar  BY DEF Strays
<1>4. CASE ~Flipped(w)
  <2>1. p = [squad |-> guards[w], left |-> strays[w], by |-> squadOwner[w]]  BY <1>4 DEF Turns
  <2>2. guards'[w] = guards[w] /\ strays'[w] = strays[w] /\ squadOwner'[w] = squadOwner[w]  BY <2>1
  <2>3. Strays(w)' = Strays(w) /\ guards[w] + Strays(w) \in Nat  BY <1>1, <1>2, <1>3, <2>2 DEF Strays
  <2> QED  BY <1>1, <2>2, <2>3 DEF PostHeld
<1>5. CASE Flipped(w)
  <2>1. PICK l \in Missed(w), n \in 0 .. SquadSize :
          p = [squad |-> n, left |-> StraysOf(w, l, n), by |-> owner[w]]
    BY <1>5 DEF Turns
  <2>2. guards'[w] = n /\ strays'[w] = StraysOf(w, l, n) /\ squadOwner'[w] = owner[w]  BY <2>1
  <2>3. n \in Nat  BY BotsAssumption
  <2>4. owner[w] \in Teams /\ owner[w] # squadOwner[w] /\ "none" \notin Teams
    BY <1>5 DEF Flipped, Teams
  <2>5. strays'[w] \in [slot : Nat, afar : Nat] /\ (n > 0 => strays'[w].slot = 0)
    <3>1. CASE n = 0  BY <2>2, <3>1, MissedTyped DEF StraysOf
    <3>2. CASE n # 0
      <4>1. strays'[w] = [slot |-> 0, afar |-> strays[w].afar + l.afar]
        BY <2>2, <3>2, MissedTyped DEF StraysOf
      <4>2. l.afar \in Nat  BY MissedTyped
      <4> QED  BY <1>2, <4>1, <4>2
    <3> QED  BY <3>1, <3>2
  <2> QED  BY <2>2, <2>3, <2>4, <2>5 DEF PostHeld
<1> QED  BY <1>4, <1>5

LEMMA GarrisonUpdated ==
    ASSUME GarrisonTyped, UpdateGarrison, UNCHANGED owner
    PROVE  GarrisonTyped' /\ PostsHeld
<1>1. CASE UNCHANGED << guards, strays, squadOwner >>
  <2>1. owner' \in [Workshops -> Teams \cup {"none"}]  BY DEF GarrisonTyped
  <2> QED  BY <1>1, <2>1, StillGarrison
<1>2. ASSUME NEW post \in [Workshops -> UNION {Turns(w) : w \in Workshops}],
             \A w \in Workshops : post[w] \in Turns(w),
             guards' = [w \in Workshops |-> post[w].squad],
             strays' = [w \in Workshops |-> post[w].left],
             squadOwner' = [w \in Workshops |-> post[w].by]
      PROVE  GarrisonTyped' /\ PostsHeld
  <2>1. ASSUME NEW w \in Workshops
        PROVE  /\ PostHeld(w) /\ guards'[w] \in Nat /\ strays'[w] \in [slot : Nat, afar : Nat]
               /\ squadOwner'[w] \in Teams \cup {"none"}
    <3>1. post[w] \in Turns(w) /\ guards'[w] = post[w].squad /\ strays'[w] = post[w].left
          /\ squadOwner'[w] = post[w].by
      BY <1>2
    <3> QED  BY <3>1, TurnHolds
  <2>2. guards' \in [Workshops -> Nat]  BY <1>2, <2>1
  <2>3. strays' \in [Workshops -> [slot : Nat, afar : Nat]]
    <3>1. strays' = [w \in Workshops |-> strays'[w]]  BY <1>2
    <3> QED  BY <2>1, <3>1
  <2>4. squadOwner' \in [Workshops -> Teams \cup {"none"}]
    <3>1. squadOwner' = [w \in Workshops |-> squadOwner'[w]]  BY <1>2
    <3> QED  BY <2>1, <3>1
  <2> QED  BY <2>1, <2>2, <2>3, <2>4 DEF GarrisonTyped, PostsHeld
<1> QED  BY <1>1, <1>2 DEF UpdateGarrison

LEMMA GarrisonGone ==
    ASSUME GarrisonTyped, StandGarrisonDown, UNCHANGED owner
    PROVE  GarrisonTyped' /\ PostsHeld
<1>1. PICK left \in [Workshops -> UNION {Departures(w) : w \in Workshops}] :
        /\ \A w \in Workshops : left[w] \in Departures(w)
        /\ strays' = left
        /\ guards' = [w \in Workshops |-> 0] /\ squadOwner' = Nothing
  BY DEF StandGarrisonDown
<1>2. ASSUME NEW w \in Workshops
      PROVE  strays'[w] \in [slot : Nat, afar : Nat] /\ PostHeld(w)
  <2>1. left[w] \in Departures(w) /\ strays'[w] = left[w] /\ guards'[w] = 0 /\ squadOwner'[w] = "none"
    BY <1>1 DEF Nothing
  <2>2. PICK l \in Missed(w) :
          \/ strays'[w] = Left(w, l) /\ l.slot + l.afar = guards[w]
          \/ strays'[w] = Swept(Left(w, l))
    BY <2>1 DEF Departures
  <2>3. /\ l.slot \in Nat /\ l.afar \in Nat /\ l.slot + l.afar <= guards[w]
        /\ Left(w, l) \in [slot : Nat, afar : Nat]
        /\ Left(w, l).slot + Left(w, l).afar = Strays(w) + l.slot + l.afar
        /\ Swept(Left(w, l)) = [slot |-> 0, afar |-> strays[w].afar + l.afar]
    BY MissedTyped
  <2>4. strays[w].slot \in Nat /\ strays[w].afar \in Nat /\ guards[w] \in Nat
    <3>1. strays[w] \in [slot : Nat, afar : Nat]  BY DEF GarrisonTyped
    <3> QED  BY <3>1 DEF GarrisonTyped
  <2>5. Strays(w) = strays[w].slot + strays[w].afar /\ Strays(w)' = strays'[w].slot + strays'[w].afar
    BY DEF Strays
  <2>6. CASE strays'[w] = Left(w, l) /\ l.slot + l.afar = guards[w]
    <3>1. Strays(w)' = Strays(w) + guards[w]  BY <2>3, <2>4, <2>5, <2>6
    <3>2. guards'[w] + Strays(w)' = guards[w] + Strays(w)  BY <2>1, <2>4, <2>5, <3>1
    <3>3. guards[w] + Strays(w) \in Nat  BY <2>4, <2>5
    <3> QED  BY <2>1, <2>3, <2>6, <3>1, <3>2, <3>3 DEF PostHeld
  <2>7. CASE strays'[w] = Swept(Left(w, l))
    <3>1. strays'[w] = [slot |-> 0, afar |-> strays[w].afar + l.afar]  BY <2>3, <2>7
    <3>2. strays'[w].slot = 0 /\ strays'[w].afar = strays[w].afar + l.afar  BY <3>1
    <3>3. ~(guards'[w] + Strays(w)' > guards[w] + Strays(w))  BY <2>1, <2>3, <2>4, <2>5, <3>2
    <3>4. strays'[w] \in [slot : Nat, afar : Nat]  BY <2>3, <2>4, <3>1
    <3> QED  BY <2>1, <3>2, <3>3, <3>4 DEF PostHeld
  <2> QED  BY <2>2, <2>6, <2>7
<1>3. strays' = [w \in Workshops |-> strays'[w]]  BY <1>1
<1>4. GarrisonTyped'
  <2>1. strays' \in [Workshops -> [slot : Nat, afar : Nat]]  BY <1>2, <1>3
  <2>2. guards' \in [Workshops -> Nat] /\ squadOwner' \in [Workshops -> Teams \cup {"none"}]
    BY <1>1 DEF Nothing
  <2> QED  BY <2>1, <2>2 DEF GarrisonTyped
<1> QED  BY <1>2, <1>4 DEF PostsHeld

LEMMA OnUpdateGarrison == ASSUME GarrisonTyped, OnUpdate PROVE GarrisonTyped' /\ PostsHeld
<1>1. UNCHANGED owner /\ owner' \in [Workshops -> Teams \cup {"none"}]  BY DEF OnUpdate, GarrisonTyped
<1> DEFINE latched == IF active THEN stage ELSE 0
<1>2. CASE Reconcile(latched)  BY <1>1, <1>2, GarrisonUpdated DEF Reconcile
<1>3. CASE MovementTick(latched)  BY <1>1, <1>3, StillGarrison DEF MovementTick
<1>4. CASE ReleaseAll  BY <1>1, <1>4, GarrisonGone DEF ReleaseAll
<1>5. CASE Idle  BY <1>1, <1>5, StillGarrison DEF Idle
<1> QED  BY <1>2, <1>3, <1>4, <1>5 DEF OnUpdate

LEMMA GuardDiesGarrison ==
    ASSUME GarrisonTyped, NEW w \in Workshops, GuardDies(w)
    PROVE  GarrisonTyped' /\ PostsHeld
<1>1. /\ guards[w] > 0 /\ guards' = [guards EXCEPT ![w] = guards[w] - 1]
      /\ UNCHANGED << owner, strays, squadOwner >>
  BY DEF GuardDies, director
<1>2. guards[w] - 1 \in Nat /\ guards' \in [Workshops -> Nat]
  <2>1. guards[w] \in Nat  BY DEF GarrisonTyped
  <2> QED  BY <1>1, <2>1 DEF GarrisonTyped
<1>3. ASSUME NEW v \in Workshops PROVE PostHeld(v)
  <2>1. guards[v] \in Nat /\ guards'[v] \in Nat /\ guards'[v] <= guards[v]
    <3>1. guards[v] \in Nat  BY DEF GarrisonTyped
    <3>2. CASE v = w  BY <1>1, <1>2, <3>1, <3>2 DEF GarrisonTyped
    <3>3. CASE v # w  BY <1>1, <1>2, <3>1, <3>3 DEF GarrisonTyped
    <3> QED  BY <3>2, <3>3
  <2>2. Strays(v) \in Nat /\ Strays(v)' = Strays(v)  BY <1>1 DEF GarrisonTyped, Strays
  <2>3. ~(guards'[v] + Strays(v)' > guards[v] + Strays(v))  BY <2>1, <2>2
  <2> QED  BY <1>1, <2>3 DEF PostHeld
<1> QED  BY <1>1, <1>2, <1>3 DEF GarrisonTyped, PostsHeld

LEMMA StrayMovesGarrison ==
    ASSUME GarrisonTyped, NEW w \in Workshops, StrayMoves(w)
    PROVE  GarrisonTyped' /\ PostsHeld
<1>1. PICK s \in [slot : 0 .. Strays(w), afar : 0 .. Strays(w)] :
        /\ s.slot + s.afar \in {Strays(w), Strays(w) - 1}
        /\ strays' = [strays EXCEPT ![w] = s]
        /\ UNCHANGED << owner, guards, squadOwner >>
  BY DEF StrayMoves, director
<1>2. \A v \in Workshops : Strays(v) \in Nat /\ guards[v] \in Nat  BY DEF GarrisonTyped, Strays
<1>3. s \in [slot : Nat, afar : Nat]
  <2>1. s.slot \in 0 .. Strays(w) /\ s.afar \in 0 .. Strays(w) /\ s = [slot |-> s.slot, afar |-> s.afar]
    BY <1>1
  <2>2. s.slot \in Nat /\ s.afar \in Nat  BY <1>2, <2>1
  <2> QED  BY <2>1, <2>2
<1>4. strays' \in [Workshops -> [slot : Nat, afar : Nat]]  BY <1>1, <1>3 DEF GarrisonTyped
<1>5. ASSUME NEW v \in Workshops PROVE PostHeld(v)
  <2>1. Strays(v)' = strays'[v].slot + strays'[v].afar  BY DEF Strays
  <2>2. CASE v = w
    <3>1. strays'[v] = s  BY <1>1, <2>2 DEF GarrisonTyped
    <3>2. s.slot \in Nat /\ s.afar \in Nat  BY <1>3
    <3>3. Strays(v)' <= Strays(v) /\ Strays(v)' \in Nat  BY <1>1, <1>2, <2>1, <2>2, <3>1, <3>2
    <3> QED  BY <1>1, <1>2, <3>3 DEF PostHeld
  <2>3. CASE v # w
    <3>1. strays'[v] = strays[v]  BY <1>1, <2>3 DEF GarrisonTyped
    <3>2. Strays(v)' = Strays(v)  BY <2>1, <3>1 DEF Strays
    <3> QED  BY <1>1, <1>2, <3>2 DEF PostHeld
  <2> QED  BY <2>2, <2>3
<1> QED  BY <1>1, <1>4, <1>5 DEF GarrisonTyped, PostsHeld

\* What happens between two ticks never touches what the director keeps.
LEMMA OutsideLeavesDirector ==
    ASSUME Battlefield \/ Field PROVE UNCHANGED director
<1>1. ASSUME NEW b \in Bots
      PROVE /\ Promoted(b) => UNCHANGED director
            /\ BotArrives(b) => UNCHANGED director
            /\ BotLeaves(b) => UNCHANGED director
            /\ BotDies(b) => UNCHANGED director
            /\ BotRevives(b) => UNCHANGED director
            /\ EngineBuilt(b) => UNCHANGED director
            /\ HandleSiegeTest(b) => UNCHANGED director
            /\ HandleSiegePrep(b) => UNCHANGED director
            /\ \A p \in Ground : BotWalks(b, p) => UNCHANGED director
  BY DEF Promoted, BotArrives, BotLeaves, BotDies, BotRevives, EngineBuilt, HandleSiegeTest,
         Built, HandleSiegePrep, BotWalks
<1>2. /\ BattleStarts => UNCHANGED director
      /\ BattleEnds => UNCHANGED director
      /\ WallFalls => UNCHANGED director
      /\ WallHit => UNCHANGED director
      /\ \A w \in Workshops : WorkshopFlips(w) => UNCHANGED director
      /\ \A w \in Workshops : GuardDies(w) \/ StrayMoves(w) => UNCHANGED director
  BY DEF BattleStarts, BattleEnds, WallFalls, WallHit, WorkshopFlips, GuardDies, StrayMoves
<1>3. /\ \A p \in Ground : EngineDrives(p) => UNCHANGED director
      /\ EngineDeserted => UNCHANGED director
      /\ RiderMoves => UNCHANGED director
      /\ HandleGrantRank => UNCHANGED director
  BY DEF EngineDrives, EngineDeserted, RiderMoves, HandleGrantRank
<1>4. HandleHitCast \/ HandleSiegeFire => UNCHANGED director
  BY <1>2 DEF HandleHitCast, HandleSiegeFire, Fires
<1> QED  BY <1>1, <1>2, <1>3, <1>4 DEF Battlefield, Field

\* Between two ticks only the guards themselves fall and move.
LEMMA OutsideGarrison ==
    ASSUME GarrisonTyped, Battlefield \/ Field PROVE GarrisonTyped' /\ PostsHeld
<1>0. UNCHANGED squadOwner  BY OutsideLeavesDirector DEF director
<1>1. CASE Field
  <2>1. ASSUME NEW b \in Bots
        PROVE /\ Promoted(b) => UNCHANGED << guards, strays, owner >>
              /\ BotArrives(b) => UNCHANGED << guards, strays, owner >>
              /\ BotLeaves(b) => UNCHANGED << guards, strays, owner >>
              /\ BotDies(b) => UNCHANGED << guards, strays, owner >>
              /\ BotRevives(b) => UNCHANGED << guards, strays, owner >>
              /\ EngineBuilt(b) => UNCHANGED << guards, strays, owner >>
              /\ HandleSiegeTest(b) => UNCHANGED << guards, strays, owner >>
              /\ HandleSiegePrep(b) => UNCHANGED << guards, strays, owner >>
              /\ \A p \in Ground : BotWalks(b, p) => UNCHANGED << guards, strays, owner >>
    BY DEF Promoted, BotArrives, BotLeaves, BotDies, BotRevives, EngineBuilt,
           HandleSiegeTest, Built, HandleSiegePrep, BotWalks
  <2>2. /\ \A p \in Ground : EngineDrives(p) => UNCHANGED << guards, strays, owner >>
        /\ EngineDeserted => UNCHANGED << guards, strays, owner >>
        /\ RiderMoves => UNCHANGED << guards, strays, owner >>
        /\ HandleGrantRank => UNCHANGED << guards, strays, owner >>
        /\ HandleHitCast \/ HandleSiegeFire => UNCHANGED << guards, strays, owner >>
    BY DEF EngineDrives, EngineDeserted, RiderMoves, HandleGrantRank, HandleHitCast,
           HandleSiegeFire, Fires, WallHit, WallFalls
  <2>3. UNCHANGED << guards, strays, owner >>  BY <1>1, <2>1, <2>2 DEF Field
  <2> QED  BY <1>0, <2>3, StillGarrison DEF GarrisonTyped
<1>2. CASE BattleEnds \/ WallFalls \/ WallHit
  <2>1. UNCHANGED << guards, strays, owner >>  BY <1>2 DEF BattleEnds, WallFalls, WallHit
  <2> QED  BY <1>0, <2>1, StillGarrison DEF GarrisonTyped
<1>3. CASE BattleStarts
  <2>1. UNCHANGED << guards, strays >> /\ owner' \in [Workshops -> Teams \cup {"none"}]
    BY <1>3 DEF BattleStarts
  <2> QED  BY <1>0, <2>1, StillGarrison
<1>4. ASSUME NEW w \in Workshops, WorkshopFlips(w) PROVE GarrisonTyped' /\ PostsHeld
  <2>1. UNCHANGED << guards, strays >> /\ owner' \in [Workshops -> Teams \cup {"none"}]
    BY <1>4 DEF WorkshopFlips, GarrisonTyped
  <2> QED  BY <1>0, <2>1, StillGarrison
<1> QED  BY <1>1, <1>2, <1>3, <1>4, GuardDiesGarrison, StrayMovesGarrison DEF Battlefield

\* Whatever guards the despawns miss, a workshop's guards become more only with
\* a squad for its new owner, which then has the slots of its post to itself, and
\* the slots are empty when the battle is put away and one of the squad is found
\* (UpdateGarrison, ReleaseAll).
THEOREM GarrisonHolds == Spec => GuardsHoldTheirPost
<1>1. Init => GarrisonTyped
  BY DEF Init, GarrisonTyped, Nothing, NoStrays
<1>2. GarrisonTyped /\ [Next]_vars => GarrisonTyped' /\ (UNCHANGED vars \/ PostsHeld)
  <2> SUFFICES ASSUME GarrisonTyped, [Next]_vars
               PROVE  GarrisonTyped' /\ (UNCHANGED vars \/ PostsHeld)
    OBVIOUS
  <2>1. CASE UNCHANGED vars  BY <2>1 DEF vars, world, director, GarrisonTyped
  <2> QED  BY <2>1, OnUpdateGarrison, OutsideGarrison DEF Next
<1>3. GarrisonTyped /\ [Next]_vars => [PostsHeld]_vars  BY <1>2
<1>4. [][PostsHeld]_vars => GuardsHoldTheirPost  BY PTL DEF PostsHeld, PostHeld, GuardsHoldTheirPost
<1> QED  BY <1>1, <1>2, <1>3, <1>4, PTL DEF Spec

-----------------------------------------------------------------------------
(* The ground and the breach frontier.                                        *)

LEMMA GroundList ==
    Ground = {"ring", "temple", "gate", "muster", "post", "spost", "court", "flank",
              "center", "inner", "relic"}
BY DEF Ground, At

\* Anchors within four tens of yards of each other are one and the same.
LEMMA SameSpot == \A p, q \in Ground : Within(p, q, 4) => p = q
<1> SUFFICES ASSUME NEW p \in Ground, NEW q \in Ground, p # q PROVE ~Within(p, q, 4)
  OBVIOUS
<1>1. Dist2(p, q) = (At[p][1] - At[q][1]) * (At[p][1] - At[q][1])
                  + (At[p][2] - At[q][2]) * (At[p][2] - At[q][2])
  BY DEF Dist2, Squares
<1> DEFINE x == At[p][1] - At[q][1]  y == At[p][2] - At[q][2]
<1>2. x \in Int /\ y \in Int  BY GroundList DEF At
<1> DEFINE Apart == x > 4 \/ x < -4 \/ y > 4 \/ y < -4 \/ (x \in {4, -4} /\ y # 0)
<1>3. Apart
  <2>1. CASE p = "ring"  BY <2>1, GroundList DEF At
  <2>2. CASE p = "temple"  BY <2>2, GroundList DEF At
  <2>3. CASE p = "gate"  BY <2>3, GroundList DEF At
  <2>4. CASE p = "muster"  BY <2>4, GroundList DEF At
  <2>5. CASE p = "post"  BY <2>5, GroundList DEF At
  <2>6. CASE p = "spost"  BY <2>6, GroundList DEF At
  <2>7. CASE p = "court"  BY <2>7, GroundList DEF At
  <2>8. CASE p = "flank"  BY <2>8, GroundList DEF At
  <2>9. CASE p = "center"  BY <2>9, GroundList DEF At
  <2>10. CASE p = "inner"  BY <2>10, GroundList DEF At
  <2>11. CASE p = "relic"  BY <2>11, GroundList DEF At
  <2> QED  BY GroundList, <2>1, <2>2, <2>3, <2>4, <2>5, <2>6, <2>7, <2>8, <2>9, <2>10, <2>11
<1> HIDE DEF x, y
<1>4. x * x + y * y > 16
  <2>1. x * x >= 0 /\ y * y >= 0 /\ x * x \in Int /\ y * y \in Int  BY <1>2
  <2>2. CASE x > 4 \/ x < -4
    <3>1. x * x > 16  BY <1>2, <2>2
    <3> QED  BY <2>1, <3>1
  <2>3. CASE y > 4 \/ y < -4
    <3>1. y * y > 16  BY <1>2, <2>3
    <3> QED  BY <2>1, <3>1
  <2>4. CASE x \in {4, -4} /\ y # 0
    <3>1. x * x = 16  BY <2>4
    <3>2. y >= 1 \/ y <= -1  BY <1>2, <2>4
    <3>3. y * y > 0
      <4>1. CASE y >= 1  BY <1>2, <4>1
      <4>2. CASE y <= -1  BY <1>2, <4>2
      <4> QED  BY <3>2, <4>1, <4>2
    <3> QED  BY <2>1, <3>1, <3>3
  <2> QED  BY <1>3, <2>2, <2>3, <2>4
<1>5. Dist2(p, q) = x * x + y * y  BY <1>1 DEF x, y
<1>6. Dist2(p, q) > 4 * 4 /\ Dist2(p, q) \in Int  BY <1>2, <1>4, <1>5
<1> QED  BY <1>6 DEF Within

\* The attackers' push of a stage is in the corridor that stage has opened.
LEMMA PushLegal ==
    \A s \in 0 .. 2 : AttackerPush(s) \in Ground /\ ~AttackerBeyond(AttackerPush(s), s)
<1>1. AttackerPush(0) = "gate" /\ AttackerPush(1) = "court" /\ AttackerPush(2) = "inner"
  BY DEF AttackerPush
<1>2. ~AttackerBeyond("gate", 0)  BY DEF AttackerBeyond, IsInsideKeep, At
<1>3. ~AttackerBeyond("court", 1)
  BY DEF AttackerBeyond, IsInsideKeep, OffAxis, Abs, OpenX, MidWallX, At
<1>4. ~AttackerBeyond("inner", 2)
  BY DEF AttackerBeyond, IsInsideKeep, OffAxis, Abs, OpenX, LastDoorX, At
<1> SUFFICES ASSUME NEW s \in 0 .. 2
             PROVE  AttackerPush(s) \in Ground /\ ~AttackerBeyond(AttackerPush(s), s)
  OBVIOUS
<1>5. s = 0 \/ s = 1 \/ s = 2  OBVIOUS
<1> QED  BY <1>1, <1>2, <1>3, <1>4, <1>5, GroundList

\* What is legal at a stage is legal at every later one.
LEMMA DeeperLegal ==
    ASSUME NEW p \in Ground, NEW s \in 0 .. 2, NEW r \in 0 .. 2, s <= r, ~AttackerBeyond(p, s)
    PROVE  ~AttackerBeyond(p, r)
<1>1. OpenX(s) <= OpenX(r)  BY DEF OpenX, MidWallX, LastDoorX
<1>2. OpenX(s) \in Int /\ OpenX(r) \in Int  BY DEF OpenX, MidWallX, LastDoorX
<1>3. At[p][1] \in Int  BY GroundList DEF At
<1> QED  BY <1>1, <1>2, <1>3 DEF AttackerBeyond

LEMMA FrontierLegal ==
    ASSUME NEW p \in Ground, NEW s \in 0 .. 2, NEW attacking \in BOOLEAN, NEW open \in BOOLEAN
    PROVE  /\ Frontier(p, attacking, s, open) \in Ground
           /\ attacking /\ ~open => ~AttackerBeyond(Frontier(p, attacking, s, open), s)
<1>1. DefenderAnchor \in Ground  BY GroundList DEF DefenderAnchor
<1> QED  BY <1>1, PushLegal DEF Frontier

-----------------------------------------------------------------------------
(* What a reconcile does to the bots.                                         *)

\* A plan has an order for every bot of the pool.
LEMMA PlanCovers ==
    ASSUME NEW jobs, NEW pool, NEW spot, NEW rk, NEW plan \in Plans(jobs, pool, spot, rk)
    PROVE  pool \subseteq DOMAIN plan
<1>1. PICK p : plan = Give(p, pool \ DOMAIN p, Last(jobs))  BY DEF Plans
<1> QED  BY <1>1 DEF Give

LEMMA SnappedTyped ==
    ASSUME FieldTyped, NEW b \in Bots, InZone(b), NEW st \in 0 .. 2, NEW knows,
           knows.open \in BOOLEAN
    PROVE  Snapped(b, st, knows) \in Ground
<1>1. bot[b].place \in Ground  BY DEF InZone
<1>2. (TeamOf[b] = knows.attacker) \in BOOLEAN  OBVIOUS
<1> QED  BY <1>1, <1>2, FrontierLegal DEF Snapped

LEMMA PicksAway ==
    ASSUME NEW t, NEW X \in Picks(t)
    PROVE  X \subseteq Bots /\ \A b \in X : bot[b].place = "away"
<1>1. Adoptable \subseteq Bots  BY BotsAssumption
<1> QED  BY <1>1 DEF Picks, OfTeam

LEMMA OrdersFunction ==
    ASSUME NEW plan, NEW S, NEW out, NEW crew, NEW driver, NEW picks, NEW f, NEW R,
           f = Orders(plan, S, out, crew, driver, picks), \A b \in Bots : f[b] \in R
    PROVE  f \in [Bots -> R]
<1> DEFINE E(b) ==
      CASE b \in out /\ b \in DOMAIN plan -> [bot[b] EXCEPT !.place = Snapped(b, stage', seen')]
        [] b \in out /\ b \notin DOMAIN plan -> [bot[b] EXCEPT !.seat = "foot"]
        [] b \in crew -> [bot[b] EXCEPT !.seat = "cannon"]
        [] b = driver /\ driver # engine.driver ->
             [bot[b] EXCEPT !.seat = "engine", !.place = engine.at]
        [] b \in picks -> [bot[b] EXCEPT !.place = "flight"]
        [] OTHER -> bot[b]
<1>1. f = [b \in Bots |-> E(b)]  BY DEF Orders
<1> HIDE DEF E
<1>2. \A b \in Bots : f[b] = E(b)  BY <1>1
<1> QED  BY <1>1, <1>2

\* Whoever drives after a reconcile drove before it or climbs into an engine
\* nobody drives, and nobody else gets into it.
Boards(driver) ==
    /\ ReapIdleVehicle(driver)
    /\ driver # engine.driver => engine.driver = NoBot /\ engine.at # "none"
    /\ \A b \in Bots : bot'[b].seat = "engine" => bot[b].seat = "engine" \/ b = driver

\* The orders of a reconcile: nobody on foot who stays managed is left out of
\* bounds, whatever he is told to do besides.
LEMMA AssignOrders ==
    ASSUME FieldTyped, NEW S \in SUBSET Bots, \A b \in S : InZone(b),
           stage' \in 0 .. 2, seen'.open \in BOOLEAN, Assign(S)
    PROVE  /\ managed' \subseteq Bots /\ bot' \in [Bots -> BotRecords] /\ engine' \in Engines
           /\ \A b \in S : Afoot(b) => bot'[b].place = Snapped(b, stage', seen')
           /\ \E driver \in Bots \cup {NoBot} : Boards(driver)
<1> DEFINE spot == [b \in S |-> bot[b].place]
           Plan(t) == Plans(BuildJobs(Battle(S), t, Cardinality(OfTeam(Pool(S), t))),
                            OfTeam(Pool(S), t), spot, ranked)
           out == {b \in Pool(S) : OutOfBounds(b, stage', seen')}
           able == Pool(S) \ out
           busy == {b \in able : seen'.open /\ bot[b].place = "relic"}
<1>1. PICK pa \in Plan("alliance"), ph \in Plan("horde") :
        LET plan == Merge(pa, ph) IN
        \E crew \in SUBSET {b \in able : MayCrew(b, plan[b])},
           driver \in {engine.driver} \cup {b \in able \ busy : MayDrive(b, plan[b])},
           xa \in Picks("alliance"), xh \in Picks("horde") :
          /\ driver \notin crew /\ managed' = S \cup xa \cup xh
          /\ bot' = Orders(plan, S, out \cup StandDown(S), crew, driver, xa \cup xh)
          /\ ReapIdleVehicle(driver)
  BY DEF Assign
<1> DEFINE plan == Merge(pa, ph)
<1>2. PICK crew \in SUBSET {b \in able : MayCrew(b, plan[b])},
           driver \in {engine.driver} \cup {b \in able \ busy : MayDrive(b, plan[b])},
           xa \in Picks("alliance"), xh \in Picks("horde") :
          /\ driver \notin crew /\ managed' = S \cup xa \cup xh
          /\ bot' = Orders(plan, S, out \cup StandDown(S), crew, driver, xa \cup xh)
          /\ ReapIdleVehicle(driver)
  BY <1>1
<1>3. Pool(S) \subseteq DOMAIN plan
  <2>1. OfTeam(Pool(S), "alliance") \subseteq DOMAIN pa  BY PlanCovers
  <2>2. OfTeam(Pool(S), "horde") \subseteq DOMAIN ph  BY PlanCovers
  <2>3. \A b \in Pool(S) : TeamOf[b] \in Teams  BY BotsAssumption DEF Pool
  <2> QED  BY <2>1, <2>2, <2>3 DEF OfTeam, Teams, Merge
<1> HIDE DEF plan, spot, Plan
<1>4. Pool(S) \subseteq Bots /\ \A b \in Pool(S) : bot[b].place \in Ground /\ bot[b].seat = "foot"
  BY DEF Pool, Afoot, InZone
<1>5. StandDown(S) \subseteq Bots /\ \A b \in StandDown(S) : bot[b].seat = "cannon"
  BY DEF StandDown, Gunner
<1>6. driver \in Bots \cup {NoBot}  BY <1>4 DEF FieldTyped, Engines
<1>7. driver # engine.driver =>
        driver \in able /\ engine.at \in Ground /\ Within(bot[driver].place, engine.at, 4)
  BY DEF MayDrive, FieldTyped, Engines
<1>8. \A b \in xa \cup xh : b \in Bots /\ bot[b].place = "away"  BY PicksAway
<1> DEFINE Ordered(b)  == b \in (out \cup StandDown(S))
           AtWheel(b)  == b = driver /\ driver # engine.driver
           Picked(b)   == b \in (xa \cup xh)
<1>80. ASSUME NEW b \in Bots
       PROVE  /\ Ordered(b) => b \notin crew /\ ~AtWheel(b) /\ ~Picked(b)
              /\ b \in crew => ~AtWheel(b) /\ ~Picked(b)
              /\ AtWheel(b) => ~Picked(b)
  <2>1. crew \subseteq able /\ driver \notin crew  BY <1>2
  <2>2. b \in able => b \notin out /\ b \notin StandDown(S) /\ ~Picked(b)
    BY <1>4, <1>5, <1>8, GroundList
  <2>3. b \in out => ~Picked(b)  BY <1>4, <1>8, GroundList
  <2>4. b \in StandDown(S) => ~Picked(b)
    <3>1. ASSUME b \in StandDown(S) PROVE bot[b].place \in Ground
      BY <3>1 DEF StandDown, InZone
    <3> QED  BY <1>8, <3>1, GroundList
  <2> HIDE DEF out, able, busy, Picked
  <2> QED  BY <1>7, <2>1, <2>2, <2>3, <2>4
<1>9. ASSUME NEW b \in Bots
      PROVE  /\ bot'[b] \in BotRecords
             /\ b \in S /\ Afoot(b) => bot'[b].place = Snapped(b, stage', seen')
             /\ bot'[b].seat = "engine" => bot[b].seat = "engine" \/ b = driver
  <2>1. bot[b] \in BotRecords  BY DEF FieldTyped
  <2>2. b \in S /\ Afoot(b) => b \in Pool(S)  BY DEF Pool
  <2>3. bot'[b] =
          CASE Ordered(b) /\ b \in DOMAIN plan ->
                 [bot[b] EXCEPT !.place = Snapped(b, stage', seen')]
            [] Ordered(b) /\ b \notin DOMAIN plan ->
                 [bot[b] EXCEPT !.seat = "foot"]
            [] b \in crew -> [bot[b] EXCEPT !.seat = "cannon"]
            [] AtWheel(b) ->
                 [bot[b] EXCEPT !.seat = "engine", !.place = engine.at]
            [] Picked(b) -> [bot[b] EXCEPT !.place = "flight"]
            [] OTHER -> bot[b]
    BY <1>2 DEF Orders
  <2>4. Ground \subseteq Places  BY DEF Places
  <2>5. b \in S => Snapped(b, stage', seen') \in Ground  BY SnappedTyped
  <2>6. b \in out \cup StandDown(S) => b \in S  BY DEF Pool, StandDown
  <2>7. bot'[b] \in BotRecords
    <3>1. ASSUME NEW p \in Places PROVE [bot[b] EXCEPT !.place = p] \in BotRecords
      BY <2>1 DEF BotRecords
    <3>2. ASSUME NEW st \in {"foot", "cannon", "engine"}
          PROVE [bot[b] EXCEPT !.seat = st] \in BotRecords
      BY <2>1 DEF BotRecords
    <3>3. engine.at \in Ground =>
            [bot[b] EXCEPT !.seat = "engine", !.place = engine.at] \in BotRecords
      BY <2>1, <2>4 DEF BotRecords
    <3>4. "flight" \in Places  BY DEF Places
    <3> HIDE DEF out, able, busy
    <3> QED  BY <1>7, <2>1, <2>3, <2>4, <2>5, <2>6, <3>1, <3>2, <3>3, <3>4
  <2>8. ASSUME b \in S, Afoot(b) PROVE bot'[b].place = Snapped(b, stage', seen')
    <3>0. /\ \A p : [bot[b] EXCEPT !.place = p].place = p
          /\ \A p : [bot[b] EXCEPT !.seat = "engine", !.place = p].place = p
          /\ \A st : [bot[b] EXCEPT !.seat = st].place = bot[b].place
      BY <2>1 DEF BotRecords
    <3>1. b \in Pool(S) /\ b \notin StandDown(S)  BY <1>5, <2>2, <2>8 DEF Afoot
    <3>2. CASE b \in out
      <4>1. b \in DOMAIN plan  BY <1>3, <3>1
      <4>2. bot'[b] = [bot[b] EXCEPT !.place = Snapped(b, stage', seen')]
        BY <1>80, <2>3, <3>2, <4>1
      <4> QED  BY <3>0, <4>2
    <3>3. CASE b \notin out
      <4>1. Snapped(b, stage', seen') = bot[b].place  BY <3>1, <3>3 DEF OutOfBounds
      <4>2. CASE b \in crew
        <5>1. bot'[b] = [bot[b] EXCEPT !.seat = "cannon"]  BY <1>80, <2>3, <3>1, <3>3, <4>2
        <5> QED  BY <3>0, <4>1, <5>1
      <4>3. CASE b \notin crew /\ b = driver /\ driver # engine.driver
        <5>1. bot'[b] = [bot[b] EXCEPT !.seat = "engine", !.place = engine.at]
          BY <1>80, <2>3, <3>1, <3>3, <4>3
        <5>2. bot[b].place = engine.at  BY <1>4, <1>7, <3>1, <4>3, SameSpot
        <5> QED  BY <3>0, <4>1, <5>1, <5>2
      <4>4. CASE b \notin crew /\ ~(b = driver /\ driver # engine.driver)
        <5>1. b \notin xa \cup xh
          <6>1. bot[b].place \in Ground  BY <1>4, <3>1
          <6> QED  BY <1>8, <6>1, GroundList
        <5>2. bot'[b] = bot[b]  BY <1>80, <2>3, <3>1, <3>3, <4>4, <5>1
        <5> QED  BY <4>1, <5>2
      <4> QED  BY <4>2, <4>3, <4>4
    <3> QED  BY <3>2, <3>3
  <2>9. ASSUME b # driver, bot[b].seat # "engine" PROVE bot'[b].seat # "engine"
    <3>1. /\ \A p : [bot[b] EXCEPT !.place = p].seat = bot[b].seat
          /\ \A st : [bot[b] EXCEPT !.seat = st].seat = st
      BY <2>1 DEF BotRecords
    <3> HIDE DEF out, able, busy
    <3> QED  BY <2>3, <2>9, <3>1
  <2> QED  BY <2>7, <2>8, <2>9
<1>10. bot' \in [Bots -> BotRecords]
  <2>1. bot' = Orders(plan, S, out \cup StandDown(S), crew, driver, xa \cup xh)  BY <1>2
  <2> HIDE DEF plan, out, able, busy, Plan, spot, Ordered, AtWheel, Picked
  <2>2. \A b \in Bots : bot'[b] \in BotRecords  BY <1>9
  <2> QED  BY <2>1, <2>2, OrdersFunction
<1>11. engine' \in Engines
  <2>1. NoEngine \in Engines  BY DEF NoEngine, Engines
  <2>2. [engine EXCEPT !.driver = driver] \in Engines  BY <1>6 DEF FieldTyped, Engines
  <2> QED  BY <1>2, <2>1, <2>2 DEF ReapIdleVehicle
<1>12. managed' \subseteq Bots  BY <1>2, <1>8
<1>13. Boards(driver)
  <2>1. driver # engine.driver => engine.driver = NoBot /\ engine.at # "none"
    BY DEF MayDrive
  <2> QED  BY <1>2, <1>9, <2>1 DEF Boards
<1> QED  BY <1>6, <1>9, <1>10, <1>11, <1>12, <1>13

-----------------------------------------------------------------------------
(* The steps of the field.                                                    *)

LEMMA StageLatched ==
    ASSUME FieldTyped, NEW latched \in 0 .. 2, UpdateStage(latched)
    PROVE  stage' \in 0 .. 2 /\ (latched <= fallen => stage' <= fallen)
<1> DEFINE read == IF fallen > 2 THEN 2 ELSE fallen
<1>1. stage' = read \/ stage' = latched  BY DEF UpdateStage
<1> QED  BY <1>1 DEF FieldTyped

LEMMA AdoptedInZone ==
    ASSUME FieldTyped
    PROVE  /\ AdoptAndPrune \in SUBSET Bots /\ \A b \in AdoptAndPrune : InZone(b)
           /\ \A b \in managed : InZone(b) => b \in AdoptAndPrune
BY BotsAssumption DEF AdoptAndPrune, FieldTyped

\* A reconcile looks first, and leaves nobody managed on foot out of bounds.
LEMMA ReconcileField ==
    ASSUME FieldTyped, NEW latched \in 0 .. 2, Reconcile(latched)
    PROVE  /\ stage' \in 0 .. 2 /\ (latched <= fallen => stage' <= fallen)
           /\ seen'.attacker = attacker /\ seen'.open = (fallen = 3)
           /\ managed' \subseteq Bots /\ bot' \in [Bots -> BotRecords] /\ engine' \in Engines
           /\ \A b \in managed : Afoot(b) => bot'[b].place = Snapped(b, stage', seen')
           /\ \E driver \in Bots \cup {NoBot} : Boards(driver)
<1> DEFINE S == AdoptAndPrune
<1>1. stage' \in 0 .. 2 /\ (latched <= fallen => stage' <= fallen)
  BY StageLatched DEF Reconcile
<1>2. seen'.attacker = attacker /\ seen'.open = (fallen = 3)  BY DEF Reconcile, LookAround
<1>3. seen'.open \in BOOLEAN  BY <1>2
<1>4. Assign(S)  BY DEF Reconcile
<1>5. S \in SUBSET Bots /\ (\A b \in S : InZone(b)) /\ \A b \in managed : InZone(b) => b \in S
  BY AdoptedInZone
<1> HIDE DEF S
<1>6. /\ managed' \subseteq Bots /\ bot' \in [Bots -> BotRecords] /\ engine' \in Engines
      /\ \A b \in S : Afoot(b) => bot'[b].place = Snapped(b, stage', seen')
      /\ \E driver \in Bots \cup {NoBot} : Boards(driver)
  BY <1>1, <1>3, <1>4, <1>5, AssignOrders
<1>7. \A b \in managed : Afoot(b) => b \in S  BY <1>5 DEF Afoot
<1> QED  BY <1>1, <1>2, <1>6, <1>7

LEMMA MovementField ==
    ASSUME FieldTyped, NEW latched \in 0 .. 2, MovementTick(latched)
    PROVE  /\ bot' \in [Bots -> BotRecords]
           /\ \A b \in managed : Afoot(b) => bot'[b].place = Snapped(b, latched, seen)
<1>1. ASSUME NEW b \in Bots
      PROVE  /\ bot'[b] \in BotRecords
             /\ b \in managed /\ Afoot(b) => bot'[b].place = Snapped(b, latched, seen)
  <2>1. bot'[b] = IF b \in managed /\ Afoot(b)
                  THEN [bot[b] EXCEPT !.place = Snapped(b, latched, seen)] ELSE bot[b]
    BY DEF MovementTick
  <2>2. bot[b] \in BotRecords  BY DEF FieldTyped
  <2>3. CASE b \in managed /\ Afoot(b)
    <3>1. Snapped(b, latched, seen) \in Ground
      BY <2>3, SnappedTyped DEF Afoot, FieldTyped
    <3> HIDE DEF Snapped
    <3> QED  BY <2>1, <2>2, <2>3, <3>1 DEF BotRecords, Places
  <2>4. CASE ~(b \in managed /\ Afoot(b))  BY <2>1, <2>2, <2>4
  <2> QED  BY <2>3, <2>4
<1>2. bot' = [b \in Bots |-> bot'[b]]  BY DEF MovementTick
<1> QED  BY <1>1, <1>2 DEF FieldTyped

LEMMA OnUpdateTyped == ASSUME FieldTyped, OnUpdate PROVE FieldTyped'
<1>1. active' = war /\ peace' = ~war /\ UNCHANGED << war, attacker, fallen >>
  BY DEF OnUpdate
<1> DEFINE latched == IF active THEN stage ELSE 0
<1>2. latched \in 0 .. 2  BY DEF FieldTyped
<1> HIDE DEF latched
<1>3. CASE war /\ Reconcile(latched)
  <2>1. /\ stage' \in 0 .. 2 /\ seen'.open = (fallen = 3)
        /\ managed' \subseteq Bots /\ bot' \in [Bots -> BotRecords] /\ engine' \in Engines
    BY <1>2, <1>3, ReconcileField
  <2> QED  BY <1>1, <2>1 DEF FieldTyped
<1>4. CASE war /\ MovementTick(latched)
  <2>1. bot' \in [Bots -> BotRecords]  BY <1>2, <1>4, MovementField
  <2>2. stage' = latched /\ UNCHANGED << engine, seen, managed >>  BY <1>4 DEF MovementTick
  <2> QED  BY <1>1, <1>2, <2>1, <2>2 DEF FieldTyped
<1>5. CASE ~war /\ ReleaseAll
  <2>1. /\ managed' = {} /\ stage' = 0 /\ seen'.open = FALSE /\ UNCHANGED << bot, engine >>
    BY <1>5 DEF ReleaseAll, Unseen
  <2>2. active' \in BOOLEAN /\ peace' \in BOOLEAN /\ war' \in BOOLEAN
    BY <1>1 DEF FieldTyped
  <2>3. attacker' \in Teams /\ fallen' \in 0 .. 3  BY <1>1 DEF FieldTyped
  <2>4. bot' \in [Bots -> BotRecords] /\ engine' \in Engines  BY <2>1 DEF FieldTyped
  <2>5. stage' \in 0 .. 2 /\ managed' \subseteq Bots  BY <2>1
  <2>6. seen'.open \in BOOLEAN  BY <2>1, Zenon
  <2> QED  BY <2>2, <2>3, <2>4, <2>5, <2>6 DEF FieldTyped
<1>6. CASE ~war /\ ~active /\ Idle
  <2>1. UNCHANGED << bot, engine, stage, seen, managed >>  BY <1>6 DEF Idle
  <2> QED  BY <1>1, <1>6, <2>1 DEF FieldTyped
<1> QED  BY <1>3, <1>4, <1>5, <1>6 DEF OnUpdate, latched

LEMMA OnUpdateRemembers == ASSUME FieldTyped, Remembers, OnUpdate PROVE Remembers'
<1>1. active' = war /\ peace' = ~war /\ UNCHANGED << war, attacker, fallen >>
  BY DEF OnUpdate
<1> DEFINE latched == IF active THEN stage ELSE 0
<1>2. latched \in 0 .. 2 /\ (war => latched <= fallen)  BY DEF FieldTyped, Remembers
<1> HIDE DEF latched
<1>3. CASE war /\ Reconcile(latched)
  <2>1. stage' <= fallen /\ seen'.attacker = attacker /\ seen'.open = (fallen = 3)
    BY <1>2, <1>3, ReconcileField
  <2> QED  BY <1>1, <1>3, <2>1 DEF Remembers, FieldTyped
<1>4. CASE war /\ MovementTick(latched)
  <2>1. stage' = latched /\ UNCHANGED << engine, seen, managed >>  BY <1>4 DEF MovementTick
  <2> QED  BY <1>1, <1>2, <1>4, <2>1 DEF Remembers, FieldTyped
<1>5. CASE ~war /\ ReleaseAll
  <2>1. managed' = {}  BY <1>5 DEF ReleaseAll
  <2> QED  BY <1>1, <1>5, <2>1 DEF Remembers, FieldTyped
<1>6. CASE ~war /\ ~active /\ Idle
  <2>1. UNCHANGED << stage, seen, managed >>  BY <1>6 DEF Idle
  <2> QED  BY <1>1, <1>6, <2>1 DEF Remembers
<1> QED  BY <1>3, <1>4, <1>5, <1>6 DEF OnUpdate, latched

\* What each step between two ticks leaves well typed.
FieldKept ==
    /\ bot' \in [Bots -> BotRecords] /\ engine' \in Engines
    /\ UNCHANGED << war, peace, attacker, fallen >>

LEMMA KeptField ==
    ASSUME FieldTyped, FieldKept, UNCHANGED director
    PROVE  FieldTyped' /\ (Remembers => Remembers')
BY DEF FieldTyped, Remembers, FieldKept, director

LEMMA PlacePut ==
    ASSUME FieldTyped, NEW b \in Bots, NEW p \in Places,
           bot' = [bot EXCEPT ![b].place = p]
    PROVE  bot' \in [Bots -> BotRecords]
<1>1. [bot[b] EXCEPT !.place = p] \in BotRecords  BY DEF FieldTyped, BotRecords
<1>2. bot' = [bot EXCEPT ![b] = [bot[b] EXCEPT !.place = p]]  OBVIOUS
<1> QED  BY <1>1, <1>2 DEF FieldTyped

LEMMA OneBotField ==
    ASSUME FieldTyped, NEW b \in Bots
    PROVE  /\ BotArrives(b) => FieldKept
           /\ BotLeaves(b) => FieldKept
           /\ BotDies(b) => FieldKept
           /\ BotRevives(b) => FieldKept
           /\ EngineBuilt(b) => FieldKept
           /\ HandleSiegeTest(b) => FieldKept
           /\ HandleSiegePrep(b) => FieldKept
           /\ Promoted(b) => FieldKept
           /\ \A p \in Ground : BotWalks(b, p) => FieldKept
<1>1. bot[b] \in BotRecords /\ bot \in [Bots -> BotRecords] /\ engine \in Engines
  BY DEF FieldTyped
<1>2. Ground \subseteq Places /\ "away" \in Places  BY DEF Places
<1>3. "center" \in Ground /\ "gate" \in Ground  BY GroundList
<1>4. BotArrives(b) => FieldKept  BY <1>1, <1>2, <1>3, PlacePut DEF BotArrives, FieldKept
<1>5. HandleSiegePrep(b) => FieldKept
  BY <1>1, <1>2, <1>3, PlacePut DEF HandleSiegePrep, FieldKept
<1>6. \A p \in Ground : BotWalks(b, p) => FieldKept
  BY <1>1, <1>2, PlacePut DEF BotWalks, FieldKept
<1>7. Promoted(b) => FieldKept  BY <1>1 DEF Promoted, FieldKept
<1>8. ASSUME BotLeaves(b) PROVE FieldKept
  <2>1. bot' = [bot EXCEPT ![b] = [bot[b] EXCEPT !.place = "away", !.alive = TRUE]]
    BY <1>8 DEF BotLeaves
  <2>2. [bot[b] EXCEPT !.place = "away", !.alive = TRUE] \in BotRecords
    BY <1>1, <1>2 DEF BotRecords
  <2>3. bot' \in [Bots -> BotRecords]  BY <1>1, <2>1, <2>2
  <2> QED  BY <1>1, <1>8, <2>3 DEF BotLeaves, FieldKept
<1>9. ASSUME BotDies(b) PROVE FieldKept
  <2>1. bot' = [bot EXCEPT ![b] = [bot[b] EXCEPT !.alive = FALSE, !.seat = "foot"]]
    BY <1>9 DEF BotDies
  <2>2. [bot[b] EXCEPT !.alive = FALSE, !.seat = "foot"] \in BotRecords
    BY <1>1 DEF BotRecords
  <2>3. bot' \in [Bots -> BotRecords]  BY <1>1, <2>1, <2>2
  <2>4. engine' \in Engines  BY <1>1, <1>9 DEF BotDies, Off, Engines
  <2> QED  BY <1>9, <2>3, <2>4 DEF BotDies, FieldKept
<1>10. ASSUME BotRevives(b) PROVE FieldKept
  <2>1. bot' = [bot EXCEPT ![b] = [bot[b] EXCEPT !.alive = TRUE]]
    BY <1>10 DEF BotRevives
  <2>2. [bot[b] EXCEPT !.alive = TRUE] \in BotRecords  BY <1>1 DEF BotRecords
  <2>3. bot' \in [Bots -> BotRecords]  BY <1>1, <2>1, <2>2
  <2> QED  BY <1>1, <1>10, <2>3 DEF BotRevives, FieldKept
<1>11. ASSUME NEW p \in Ground, Built(b, p) PROVE FieldKept
  <2>1. bot' = [bot EXCEPT ![b] = [bot[b] EXCEPT !.seat = "engine", !.place = p]]
    BY <1>11 DEF Built
  <2>2. [bot[b] EXCEPT !.seat = "engine", !.place = p] \in BotRecords
    BY <1>1, <1>2 DEF BotRecords
  <2>3. bot' \in [Bots -> BotRecords]  BY <1>1, <2>1, <2>2
  <2>4. engine' \in Engines  BY <1>11 DEF Built, Engines
  <2> QED  BY <1>11, <2>3, <2>4 DEF Built, FieldKept
<1>12. EngineBuilt(b) => FieldKept
  <2>1. ASSUME EngineBuilt(b) PROVE FieldKept
    <3>1. bot[b].place \in Ground
      BY <2>1 DEF EngineBuilt, Built, CanBuild, Afoot, InZone
    <3> QED  BY <1>11, <2>1, <3>1 DEF EngineBuilt
  <2> QED  BY <2>1
<1>13. HandleSiegeTest(b) => FieldKept  BY <1>3, <1>11 DEF HandleSiegeTest
<1> QED  BY <1>4, <1>5, <1>6, <1>7, <1>8, <1>9, <1>10, <1>12, <1>13

LEMMA EngineField ==
    ASSUME FieldTyped
    PROVE  /\ \A p \in Ground : EngineDrives(p) => FieldKept
           /\ EngineDeserted => FieldKept
           /\ RiderMoves => FieldKept
           /\ HandleGrantRank => FieldKept
<1>1. bot \in [Bots -> BotRecords] /\ engine \in Engines  BY DEF FieldTyped
<1>2. engine.driver # NoBot => engine.driver \in Bots  BY <1>1 DEF Engines
<1>3. ASSUME NEW p \in Ground, EngineDrives(p) PROVE FieldKept
  <2>1. engine.driver \in Bots /\ p \in Places  BY <1>2, <1>3 DEF EngineDrives, Places
  <2>2. bot' = [bot EXCEPT ![engine.driver].place = p]  BY <1>3 DEF EngineDrives
  <2>3. bot' \in [Bots -> BotRecords]  BY <2>1, <2>2, PlacePut
  <2>4. engine' \in Engines  BY <1>1, <1>3 DEF EngineDrives, Engines
  <2> QED  BY <1>3, <2>3, <2>4 DEF EngineDrives, FieldKept
<1>4. ASSUME EngineDeserted PROVE FieldKept
  <2> DEFINE b == engine.driver
  <2>1. b \in Bots  BY <1>2, <1>4 DEF EngineDeserted
  <2>2. bot' = [bot EXCEPT ![b] = [bot[b] EXCEPT !.seat = "foot"]]
    BY <1>4 DEF EngineDeserted
  <2>3. [bot[b] EXCEPT !.seat = "foot"] \in BotRecords  BY <1>1, <2>1 DEF BotRecords
  <2>4. bot' \in [Bots -> BotRecords]  BY <1>1, <2>1, <2>2, <2>3
  <2>5. engine' \in Engines  BY <1>1, <1>4 DEF EngineDeserted, Off, Engines
  <2> QED  BY <1>4, <2>4, <2>5 DEF EngineDeserted, FieldKept
<1>5. RiderMoves => FieldKept  BY <1>1 DEF RiderMoves, FieldKept, Engines
<1>6. HandleGrantRank => FieldKept  BY <1>1 DEF HandleGrantRank, FieldKept
<1> QED  BY <1>3, <1>4, <1>5, <1>6

\* A wall falls under a director that does not think the relic open; a battle
\* starts under one that has put the last one away.
LEMMA BattleField ==
    ASSUME FieldTyped,
           BattleStarts \/ BattleEnds \/ WallFalls \/ WallHit
             \/ \E w \in Workshops : WorkshopFlips(w) \/ GuardDies(w) \/ StrayMoves(w)
    PROVE  FieldTyped' /\ (~BackToBack /\ Remembers => Remembers')
<1>0. UNCHANGED director  BY OutsideLeavesDirector DEF Battlefield
<1>1. CASE BattleStarts
  <2>1. /\ war' = TRUE /\ peace' = FALSE /\ fallen' = 0
        /\ attacker' \in Teams /\ UNCHANGED << bot, engine >>
    BY <1>1 DEF BattleStarts
  <2>2. FieldTyped'
    <3>1. UNCHANGED << active, stage, seen, managed, bot, engine >>  BY <1>0, <2>1 DEF director
    <3>2. war' \in BOOLEAN /\ peace' \in BOOLEAN  BY <2>1, Zenon
    <3>3. active' \in BOOLEAN /\ seen'.open \in BOOLEAN  BY <3>1, Zenon DEF FieldTyped
    <3>4. fallen' \in 0 .. 3  BY <2>1
    <3> QED  BY <2>1, <3>1, <3>2, <3>3, <3>4, Zenon DEF FieldTyped
  <2>3. ASSUME ~BackToBack, Remembers PROVE Remembers'
    <3>1. peace /\ ~active  BY <1>1, <2>3 DEF BattleStarts, Remembers
    <3> QED  BY <1>0, <2>1, <2>3, <3>1 DEF Remembers, director
  <2> QED  BY <2>2, <2>3
<1>2. CASE BattleEnds
  <2>1. war' = FALSE /\ peace' = FALSE /\ engine' = NoEngine /\ UNCHANGED << attacker, fallen >>
    BY <1>2 DEF BattleEnds
  <2>2. ASSUME NEW b \in Bots PROVE [bot[b] EXCEPT !.seat = "foot"] \in BotRecords
    BY DEF FieldTyped, BotRecords
  <2>3. bot' \in [Bots -> BotRecords]  BY <1>2, <2>2 DEF BattleEnds
  <2>4. NoEngine \in Engines  BY DEF NoEngine, Engines
  <2>5. FieldTyped'  BY <1>0, <2>1, <2>3, <2>4 DEF FieldTyped, director
  <2>6. Remembers => Remembers'  BY <1>0, <2>1 DEF Remembers, director
  <2> QED  BY <2>5, <2>6
<1>3. CASE WallFalls
  <2>1. /\ fallen < 3 /\ fallen' = fallen + 1
        /\ UNCHANGED << war, peace, attacker, bot, engine >>
    BY <1>3 DEF WallFalls
  <2>2. FieldTyped'  BY <1>0, <2>1 DEF FieldTyped, director
  <2>3. Remembers => Remembers'  BY <1>0, <2>1 DEF Remembers, FieldTyped, director
  <2> QED  BY <2>2, <2>3
<1>4. CASE WallHit \/ \E w \in Workshops : WorkshopFlips(w) \/ GuardDies(w) \/ StrayMoves(w)
  <2>1. UNCHANGED << war, peace, attacker, fallen, bot, engine >>
    BY <1>4 DEF WallHit, WorkshopFlips, GuardDies, StrayMoves
  <2>2. FieldKept  BY <2>1 DEF FieldKept, FieldTyped
  <2> QED  BY <1>0, <2>2, KeptField
<1> QED  BY <1>1, <1>2, <1>3, <1>4

LEMMA OutsideField ==
    ASSUME FieldTyped, Battlefield \/ Field
    PROVE  FieldTyped' /\ (~BackToBack /\ Remembers => Remembers')
<1>1. CASE Battlefield  BY <1>1, BattleField DEF Battlefield
<1>2. CASE HandleHitCast \/ HandleSiegeFire
  BY <1>2, BattleField DEF HandleHitCast, HandleSiegeFire, Fires
<1>3. CASE Field /\ ~(HandleHitCast \/ HandleSiegeFire)
  <2>1. UNCHANGED director  BY OutsideLeavesDirector
  <2>2. FieldKept  BY <1>3, OneBotField, EngineField DEF Field
  <2> QED  BY <2>1, <2>2, KeptField
<1> QED  BY <1>1, <1>2, <1>3

LEMMA FieldStarts == ASSUME Init PROVE FieldInv
<1>1. NoEngine \in Engines  BY DEF NoEngine, Engines
<1>2. bot \in [Bots -> BotRecords]
  <2>1. "away" \in Places  BY DEF Places
  <2> QED  BY <2>1 DEF Init, BotRecords
<1>3. seen.open \in BOOLEAN
  <2>1. seen.open = FALSE  BY DEF Init, Unseen
  <2> QED  BY <2>1, Zenon
<1>4. war \in BOOLEAN /\ peace \in BOOLEAN /\ active \in BOOLEAN  BY Zenon DEF Init
<1> QED  BY <1>1, <1>2, <1>3, <1>4 DEF Init, FieldInv, FieldTyped, Remembers

LEMMA FieldStep ==
    ASSUME FieldTyped, [Next]_vars
    PROVE  FieldTyped' /\ (~BackToBack /\ Remembers => Remembers')
<1>1. CASE UNCHANGED vars  BY <1>1 DEF vars, world, director, FieldTyped, Remembers
<1> QED  BY <1>1, OnUpdateTyped, OnUpdateRemembers, OutsideField DEF Next

\* Bots, their places and seats, the engine, the walls and what the director
\* latches keep their types, whatever the battle and the orders do.
THEOREM FieldIsTyped == Spec => []FieldTyped
<1>1. Init => FieldTyped  BY FieldStarts DEF FieldInv
<1>2. FieldTyped /\ [Next]_vars => FieldTyped'  BY FieldStep
<1> QED  BY <1>1, <1>2, PTL DEF Spec

LEMMA FieldHolds == ASSUME ~BackToBack PROVE Spec => []FieldInv
<1>1. Init => FieldInv  BY FieldStarts
<1>2. FieldInv /\ [Next]_vars => FieldInv'  BY FieldStep DEF FieldInv
<1> QED  BY <1>1, <1>2, PTL DEF Spec

\* No attacker the director manages stands, after a tick, beyond a wall that is
\* still up, for any number of bots and any pace of ticks (EnforceBreachFrontier,
\* called by MovementTick and Reconcile; UpdateBreachStage). The hypothesis is the
\* pause between two battles, in which OnUpdate runs and forgets the last one.
THEOREM FrontierHeldHolds == ASSUME ~BackToBack PROVE Spec => FrontierHeld
<1> DEFINE NoneAhead == Ticked => \A b \in OfTeam(managed, attacker) :
       Afoot(b) /\ fallen < 3 => ~AttackerBeyond(bot'[b].place, IF fallen > 2 THEN 2 ELSE fallen)
<1>1. ASSUME FieldInv, [Next]_vars PROVE NoneAhead
  <2> SUFFICES ASSUME Ticked, NEW b \in OfTeam(managed, attacker), Afoot(b), fallen < 3
               PROVE  ~AttackerBeyond(bot'[b].place, fallen)
    BY <1>1 DEF FieldInv, FieldTyped
  <2>1. war /\ active /\ clock' # clock  BY DEF Ticked
  <2>2. OnUpdate
    <3>1. ~(Battlefield \/ Field)  BY <2>1, OutsideLeavesDirector DEF director
    <3>2. ~UNCHANGED vars  BY <2>1 DEF vars, director
    <3> QED  BY <1>1, <3>1, <3>2 DEF Next
  <2>3. /\ b \in managed /\ b \in Bots /\ TeamOf[b] = attacker
        /\ bot[b].place \in Ground /\ fallen \in 0 .. 2
    BY <1>1 DEF OfTeam, FieldInv, FieldTyped, Afoot, InZone
  <2>4. stage \in 0 .. 2 /\ stage <= fallen /\ seen.attacker = attacker /\ ~seen.open
    BY <1>1, <2>1, <2>3 DEF FieldInv, FieldTyped, Remembers
  <2>5. PICK st, knows :
          /\ st \in 0 .. 2 /\ st <= fallen /\ knows.attacker = attacker /\ knows.open = FALSE
          /\ bot'[b].place = Snapped(b, st, knows)
    <3>1. FieldTyped  BY <1>1 DEF FieldInv
    <3>2. CASE Reconcile(stage)
      <4>1. /\ stage' \in 0 .. 2 /\ stage' <= fallen
            /\ seen'.attacker = attacker /\ seen'.open = (fallen = 3)
            /\ bot'[b].place = Snapped(b, stage', seen')
        BY <2>3, <2>4, <3>1, <3>2, ReconcileField
      <4>2. (fallen = 3) = FALSE  BY <2>3
      <4>3. seen'.open = FALSE  BY <4>1, <4>2, Zenon
      <4> QED  BY <4>1, <4>3
    <3>3. CASE MovementTick(stage)
      <4>1. bot'[b].place = Snapped(b, stage, seen)
        BY <2>3, <2>4, <3>1, <3>3, MovementField
      <4>2. seen.open = FALSE  BY <2>4, <3>1 DEF FieldTyped
      <4> QED  BY <2>4, <4>1, <4>2
    <3> QED  BY <2>1, <2>2, <3>2, <3>3 DEF OnUpdate
  <2>6. Snapped(b, st, knows) = Frontier(bot[b].place, TRUE, st, FALSE)
    BY <2>3, <2>5 DEF Snapped
  <2>7. bot'[b].place \in Ground /\ ~AttackerBeyond(bot'[b].place, st)
    BY <2>3, <2>5, <2>6, FrontierLegal
  <2> QED  BY <2>3, <2>5, <2>7, DeeperLegal
<1>2. ASSUME FieldInv, [Next]_vars PROVE [NoneAhead]_vars  BY <1>1, <1>2
<1> QED  BY <1>2, FieldHolds, PTL DEF Spec, FrontierHeld

-----------------------------------------------------------------------------
(* The drafting.  Reconcile fills the jobs in their order, so what it comes   *)
(* to is told by induction on the jobs already filled: the induction here is  *)
(* over a set of naturals, and the fold of Plans is a function on the sets    *)
(* 1 .. k of them.                                                            *)

\* Every nonempty set of naturals has a least element, and a set that has 0 and
\* each successor has them all.
LEMMA NatMin == ASSUME NEW T, T \subseteq Nat, T # {} PROVE \E m \in T : \A y \in T : m <= y
<1> DEFINE R == {ss \in Nat \X Nat : ss[1] < ss[2]}
<1>1. IsWellFoundedOn(R, Nat)  BY NatLessThanWellFounded DEF OpToRel
<1>2. \A x, y \in Nat : y < x => <<y, x>> \in R  OBVIOUS
<1> HIDE DEF R
<1>3. PICK m \in T : \A y \in T : ~(<<y, m>> \in R)  BY <1>1, WFMin
<1>4. \A y \in T : ~(y < m)  BY <1>2, <1>3
<1>5. \A y \in T : m <= y  BY <1>3, <1>4
<1> QED  BY <1>3, <1>5

LEMMA NatInd ==
    ASSUME NEW S, 0 \in S, \A k \in Nat : k \in S => k + 1 \in S
    PROVE  Nat \subseteq S
<1> SUFFICES ASSUME NEW k \in Nat, k \notin S PROVE FALSE  OBVIOUS
<1> DEFINE T == {i \in Nat : i \notin S}
<1>1. PICK m \in T : \A i \in T : m <= i
  <2>1. T \subseteq Nat /\ T # {}  OBVIOUS
  <2> HIDE DEF T
  <2> QED  BY <2>1, NatMin
<1>2. m # 0 /\ m \in Nat /\ m \notin S  BY <1>1
<1>3. m - 1 \in Nat /\ m - 1 \notin T  BY <1>1, <1>2
<1>4. m - 1 \in S  BY <1>3
<1> QED  BY <1>2, <1>3, <1>4

LEMMA MaxTop == ASSUME NEW k \in Nat, NEW s \in SUBSET (1 .. k), k \in s PROVE Max(s) = k
<1>1. \A y \in s : k >= y  OBVIOUS
<1>2. \A x \in s : (\A y \in s : x >= y) => x = k  OBVIOUS
<1> QED BY <1>1, <1>2 DEF Max

\* the drafting of the first jobs as a function of which jobs.
IsDraft(g, n, jobs, pool, spot, rk) ==
   g = [s \in SUBSET (1 .. n) |->
          IF s = {} THEN {<< >>} ELSE Fill(g[s \ {Max(s)}], jobs[Max(s)], pool, spot, rk)]

LEMMA DraftExists ==
    ASSUME NEW n \in Nat, NEW jobs, NEW pool, NEW spot, NEW rk
    PROVE  \E g : IsDraft(g, n, jobs, pool, spot, rk)
<1> DEFINE F(plans, i) == Fill(plans, jobs[i], pool, spot, rk)
           Is(g, k) == g = [s \in SUBSET (1 .. k) |->
                              IF s = {} THEN {<< >>} ELSE F(g[s \ {Max(s)}], Max(s))]
           Sizes == {k \in Nat : \E g : Is(g, k)}
<1>1. \E g : Is(g, 0)
  <2> DEFINE g == [s \in SUBSET (1 .. 0) |-> {<< >>}]
  <2>1. \A s \in SUBSET (1 .. 0) : s = {}  OBVIOUS
  <2>2. Is(g, 0)  BY <2>1
  <2> QED  BY <2>2
<1> HIDE DEF F
<1>2. ASSUME NEW k \in Nat, NEW f, Is(f, k) PROVE \E g : Is(g, k + 1)
  <2> DEFINE g == [s \in SUBSET (1 .. k + 1) |->
                     IF k + 1 \in s THEN F(f[s \ {k + 1}], k + 1) ELSE f[s]]
  <2>1. ASSUME NEW s \in SUBSET (1 .. k + 1)
        PROVE  g[s] = IF s = {} THEN {<< >>} ELSE F(g[s \ {Max(s)}], Max(s))
    <3>1. CASE k + 1 \in s
      <4>1. Max(s) = k + 1  BY <3>1, MaxTop
      <4>2. s \ {k + 1} \in SUBSET (1 .. k + 1) /\ k + 1 \notin s \ {k + 1}  OBVIOUS
      <4>3. g[s \ {k + 1}] = f[s \ {k + 1}]  BY <4>2
      <4>4. g[s] = F(f[s \ {k + 1}], k + 1)  BY <3>1
      <4>5. s # {}  BY <3>1
      <4> QED  BY <4>1, <4>3, <4>4, <4>5
    <3>2. CASE k + 1 \notin s
      <4>1. s \in SUBSET (1 .. k)
        <5>1. \A x \in s : x \in 1 .. k  BY <3>2
        <5> QED  BY <5>1
      <4>2. g[s] = f[s]  BY <3>2
      <4>3. \A x : s \ {x} \in SUBSET (1 .. k + 1) /\ k + 1 \notin s \ {x}  BY <3>2
      <4>4. \A x : g[s \ {x}] = f[s \ {x}]  BY <4>3
      <4>5. f[s] = IF s = {} THEN {<< >>} ELSE F(f[s \ {Max(s)}], Max(s))
        BY <1>2, <4>1
      <4> HIDE DEF g
      <4> QED  BY <4>2, <4>4, <4>5
    <3> QED  BY <3>1, <3>2
  <2>2. g = [s \in SUBSET (1 .. k + 1) |-> g[s]]  OBVIOUS
  <2>3. Is(g, k + 1)
    <3> HIDE DEF g
    <3> QED  BY <2>1, <2>2
  <2> QED  BY <2>3
<1> HIDE DEF Is
<1>3. 0 \in Sizes /\ \A k \in Nat : k \in Sizes => k + 1 \in Sizes  BY <1>1, <1>2
<1>4. Nat \subseteq Sizes
  <2> HIDE DEF Sizes
  <2> QED  BY <1>3, NatInd
<1>5. \E g : Is(g, n)  BY <1>4
<1> QED  BY <1>5 DEF Is, IsDraft, F

\* The plans are what the drafts of all jobs leave, the rest with the last job.
DraftedBy(g, n, jobs, pool, spot, rk) ==
    /\ IsDraft(g, n, jobs, pool, spot, rk)
    /\ \A plan \in Plans(jobs, pool, spot, rk) :
         \E p \in g[1 .. n] : plan = Give(p, pool \ DOMAIN p, Last(jobs))

LEMMA PlansDraft ==
    ASSUME NEW n \in Nat, NEW jobs, DOMAIN jobs = 1 .. n, NEW pool, NEW spot, NEW rk
    PROVE  \E g : DraftedBy(g, n, jobs, pool, spot, rk)
<1> DEFINE g == CHOOSE g : IsDraft(g, n, jobs, pool, spot, rk)
<1>1. IsDraft(g, n, jobs, pool, spot, rk)  BY DraftExists
<1>2. Plans(jobs, pool, spot, rk) =
        {Give(p, pool \ DOMAIN p, Last(jobs)) : p \in g[1 .. n]}
  BY DEF Plans, FoldLeft, MapThenFoldSet, IsDraft
<1> HIDE DEF g
<1>3. DraftedBy(g, n, jobs, pool, spot, rk)  BY <1>1, <1>2 DEF DraftedBy
<1> QED  BY <1>3

LEMMA DraftUnfold ==
    ASSUME NEW n \in Nat, NEW jobs, NEW pool, NEW spot, NEW rk, NEW g,
           IsDraft(g, n, jobs, pool, spot, rk)
    PROVE  /\ g[1 .. 0] = {<< >>}
           /\ \A k \in 1 .. n : g[1 .. k] = Fill(g[1 .. k - 1], jobs[k], pool, spot, rk)
<1>1. \A s \in SUBSET (1 .. n) :
        g[s] = IF s = {} THEN {<< >>} ELSE Fill(g[s \ {Max(s)}], jobs[Max(s)], pool, spot, rk)
  BY DEF IsDraft
<1>2. 1 .. 0 = {} /\ 1 .. 0 \in SUBSET (1 .. n)  OBVIOUS
<1>3. ASSUME NEW k \in 1 .. n
      PROVE  g[1 .. k] = Fill(g[1 .. k - 1], jobs[k], pool, spot, rk)
  <2>1. Max(1 .. k) = k  BY MaxTop
  <2>2. (1 .. k) \ {k} = 1 .. k - 1  OBVIOUS
  <2>3. 1 .. k # {} /\ 1 .. k \in SUBSET (1 .. n)  OBVIOUS
  <2> QED  BY <1>1, <2>1, <2>2, <2>3
<1> QED  BY <1>1, <1>2, <1>3

DraftOf(p, q, job, pool, spot, rk) ==
    \E S \in Drafts(job, pool \ DOMAIN q, spot, rk) : p = Give(q, S, job)

LEMMA FillStep ==
    ASSUME NEW plans, NEW job, NEW pool, NEW spot, NEW rk, NEW p \in Fill(plans, job, pool, spot, rk)
    PROVE  \E q \in plans : DraftOf(p, q, job, pool, spot, rk)
BY DEF Fill, DraftOf

\* What holds of the empty plan and survives a draft holds of what every job
\* has drafted; whoever is in a plan has one of the jobs.
LEMMA PlanFromJobs ==
    ASSUME NEW n \in Nat, n > 0, NEW jobs, DOMAIN jobs = 1 .. n, Last(jobs) = jobs[n],
           NEW pool, NEW spot, NEW rk, NEW plan \in Plans(jobs, pool, spot, rk)
    PROVE  DOMAIN plan = pool /\ \A b \in pool : \E i \in 1 .. n : plan[b] = jobs[i]
<1>1. PICK g : DraftedBy(g, n, jobs, pool, spot, rk)  BY PlansDraft
<1> DEFINE Sound(p) == DOMAIN p \subseteq pool /\ \A b \in DOMAIN p : \E i \in 1 .. n : p[b] = jobs[i]
           Sizes == {k \in Nat : k \in 0 .. n => \A p \in g[1 .. k] : Sound(p)}
<1>2. 0 \in Sizes
  <2>1. g[1 .. 0] = {<< >>}  BY <1>1, DraftUnfold DEF DraftedBy
  <2>2. Sound(<< >>)  OBVIOUS
  <2> QED  BY <2>1, <2>2
<1>3. ASSUME NEW k \in Nat, k \in Sizes PROVE k + 1 \in Sizes
  <2> SUFFICES ASSUME k + 1 \in 0 .. n, NEW p \in g[1 .. k + 1] PROVE Sound(p)  OBVIOUS
  <2>1. g[1 .. k + 1] = Fill(g[1 .. k], jobs[k + 1], pool, spot, rk)
    <3>1. k + 1 \in 1 .. n /\ (k + 1) - 1 = k  OBVIOUS
    <3> QED  BY <1>1, <3>1, DraftUnfold DEF DraftedBy
  <2>20. PICK q \in g[1 .. k] : DraftOf(p, q, jobs[k + 1], pool, spot, rk)
    BY <2>1, FillStep
  <2>2. PICK S \in Drafts(jobs[k + 1], pool \ DOMAIN q, spot, rk) : p = Give(q, S, jobs[k + 1])
    BY <2>20 DEF DraftOf
  <2>3. S \subseteq pool  BY DEF Drafts
  <2>4. Sound(q)  BY <1>3
  <2> QED  BY <2>2, <2>3, <2>4 DEF Give
<1>4. Nat \subseteq Sizes
  <2> HIDE DEF Sizes
  <2> QED  BY <1>2, <1>3, NatInd
<1>5. PICK p \in g[1 .. n] : plan = Give(p, pool \ DOMAIN p, jobs[n])
  BY <1>1 DEF DraftedBy
<1>6. Sound(p)  BY <1>4
<1> QED  BY <1>5, <1>6 DEF Give

-----------------------------------------------------------------------------
(* The job lists: BuildJobs names known places, at home while the sortie is   *)
(* held back, and the attackers' list opens with the factories.               *)

Home == {"relic", "inner", "post", "spost", "muster"} \cup Workshops
Posts(A) == [at : A, want : Int, rank : Ranks, duty : Duties]

LEMMA HomeInside == \A p \in Home : IsInsideKeep(p) \/ p \in Workshops
<1>1. /\ At["relic"] = << 544, 284 >> /\ At["inner"] = << 536, 284 >> /\ At["post"] = << 519, 292 >>
      /\ At["spost"] = << 518, 277 >> /\ At["muster"] = << 518, 285 >>
  BY DEF At
<1>2. \A p \in {"relic", "inner", "post", "spost", "muster"} : IsInsideKeep(p)
  BY <1>1 DEF IsInsideKeep
<1> QED  BY <1>2 DEF Home

LEMMA JobTyped ==
    ASSUME NEW A, NEW a \in A, NEW w \in Int, NEW r \in Ranks, NEW d \in Duties
    PROVE  Job(a, w, r, d) \in Posts(A)
BY DEF Job, Posts

LEMMA OneJob ==
    ASSUME NEW A, NEW a \in A, NEW w \in Int
    PROVE  << Plain(a, w) >> \in Seq(Posts(A))
<1>1. Plain(a, w) \in Posts(A)  BY JobTyped DEF Plain, Ranks, Duties
<1> QED  BY <1>1

LEMMA AtEachTyped ==
    ASSUME NEW A, NEW sites \in Seq(A), NEW w \in Int, NEW r \in Ranks, NEW d \in Duties
    PROVE  /\ AtEach(sites, w, r, d) \in Seq(Posts(A))
           /\ Len(AtEach(sites, w, r, d)) = Len(sites)
           /\ \A i \in 1 .. Len(sites) : AtEach(sites, w, r, d)[i] = Job(sites[i], w, r, d)
<1>1. DOMAIN sites = 1 .. Len(sites) /\ Len(sites) \in Nat  OBVIOUS
<1>2. \A i \in 1 .. Len(sites) : Job(sites[i], w, r, d) \in Posts(A)  BY JobTyped
<1> QED  BY <1>1, <1>2 DEF AtEach

LEMMA OrderTyped ==
    ASSUME NEW W
    PROVE  /\ WorkshopOrder(W) \in Seq(Workshops)
           /\ \A w \in W \cap Workshops : \E i \in 1 .. Len(WorkshopOrder(W)) : WorkshopOrder(W)[i] = w
           /\ \A i \in 1 .. Len(WorkshopOrder(W)) : WorkshopOrder(W)[i] \in W
<1>1. CASE "ring" \in W /\ "temple" \in W
  <2>2. WorkshopOrder(W) = << "ring" >> \o << "temple" >>  BY <1>1 DEF WorkshopOrder
  <2> DEFINE r == << "ring" >>  t == << "temple" >>
  <2>3. /\ r \in Seq(Workshops) /\ Len(r) = 1 /\ r[1] = "ring"
        /\ t \in Seq(Workshops) /\ Len(t) = 1 /\ t[1] = "temple"
    BY DEF Workshops
  <2> HIDE DEF r, t
  <2>4. /\ r \o t \in Seq(Workshops) /\ Len(r \o t) = 2
        /\ (r \o t)[1] = "ring" /\ (r \o t)[2] = "temple"
    BY <2>3, ConcatProperties
  <2>5. WorkshopOrder(W) = r \o t  BY <2>2 DEF r, t
  <2> QED  BY <1>1, <2>4, <2>5 DEF Workshops
<1>2. CASE "ring" \in W /\ "temple" \notin W
  <2>1. WorkshopOrder(W) = << "ring" >>  BY <1>2 DEF WorkshopOrder
  <2> QED  BY <1>2, <2>1 DEF Workshops
<1>3. CASE "ring" \notin W /\ "temple" \in W
  <2>1. WorkshopOrder(W) = << "temple" >>  BY <1>3 DEF WorkshopOrder
  <2> QED  BY <1>3, <2>1 DEF Workshops
<1>4. CASE "ring" \notin W /\ "temple" \notin W
  <2>1. WorkshopOrder(W) = << >>  BY <1>4 DEF WorkshopOrder
  <2> QED  BY <1>4, <2>1 DEF Workshops
<1> QED  BY <1>1, <1>2, <1>3, <1>4

LEMMA SitesTyped ==
    ASSUME NEW bs, NEW team, NEW A, Workshops \subseteq A
    PROVE  Held(bs, team) \in Seq(A) /\ Lost(bs, team) \in Seq(A)
<1>1. Held(bs, team) \in Seq(Workshops) /\ Lost(bs, team) \in Seq(Workshops)
  BY OrderTyped DEF Held, Lost
<1> QED  BY <1>1

LEMMA FirstTyped == ASSUME NEW A, NEW s \in Seq(A) PROVE FirstOf(s, 2) \in Seq(A)
<1>1. \A m \in Int : m <= Len(s) => SubSeq(s, 1, m) \in Seq(A)  BY SubSeqProperties
<1>2. Fewer(2, Len(s)) \in Int /\ Fewer(2, Len(s)) <= Len(s)  BY DEF Fewer
<1> QED  BY <1>1, <1>2 DEF FirstOf

\* BuildJobs lists jobs at known places, one at least.
ListedIn(jobs, A) == jobs \in Seq(Posts(A)) /\ Len(jobs) > 0

LEMMA Extended ==
    ASSUME NEW J, NEW s \in Seq(J), NEW t \in Seq(J)
    PROVE  /\ s \o t \in Seq(J) /\ Len(s \o t) = Len(s) + Len(t)
           /\ \A i \in 1 .. Len(s) : (s \o t)[i] = s[i]
<1>1. Len(s) \in Nat /\ Len(t) \in Nat  OBVIOUS
<1> QED  BY <1>1, ConcatProperties

LEMMA DefenderJobsListed ==
    ASSUME NEW A, Home \subseteq A, NEW bs, NEW team, NEW alive \in Int, bs.threat \in Int,
           RallyAt(bs) \in A
    PROVE  ListedIn(DefenderJobs(bs, team, alive), A)
<1> USE PlanAssumption
<1>0. DefenderAnchor \in A /\ "post" \in A /\ "spost" \in A /\ Workshops \subseteq A
  BY DEF Home, DefenderAnchor
<1> DEFINE crew == CrewJobs(bs)
           rally == RallyJobs(bs, alive)
           lost == AtEach(FirstOf(Lost(bs, team), 2), 2, "any", "generic")
           held == AtEach(Held(bs, team), 2, "any", "generic")
           anchor == << Plain(DefenderAnchor, 3) >>
           rest == << Plain(IF bs.threat > 0 THEN RallyAt(bs)
                            ELSE FieldPush(bs, team, DefenderAnchor), alive) >>
<1>1. DefenderJobs(bs, team, alive) = crew \o rally \o lost \o held \o anchor \o rest
  BY DEF DefenderJobs
<1>2. crew \in Seq(Posts(A))
  <2>1. << "post", "spost" >> \in Seq(A)  BY <1>0
  <2>2. CrewMax \div 2 \in Int  OBVIOUS
  <2>3. More(1, CrewMax \div 2) \in Int  BY <2>2 DEF More
  <2>4. "any" \in Ranks /\ "crew" \in Duties  BY DEF Ranks, Duties
  <2>5. AtEach(<< "post", "spost" >>, More(1, CrewMax \div 2), "any", "crew") \in Seq(Posts(A))
    BY <2>1, <2>3, <2>4, AtEachTyped
  <2>6. << >> \in Seq(Posts(A))  OBVIOUS
  <2> QED  BY <2>5, <2>6 DEF CrewJobs
<1>3. rally \in Seq(Posts(A))
  <2>1. (alive * DefenseShare) \div 100 \in Int /\ bs.threat * RallyPerVehicle \in Int  OBVIOUS
  <2>2. RallyWant(bs, alive) \in Int  BY <2>1 DEF RallyWant, More, Fewer
  <2>3. (IF bs.threat > 0 THEN RallyWant(bs, alive) ELSE 6) \in Int  BY <2>2
  <2>4. << Plain(RallyAt(bs), IF bs.threat > 0 THEN RallyWant(bs, alive) ELSE 6) >> \in Seq(Posts(A))
    BY <2>3, OneJob
  <2>5. << >> \in Seq(Posts(A))  OBVIOUS
  <2> QED  BY <2>4, <2>5 DEF RallyJobs
<1>4. lost \in Seq(Posts(A)) /\ held \in Seq(Posts(A))
  <2>1. "any" \in Ranks /\ "generic" \in Duties /\ 2 \in Int  BY DEF Ranks, Duties
  <2>2. Held(bs, team) \in Seq(A) /\ FirstOf(Lost(bs, team), 2) \in Seq(A)
    BY <1>0, SitesTyped, FirstTyped
  <2>3. lost \in Seq(Posts(A))  BY <2>1, <2>2, AtEachTyped
  <2>4. held \in Seq(Posts(A))  BY <2>1, <2>2, AtEachTyped
  <2> QED  BY <2>3, <2>4
<1>5. anchor \in Seq(Posts(A))  BY <1>0, OneJob
<1>6. rest \in Seq(Posts(A)) /\ Len(rest) = 1
  <2>1. Lost(bs, team) \in Seq(A)  BY <1>0, SitesTyped
  <2>2. FieldPush(bs, team, DefenderAnchor) \in A  BY <1>0, <2>1 DEF FieldPush
  <2>3. (IF bs.threat > 0 THEN RallyAt(bs) ELSE FieldPush(bs, team, DefenderAnchor)) \in A
    BY <2>2
  <2> QED  BY <2>3, OneJob
<1> HIDE DEF crew, rally, lost, held, anchor, rest
<1>7. crew \o rally \in Seq(Posts(A))  BY <1>2, <1>3
<1>8. crew \o rally \o lost \in Seq(Posts(A))  BY <1>4, <1>7
<1>9. crew \o rally \o lost \o held \in Seq(Posts(A))  BY <1>4, <1>8
<1>10. crew \o rally \o lost \o held \o anchor \in Seq(Posts(A))  BY <1>5, <1>9
<1> DEFINE P == Posts(A)  all == crew \o rally \o lost \o held \o anchor
<1>11. all \in Seq(P) /\ rest \in Seq(P) /\ DefenderJobs(bs, team, alive) = all \o rest
  BY <1>1, <1>6, <1>10
<1> HIDE DEF P, all
<1>12. all \o rest \in Seq(P) /\ Len(all \o rest) = Len(all) + Len(rest)
  BY <1>11, Extended
<1>13. Len(all \o rest) > 0
  <2>1. Len(all) \in Nat  BY <1>11
  <2>2. Len(rest) = 1  BY <1>6
  <2> QED  BY <1>12, <2>1, <2>2
<1> QED  BY <1>11, <1>12, <1>13 DEF ListedIn, P

\* The attackers' list opens with the factories when the vehicle cap has room.
FactoryJobs(bs, team) ==
    IF WantVehicles(bs) THEN AtEach(Held(bs, team), 2, "lieutenant", "production") ELSE << >>
OpensWith(jobs, lead) ==
    Len(lead) <= Len(jobs) /\ \A i \in 1 .. Len(lead) : jobs[i] = lead[i]

LEMMA AttackerJobsListed ==
    ASSUME NEW A, Workshops \subseteq A, NEW bs, NEW team, NEW alive \in Int,
           bs.van \in Seq(A), bs.convoy \in Seq(A), AttackerPush(bs.stage) \in A
    PROVE  /\ FactoryJobs(bs, team) \in Seq(Posts(A))
           /\ ListedIn(AttackerJobs(bs, team, alive), A)
           /\ OpensWith(AttackerJobs(bs, team, alive), FactoryJobs(bs, team))
<1> USE PlanAssumption
<1> DEFINE lead == FactoryJobs(bs, team)
           lost == AtEach(Lost(bs, team), CaptureWant(bs, team), CaptureRank(bs), "generic")
           road == RoadHunts(bs, team)
           guard == AtEach(FirstOf(bs.convoy, 2), 3, "any", "generic")
           rest == MainEffort(bs, team, alive)
<1>0. {"any", "lieutenant", "rankless"} \subseteq Ranks /\ {"generic", "production"} \subseteq Duties
  BY DEF Ranks, Duties
<1>1. Held(bs, team) \in Seq(A) /\ Lost(bs, team) \in Seq(A)  BY SitesTyped
<1>2. lead \in Seq(Posts(A))
  <2>1. AtEach(Held(bs, team), 2, "lieutenant", "production") \in Seq(Posts(A))
    BY <1>0, <1>1, AtEachTyped
  <2>2. << >> \in Seq(Posts(A))  OBVIOUS
  <2> QED  BY <2>1, <2>2 DEF FactoryJobs
<1>3. lost \in Seq(Posts(A))
  <2>1. CaptureWant(bs, team) \in Int  BY DEF CaptureWant
  <2>2. CaptureRank(bs) \in Ranks  BY <1>0 DEF CaptureRank
  <2> QED  BY <1>0, <1>1, <2>1, <2>2, AtEachTyped
<1>4. road \in Seq(Posts(A))
  <2>1. Job("ring", 3, "rankless", "generic") \in Posts(A)
    BY <1>0, JobTyped DEF Workshops
  <2>2. << Job("ring", 3, "rankless", "generic") >> \in Seq(Posts(A))  BY <2>1
  <2>3. << >> \in Seq(Posts(A))  OBVIOUS
  <2> QED  BY <2>2, <2>3 DEF RoadHunts
<1>5. guard \in Seq(Posts(A))
  <2>1. FirstOf(bs.convoy, 2) \in Seq(A)  BY FirstTyped
  <2>2. "any" \in Ranks /\ "generic" \in Duties /\ 3 \in Int  BY <1>0
  <2> QED  BY <2>1, <2>2, AtEachTyped
<1>6. rest \in Seq(Posts(A)) /\ Len(rest) > 0
  <2>1. OwnFirst(bs, team) \in A  BY <1>1 DEF OwnFirst
  <2>2. FieldPush(bs, team, OwnFirst(bs, team)) \in A  BY <1>1, <2>1 DEF FieldPush
  <2>3. \A a \in A, w \in Int : Plain(a, w) \in Posts(A)  BY JobTyped DEF Plain, Ranks, Duties
  <2>4. CASE bs.van # << >>
    <3>1. bs.van[1] \in A  BY <2>4
    <3> QED  BY <2>3, <2>4, <3>1 DEF MainEffort
  <2>5. CASE bs.van = << >>
    <3>1. Plain(AttackerPush(bs.stage), KeepScreen) \in Posts(A)  BY <2>3
    <3>2. Plain(FieldPush(bs, team, OwnFirst(bs, team)), alive) \in Posts(A)  BY <2>2, <2>3
    <3> QED  BY <2>5, <3>1, <3>2 DEF MainEffort
  <2> QED  BY <2>4, <2>5
<1>7. AttackerJobs(bs, team, alive) = lead \o lost \o road \o guard \o rest
  BY DEF AttackerJobs, FactoryJobs
<1> HIDE DEF lead, lost, road, guard, rest
<1> DEFINE P == Posts(A)  two == lead \o lost  three == two \o road  four == three \o guard
           five == four \o rest
<1>8. lead \in Seq(P) /\ lost \in Seq(P) /\ road \in Seq(P) /\ guard \in Seq(P) /\ rest \in Seq(P)
      /\ Len(lead) \in Nat /\ Len(lost) \in Nat /\ Len(road) \in Nat /\ Len(guard) \in Nat /\ Len(rest) \in Nat
  BY <1>2, <1>3, <1>4, <1>5, <1>6
<1> HIDE DEF P
<1>9. /\ two \in Seq(P) /\ Len(two) = Len(lead) + Len(lost)
      /\ \A i \in 1 .. Len(lead) : two[i] = lead[i]
  BY <1>8, Extended
<1> HIDE DEF two
<1>10. /\ three \in Seq(P) /\ Len(three) = Len(two) + Len(road)
       /\ \A i \in 1 .. Len(two) : three[i] = two[i]
  BY <1>8, <1>9, Extended
<1> HIDE DEF three
<1>11. /\ four \in Seq(P) /\ Len(four) = Len(three) + Len(guard)
       /\ \A i \in 1 .. Len(three) : four[i] = three[i]
  BY <1>8, <1>10, Extended
<1> HIDE DEF four
<1>12. /\ five \in Seq(P) /\ Len(five) = Len(four) + Len(rest)
       /\ \A i \in 1 .. Len(four) : five[i] = four[i]
  BY <1>8, <1>11, Extended
<1>13. AttackerJobs(bs, team, alive) = five  BY <1>7 DEF two, three, four
<1> HIDE DEF five
<1>14. Len(five) > 0 /\ Len(lead) <= Len(five)
  <2>1. Len(lead) \in Nat /\ Len(lost) \in Nat /\ Len(road) \in Nat /\ Len(guard) \in Nat  BY <1>8
  <2>2. Len(rest) \in Nat /\ Len(rest) > 0  BY <1>6, <1>8
  <2>3. Len(two) = Len(lead) + Len(lost)  BY <1>9
  <2>4. Len(three) = Len(two) + Len(road)  BY <1>10
  <2>5. Len(four) = Len(three) + Len(guard)  BY <1>11
  <2>6. Len(five) = Len(four) + Len(rest)  BY <1>12
  <2> QED  BY <2>1, <2>2, <2>3, <2>4, <2>5, <2>6
<1>15. \A i \in 1 .. Len(lead) : five[i] = lead[i]
  <2> SUFFICES ASSUME NEW i \in 1 .. Len(lead) PROVE five[i] = lead[i]  OBVIOUS
  <2>1. i \in 1 .. Len(two) /\ i \in 1 .. Len(three) /\ i \in 1 .. Len(four)
    BY <1>8, <1>9, <1>10, <1>11
  <2> QED  BY <1>9, <1>10, <1>11, <1>12, <2>1
<1>16. ListedIn(AttackerJobs(bs, team, alive), A)  BY <1>12, <1>13, <1>14 DEF ListedIn, P
<1>17. OpensWith(AttackerJobs(bs, team, alive), lead)  BY <1>13, <1>14, <1>15 DEF OpensWith
<1> QED  BY <1>2, <1>16, <1>17 DEF lead

LEMMA JobsListed ==
    ASSUME NEW A, Home \subseteq A, NEW bs, NEW team, NEW alive \in Int, bs.threat \in Int,
           team # bs.attacker => RallyAt(bs) \in A,
           team = bs.attacker =>
             bs.van \in Seq(A) /\ bs.convoy \in Seq(A) /\ AttackerPush(bs.stage) \in A
    PROVE  ListedIn(BuildJobs(bs, team, alive), A)
<1>0. "relic" \in A /\ DefenderAnchor \in A /\ Workshops \subseteq A  BY DEF Home, DefenderAnchor
<1>1. ASSUME NEW a \in A, BuildJobs(bs, team, alive) = << Plain(a, alive) >>
      PROVE  ListedIn(BuildJobs(bs, team, alive), A)
  <2>1. Plain(a, alive) \in Posts(A)  BY JobTyped DEF Plain, Ranks, Duties
  <2> QED  BY <1>1, <2>1 DEF ListedIn
<1>2. CASE bs.open  BY <1>0, <1>1, <1>2 DEF BuildJobs
<1>3. CASE ~bs.open /\ ~WorkshopCapture  BY <1>0, <1>1, <1>3 DEF BuildJobs
<1>4. CASE ~bs.open /\ WorkshopCapture /\ team = bs.attacker
  BY <1>0, <1>4, AttackerJobsListed DEF BuildJobs
<1>5. CASE ~bs.open /\ WorkshopCapture /\ team # bs.attacker
  BY <1>5, DefenderJobsListed DEF BuildJobs
<1> QED  BY <1>2, <1>3, <1>4, <1>5

LEMMA PlanListed ==
    ASSUME NEW A, NEW jobs, ListedIn(jobs, A), NEW pool, NEW spot, NEW rk,
           NEW plan \in Plans(jobs, pool, spot, rk)
    PROVE  DOMAIN plan = pool /\ \A b \in pool : plan[b].at \in A
<1>2. /\ Len(jobs) \in Nat /\ Len(jobs) > 0 /\ DOMAIN jobs = 1 .. Len(jobs)
      /\ Last(jobs) = jobs[Len(jobs)] /\ \A i \in 1 .. Len(jobs) : jobs[i] \in Posts(A)
  BY DEF ListedIn, Last
<1>3. DOMAIN plan = pool /\ \A b \in pool : \E i \in 1 .. Len(jobs) : plan[b] = jobs[i]
  BY <1>2, PlanFromJobs
<1> QED  BY <1>2, <1>3 DEF Posts

-----------------------------------------------------------------------------
(* What a reconcile orders.                                                   *)

Alive(S, t) == Cardinality(OfTeam(Pool(S), t))

\* The objectives of a reconcile are those of the plans of both teams, and
\* whoever it adds to the managed is not in the zone yet.
PlansFor(S, t) == Plans(BuildJobs(Battle(S), t, Alive(S, t)), OfTeam(Pool(S), t),
                        [b \in S |-> bot[b].place], ranked)
Obeyed(plan, S, t) == \A b \in OfTeam(Pool(S), t) : objective'[b] = plan[b].at

Anywhere == Ground \cup {"none"}

LEMMA BattleTyped ==
    ASSUME FieldTyped, NEW S \in SUBSET Bots, stage' \in 0 .. 2, NEW t \in Teams
    PROVE  /\ Alive(S, t) \in Int /\ Battle(S).threat \in Int /\ Battle(S).attacker = attacker
           /\ Battle(S).released = sortie'.released
           /\ Battle(S).van \in Seq(Anywhere) /\ Battle(S).convoy \in Seq(Anywhere)
           /\ AttackerPush(Battle(S).stage) \in Anywhere /\ RallyAt(Battle(S)) \in Anywhere
<1> DEFINE bs == Battle(S)
<1>1. Alive(S, t) \in Int
  <2>1. IsFiniteSet(OfTeam(Pool(S), t))
    BY BotsAssumption, FS_Subset DEF OfTeam, Pool
  <2> QED  BY <2>1, FS_CardinalityType DEF Alive
<1>2. {"gate", "court", "inner", "muster"} \subseteq Anywhere  BY GroundList DEF Anywhere
<1>3. engine.at \in Anywhere  BY DEF FieldTyped, Engines, Anywhere
<1>4. /\ bs.threat = ThreatCount /\ bs.attacker = attacker /\ bs.stage = stage'
      /\ bs.released = sortie'.released /\ bs.threatAt = engine.at /\ bs.firedAt = FiredWall
      /\ bs.van = Convoy(managed) /\ bs.convoy = Convoy(S)
  BY DEF Battle
<1> HIDE DEF bs
<1>5. bs.threat \in Int  BY <1>4 DEF ThreatCount
<1>6. bs.van \in Seq(Anywhere) /\ bs.convoy \in Seq(Anywhere)
  <2>1. << engine.at >> \in Seq(Anywhere) /\ << >> \in Seq(Anywhere)  BY <1>3
  <2> QED  BY <1>4, <2>1 DEF Convoy
<1>7. AttackerPush(bs.stage) \in Anywhere
  <2>1. AttackerPush(stage') \in Ground  BY PushLegal
  <2> QED  BY <1>4, <2>1 DEF Anywhere
<1>8. FiredWall \in Anywhere
  BY <1>2 DEF FiredWall
<1>9. RallyAt(bs) \in Anywhere  BY <1>2, <1>3, <1>4, <1>8 DEF RallyAt
<1> QED  BY <1>1, <1>4, <1>5, <1>6, <1>7, <1>9 DEF bs

LEMMA BattleJobs ==
    ASSUME FieldTyped, NEW S \in SUBSET Bots, stage' \in 0 .. 2, NEW t \in Teams
    PROVE  /\ ListedIn(BuildJobs(Battle(S), t, Alive(S, t)), Anywhere)
           /\ t # attacker /\ Quorum > 0 /\ ~sortie'.released =>
                ListedIn(BuildJobs(Battle(S), t, Alive(S, t)), Home)
<1> DEFINE bs == Battle(S)
<1>1. Alive(S, t) \in Int /\ bs.threat \in Int /\ bs.attacker = attacker
      /\ bs.released = sortie'.released
      /\ bs.van \in Seq(Anywhere) /\ bs.convoy \in Seq(Anywhere)
      /\ AttackerPush(bs.stage) \in Anywhere /\ RallyAt(bs) \in Anywhere
  BY BattleTyped
<1> HIDE DEF bs
<1>2. Home \subseteq Anywhere  BY GroundList DEF Home, Anywhere, Workshops
<1>3. ListedIn(BuildJobs(bs, t, Alive(S, t)), Anywhere)  BY <1>1, <1>2, JobsListed
<1>4. ASSUME t # attacker, Quorum > 0, ~sortie'.released
      PROVE  ListedIn(BuildJobs(bs, t, Alive(S, t)), Home)
  <2>1. RallyAt(bs) = "muster"  BY <1>1, <1>4 DEF RallyAt, Mustering
  <2>2. RallyAt(bs) \in Home  BY <2>1 DEF Home
  <2> QED  BY <1>1, <1>4, <2>2, JobsListed
<1> QED  BY <1>3, <1>4 DEF bs

LEMMA OrderedFor ==
    ASSUME FieldTyped, NEW S \in SUBSET Bots, stage' \in 0 .. 2, Assign(S), NEW t \in Teams
    PROVE  /\ S \subseteq managed' /\ \A b \in managed' : Afoot(b) => b \in Pool(S)
           /\ \A b \in Pool(S) : b \in DOMAIN objective'
           /\ \E plan \in PlansFor(S, t) : Obeyed(plan, S, t)
<1>1. PICK pa \in PlansFor(S, "alliance"), ph \in PlansFor(S, "horde") :
        \E xa \in Picks("alliance"), xh \in Picks("horde") :
          /\ managed' = S \cup xa \cup xh
          /\ objective' = Merge([b \in DOMAIN objective \cap S |-> objective[b]],
                                [b \in Pool(S) |-> Merge(pa, ph)[b].at])
  <2> DEFINE spot == [b \in S |-> bot[b].place]
             Plan(u) == Plans(BuildJobs(Battle(S), u, Cardinality(OfTeam(Pool(S), u))),
                              OfTeam(Pool(S), u), spot, ranked)
             out == {b \in Pool(S) : OutOfBounds(b, stage', seen')}
             able == Pool(S) \ out
             busy == {b \in able : seen'.open /\ bot[b].place = "relic"}
  <2>1. PICK pa \in Plan("alliance"), ph \in Plan("horde") :
          LET plan == Merge(pa, ph) IN
          \E crew \in SUBSET {b \in able : MayCrew(b, plan[b])},
             driver \in {engine.driver} \cup {b \in able \ busy : MayDrive(b, plan[b])},
             xa \in Picks("alliance"), xh \in Picks("horde") :
            /\ managed' = S \cup xa \cup xh
            /\ objective' = Merge([b \in DOMAIN objective \cap S |-> objective[b]],
                                  [b \in Pool(S) |-> plan[b].at])
    BY Zenon DEF Assign
  <2>2. Plan("alliance") = PlansFor(S, "alliance") /\ Plan("horde") = PlansFor(S, "horde")
    BY DEF PlansFor, Alive
  <2> HIDE DEF Plan
  <2> QED  BY <2>1, <2>2
<1>2. PICK xa \in Picks("alliance"), xh \in Picks("horde") :
        /\ managed' = S \cup xa \cup xh
        /\ objective' = Merge([b \in DOMAIN objective \cap S |-> objective[b]],
                              [b \in Pool(S) |-> Merge(pa, ph)[b].at])
  BY <1>1
<1>3. \A b \in managed' : Afoot(b) => b \in Pool(S)
  <2>1. \A b \in xa \cup xh : ~Afoot(b)
    <3>1. "away" \notin Ground  BY GroundList
    <3> QED  BY <3>1, PicksAway DEF Afoot, InZone
  <2> QED  BY <1>2, <2>1 DEF Pool
<1>4. /\ \A b \in Pool(S) : b \in DOMAIN objective' /\ objective'[b] = Merge(pa, ph)[b].at
  BY <1>2 DEF Merge
<1>5. /\ DOMAIN pa = OfTeam(Pool(S), "alliance")
      /\ DOMAIN ph = OfTeam(Pool(S), "horde")
  <2>1. "alliance" \in Teams /\ "horde" \in Teams  BY DEF Teams
  <2> QED  BY <1>1, <2>1, BattleJobs, PlanListed DEF PlansFor
<1>6. Obeyed(pa, S, "alliance")
  <2>1. \A b \in OfTeam(Pool(S), "alliance") : b \in Pool(S) /\ Merge(pa, ph)[b] = pa[b]
    BY <1>5 DEF Merge, OfTeam
  <2> QED  BY <1>4, <2>1 DEF Obeyed
<1>7. Obeyed(ph, S, "horde")
  <2>1. \A b \in OfTeam(Pool(S), "horde") : b \in Pool(S) /\ Merge(pa, ph)[b] = ph[b]
    BY <1>5 DEF Merge, OfTeam
  <2> QED  BY <1>4, <2>1 DEF Obeyed
<1> QED  BY <1>1, <1>2, <1>3, <1>4, <1>6, <1>7 DEF Teams

\* A look is a reconcile of the director, as long as the clock can tell.
LEMMA LooksReconcile ==
    ASSUME FieldTyped, [Next]_vars, Reconciled, TicksPerFull > 1
    PROVE  /\ UNCHANGED << attacker, fallen, owner >>
           /\ AdoptAndPrune \in SUBSET Bots /\ stage' \in 0 .. 2 /\ Assign(AdoptAndPrune)
           /\ \E driver \in Bots \cup {NoBot} : Boards(driver)
<1>1. clock' # clock
  <2>1. TicksPerFull \in Nat  BY BotsAssumption
  <2> QED  BY <2>1 DEF Reconciled
<1>2. OnUpdate
  <2>1. ~(Battlefield \/ Field)  BY <1>1, OutsideLeavesDirector DEF director
  <2>2. ~UNCHANGED vars  BY <1>1 DEF vars, director
  <2> QED  BY <2>1, <2>2 DEF Next
<1>3. clock + 1 = TicksPerFull  BY BotsAssumption DEF Reconciled
<1>4. PICK latched \in 0 .. 2 : Reconcile(latched)
  <2>1. Reconcile(IF active THEN stage ELSE 0)  BY <1>2, <1>3 DEF OnUpdate, Reconciled
  <2>2. (IF active THEN stage ELSE 0) \in 0 .. 2  BY DEF FieldTyped
  <2> QED  BY <2>1, <2>2
<1>5. stage' \in 0 .. 2 /\ \E driver \in Bots \cup {NoBot} : Boards(driver)
  BY <1>4, ReconcileField
<1>6. AdoptAndPrune \in SUBSET Bots  BY AdoptedInZone
<1>7. Assign(AdoptAndPrune)  BY <1>4 DEF Reconcile
<1>8. UNCHANGED << attacker, fallen, owner >>  BY <1>2 DEF OnUpdate
<1> QED  BY <1>5, <1>6, <1>7, <1>8

\* While the sortie has not been let out, a reconcile sends no defender on foot
\* outside the keep except to a workshop (BuildJobs, UpdateSortie, Reconcile),
\* for any number of bots. The hypothesis tells a reconcile from what happens
\* between two: a full tick of more than one update.
THEOREM MusterHeld == ASSUME TicksPerFull > 1 PROVE Spec => MusterHolds
<1> DEFINE AtHome == Reconciled /\ Quorum > 0 /\ ~sortie'.released =>
       \A b \in OfTeam(managed', Defending) :
         Afoot(b) /\ b \in DOMAIN objective' =>
           IsInsideKeep(objective'[b]) \/ objective'[b] \in Workshops
<1>1. ASSUME FieldTyped, [Next]_vars PROVE AtHome
  <2> SUFFICES ASSUME Reconciled, Quorum > 0, ~sortie'.released,
                      NEW b \in OfTeam(managed', Defending), Afoot(b)
               PROVE  IsInsideKeep(objective'[b]) \/ objective'[b] \in Workshops
    OBVIOUS
  <2> DEFINE S == AdoptAndPrune
  <2>1. S \in SUBSET Bots /\ stage' \in 0 .. 2 /\ Assign(S)  BY <1>1, LooksReconcile
  <2> HIDE DEF S
  <2>2. Defending \in Teams /\ Defending # attacker
    BY <1>1 DEF FieldTyped, Defending, Other, Teams
  <2>3. PICK plan \in PlansFor(S, Defending) : Obeyed(plan, S, Defending)
    BY <1>1, <2>1, <2>2, OrderedFor
  <2>4. b \in OfTeam(Pool(S), Defending)
    BY <1>1, <2>1, <2>2, OrderedFor DEF OfTeam
  <2>5. ListedIn(BuildJobs(Battle(S), Defending, Alive(S, Defending)), Home)
    BY <1>1, <2>1, <2>2, BattleJobs
  <2>6. plan[b].at \in Home  BY <2>3, <2>4, <2>5, PlanListed DEF PlansFor
  <2> QED  BY <2>3, <2>4, <2>6, HomeInside DEF Obeyed
<1>2. ASSUME FieldTyped, [Next]_vars PROVE [AtHome]_vars  BY <1>1, <1>2
<1> QED  BY <1>2, FieldIsTyped, PTL DEF Spec, MusterHolds

-----------------------------------------------------------------------------
(* The factories.                                                             *)

\* Some two of the pool's Lieutenants have been given that place.
Served(q, at, lts) ==
    \E T \in SUBSET (lts \cap DOMAIN q) : Cardinality(T) = 2 /\ \A b \in T : q[b].at = at
AllPlaced(q, lts, mine) == \A b \in lts : b \in DOMAIN q /\ q[b].at \in mine

\* The first K jobs ask for two Lieutenants each at the places of mine: a plan
\* that leaves a Lieutenant for elsewhere has given each of those jobs its two.
Factories(jobs, K, mine) ==
    \A i \in 1 .. K : jobs[i].want = 2 /\ jobs[i].rank = "lieutenant" /\ jobs[i].at \in mine

FactoryFilled(q, k, jobs, K, pool, lts, mine) ==
    /\ DOMAIN q \subseteq pool
    /\ k <= K => \A b \in DOMAIN q : q[b].at \in mine
    /\ \/ AllPlaced(q, lts, mine)
       \/ \A i \in 1 .. K : i <= k => Served(q, jobs[i].at, lts)

\* Giving bots of nobody's another job disturbs no place already given.
LEMMA GiveKeeps ==
    ASSUME NEW q, NEW S, S \cap DOMAIN q = {}, NEW job, NEW lts, NEW mine
    PROVE  /\ DOMAIN Give(q, S, job) = DOMAIN q \cup S
           /\ \A b \in DOMAIN q : Give(q, S, job)[b] = q[b]
           /\ \A b \in S : Give(q, S, job)[b] = job
           /\ AllPlaced(q, lts, mine) => AllPlaced(Give(q, S, job), lts, mine)
           /\ \A at : Served(q, at, lts) => Served(Give(q, S, job), at, lts)
<1>1. /\ DOMAIN Give(q, S, job) = DOMAIN q \cup S
      /\ \A b \in DOMAIN q : Give(q, S, job)[b] = q[b]
      /\ \A b \in S : Give(q, S, job)[b] = job
  BY DEF Give
<1> DEFINE p == Give(q, S, job)
<1> HIDE DEF p
<1>2. AllPlaced(q, lts, mine) => AllPlaced(p, lts, mine)  BY <1>1 DEF AllPlaced, p
<1>3. ASSUME NEW at, Served(q, at, lts) PROVE Served(p, at, lts)
  <2>1. PICK T \in SUBSET (lts \cap DOMAIN q) : Cardinality(T) = 2 /\ \A b \in T : q[b].at = at
    BY <1>3 DEF Served
  <2>2. T \in SUBSET (lts \cap DOMAIN p) /\ \A b \in T : p[b].at = at  BY <1>1, <2>1 DEF p
  <2> QED  BY <2>1, <2>2 DEF Served
<1> QED  BY <1>1, <1>2, <1>3 DEF p

LEMMA FactoryStep ==
    ASSUME NEW jobs, NEW K \in Nat, NEW mine, Factories(jobs, K, mine),
           NEW pool, IsFiniteSet(pool), NEW spot, NEW rk, NEW k \in Nat, NEW q, NEW p,
           FactoryFilled(q, k, jobs, K, pool, pool \cap rk, mine),
           DraftOf(p, q, jobs[k + 1], pool, spot, rk)
    PROVE  FactoryFilled(p, k + 1, jobs, K, pool, pool \cap rk, mine)
<1> DEFINE job == jobs[k + 1]  lts == pool \cap rk
           cands == {b \in pool \ DOMAIN q : RankFits(job, b, rk)}
<1>1. PICK S \in SUBSET cands : /\ Cardinality(S) = Fewer(job.want, Cardinality(cands))
                                /\ p = Give(q, S, job)
  BY DEF DraftOf, Drafts
<1>2. S \subseteq pool /\ S \cap DOMAIN q = {} /\ cands \subseteq pool \ DOMAIN q  OBVIOUS
<1>3. /\ DOMAIN p = DOMAIN q \cup S
      /\ \A b \in DOMAIN q : p[b] = q[b]
      /\ \A b \in S : p[b] = job
      /\ AllPlaced(q, lts, mine) => AllPlaced(p, lts, mine)
      /\ \A at : Served(q, at, lts) => Served(p, at, lts)
  <2> HIDE DEF job, lts, cands
  <2>1. DOMAIN q \cap S = {}  BY <1>2
  <2>2. p = Give(q, S, job)  BY <1>1
  <2>3. /\ DOMAIN p = DOMAIN q \cup S
        /\ \A b \in DOMAIN q : p[b] = q[b]
        /\ \A b \in S : p[b] = job
    BY <2>1, <2>2, Zenon DEF Give
  <2>4. AllPlaced(q, lts, mine) => AllPlaced(p, lts, mine)  BY <2>1, <2>2, GiveKeeps
  <2>5. \A at : Served(q, at, lts) => Served(p, at, lts)  BY <2>1, <2>2, GiveKeeps
  <2> QED  BY <2>3, <2>4, <2>5
<1>4. DOMAIN p \subseteq pool  BY <1>2, <1>3 DEF FactoryFilled
<1>5. CASE k + 1 > K
  <2>1. AllPlaced(q, lts, mine) \/ \A i \in 1 .. K : Served(q, jobs[i].at, lts)
    <3>1. \A i \in 1 .. K : i <= k  BY <1>5
    <3> QED  BY <3>1 DEF FactoryFilled
  <2>2. AllPlaced(p, lts, mine) \/ \A i \in 1 .. K : Served(p, jobs[i].at, lts)
    <3> HIDE DEF lts
    <3> QED  BY <1>3, <2>1
  <2>3. ~(k + 1 <= K)  BY <1>5
  <2> QED  BY <1>4, <2>2, <2>3 DEF FactoryFilled
<1>6. CASE k + 1 <= K
  <2>1. k + 1 \in 1 .. K  BY <1>6
  <2>2. job.want = 2 /\ job.rank = "lieutenant" /\ job.at \in mine
    BY <2>1 DEF Factories
  <2>3. cands = lts \ DOMAIN q  BY <2>2 DEF RankFits
  <2>4. IsFiniteSet(cands) /\ Cardinality(cands) \in Nat
    BY <1>2, FS_Subset, FS_CardinalityType
  <2>5. \A b \in DOMAIN q : q[b].at \in mine  BY <1>6 DEF FactoryFilled
  <2>6. \A b \in DOMAIN p : p[b].at \in mine
    <3> HIDE DEF job, cands
    <3> QED  BY <1>3, <2>2, <2>5
  <2>7. CASE Cardinality(cands) >= 2
    <3>1. Cardinality(S) = 2
      <4> HIDE DEF cands, job
      <4> QED  BY <1>1, <2>2, <2>4, <2>7 DEF Fewer
    <3>2. S \in SUBSET (lts \cap DOMAIN p) /\ \A b \in S : p[b].at = job.at
      <4> HIDE DEF job, lts
      <4> QED  BY <1>3, <2>3
    <3>3. Served(p, job.at, lts)
      <4> HIDE DEF job, lts
      <4> QED  BY <3>1, <3>2 DEF Served
    <3>4. ASSUME NEW i \in 1 .. K, i <= k + 1, ~AllPlaced(p, lts, mine)
          PROVE  Served(p, jobs[i].at, lts)
      <4>1. CASE i = k + 1  BY <3>3, <4>1
      <4>2. CASE i <= k
        <5>1. ~AllPlaced(q, lts, mine)  BY <1>3, <3>4, Zenon
        <5>2. Served(q, jobs[i].at, lts)  BY <4>2, <5>1 DEF FactoryFilled
        <5> HIDE DEF lts
        <5> QED  BY <1>3, <5>2
      <4> QED  BY <3>4, <4>1, <4>2
    <3> QED  BY <1>4, <2>6, <3>4 DEF FactoryFilled
  <2>8. CASE Cardinality(cands) < 2
    <3>1. Cardinality(S) = Cardinality(cands)
      <4> HIDE DEF cands, job
      <4> QED  BY <1>1, <2>2, <2>4, <2>8 DEF Fewer
    <3>2. S = cands
      <4> HIDE DEF cands
      <4> QED  BY <2>4, <3>1, FS_Subset
    <3>3. AllPlaced(p, lts, mine)
      <4>1. \A b \in lts : b \in DOMAIN p
        <5> HIDE DEF lts
        <5> QED  BY <1>3, <2>3, <3>2
      <4> QED  BY <2>6, <4>1 DEF AllPlaced
    <3> QED  BY <1>4, <2>6, <3>3 DEF FactoryFilled
  <2> QED  BY <2>4, <2>7, <2>8
<1> QED  BY <1>5, <1>6

LEMMA FactoriesServed ==
    ASSUME NEW n \in Nat, n > 0, NEW jobs, DOMAIN jobs = 1 .. n, Last(jobs) = jobs[n],
           NEW K \in 0 .. n, NEW mine, Factories(jobs, K, mine),
           NEW pool, IsFiniteSet(pool), NEW spot, NEW rk, NEW plan \in Plans(jobs, pool, spot, rk)
    PROVE  \/ \A b \in pool \cap rk : plan[b].at \in mine
           \/ \A i \in 1 .. K : Served(plan, jobs[i].at, pool \cap rk)
<1>0. K \in Nat /\ K <= n  OBVIOUS
<1>1. PICK g : DraftedBy(g, n, jobs, pool, spot, rk)  BY PlansDraft
<1> DEFINE Filled(p, k) == FactoryFilled(p, k, jobs, K, pool, pool \cap rk, mine)
           Sizes == {k \in Nat : k \in 0 .. n => \A p \in g[1 .. k] : Filled(p, k)}
<1>2. 0 \in Sizes
  <2>1. g[1 .. 0] = {<< >>}  BY <1>1, DraftUnfold DEF DraftedBy
  <2>2. DOMAIN << >> = {}  OBVIOUS
  <2>3. \A i \in 1 .. K : ~(i <= 0)  OBVIOUS
  <2>4. Filled(<< >>, 0)  BY <2>2, <2>3 DEF FactoryFilled
  <2> HIDE DEF Filled
  <2> QED  BY <2>1, <2>4
<1>3. ASSUME NEW k \in Nat, k \in Sizes PROVE k + 1 \in Sizes
  <2> SUFFICES ASSUME k + 1 \in 0 .. n, NEW p \in g[1 .. k + 1] PROVE Filled(p, k + 1)
    <3> HIDE DEF Filled
    <3> QED  OBVIOUS
  <2>1. g[1 .. k + 1] = Fill(g[1 .. k], jobs[k + 1], pool, spot, rk)
    <3>1. k + 1 \in 1 .. n /\ (k + 1) - 1 = k  OBVIOUS
    <3> QED  BY <1>1, <3>1, DraftUnfold DEF DraftedBy
  <2>2. PICK q \in g[1 .. k] : DraftOf(p, q, jobs[k + 1], pool, spot, rk)
    BY <2>1, FillStep
  <2>3. Filled(q, k)
    <3> HIDE DEF Filled
    <3> QED  BY <1>3
  <2> QED  BY <1>0, <2>2, <2>3, FactoryStep
<1>4. Nat \subseteq Sizes
  <2> HIDE DEF Sizes
  <2> QED  BY <1>2, <1>3, NatInd
<1>5. PICK p \in g[1 .. n] : plan = Give(p, pool \ DOMAIN p, jobs[n])
  BY <1>1 DEF DraftedBy
<1>6. Filled(p, n)
  <2> HIDE DEF Filled
  <2> QED  BY <1>4
<1>7. AllPlaced(p, pool \cap rk, mine) \/ \A i \in 1 .. K : Served(p, jobs[i].at, pool \cap rk)
  <2>1. \A i \in 1 .. K : i <= n  OBVIOUS
  <2> QED  BY <1>6, <2>1 DEF FactoryFilled
<1>8. (pool \ DOMAIN p) \cap DOMAIN p = {}  OBVIOUS
<1>9. AllPlaced(plan, pool \cap rk, mine) \/ \A i \in 1 .. K : Served(plan, jobs[i].at, pool \cap rk)
  BY <1>5, <1>7, <1>8, GiveKeeps
<1> QED  BY <1>9 DEF AllPlaced

\* The attackers' list, of the battle as it stands, opens with the factories.
LEMMA BattleOpens ==
    ASSUME FieldTyped, NEW S \in SUBSET Bots, stage' \in 0 .. 2, NEW t \in Teams
    PROVE  OpensWith(AttackerJobs(Battle(S), t, Alive(S, t)), FactoryJobs(Battle(S), t))
<1> DEFINE bs == Battle(S)
<1>1. bs.van \in Seq(Anywhere) /\ bs.convoy \in Seq(Anywhere) /\ AttackerPush(bs.stage) \in Anywhere
  BY BattleTyped
<1>2. Alive(S, t) \in Int  BY BattleTyped
<1>3. Workshops \subseteq Anywhere  BY GroundList DEF Anywhere, Workshops
<1> HIDE DEF bs
<1> QED  BY <1>1, <1>2, <1>3, AttackerJobsListed DEF bs

\* The Lieutenants go to the factories first (BuildJobs, Reconcile), whatever the
\* battle, the pool and the headcounts. The hypothesis is that of MusterHeld.
THEOREM FactoriesComeFirst == ASSUME TicksPerFull > 1 PROVE Spec => FactoriesFirst
<1> DEFINE Staffed == Reconciled /\ WorkshopCapture /\ fallen < 3
       /\ (IF engine.at = "none" THEN 0 ELSE 1) + HumanReserve < MaxVehicles =>
     LET mine == {w \in Workshops : owner[w] = attacker}
         lts == {b \in OfTeam(managed', attacker) \cap ranked : Afoot(b)}
     IN (\E b \in lts : objective'[b] \notin mine) =>
          \A w \in mine : Cardinality({b \in lts : objective'[b] = w}) >= 2
<1>1. ASSUME FieldTyped, [Next]_vars PROVE Staffed
  <2> DEFINE mine == {w \in Workshops : owner[w] = attacker}
             lts == {b \in OfTeam(managed', attacker) \cap ranked : Afoot(b)}
             S == AdoptAndPrune
             pool == OfTeam(Pool(S), attacker)
             jobs == BuildJobs(Battle(S), attacker, Alive(S, attacker))
             lead == FactoryJobs(Battle(S), attacker)
             held == Held(Battle(S), attacker)
  <2> SUFFICES ASSUME Reconciled, WorkshopCapture, fallen < 3,
                      (IF engine.at = "none" THEN 0 ELSE 1) + HumanReserve < MaxVehicles,
                      NEW b \in lts, objective'[b] \notin mine, NEW w \in mine
               PROVE  Cardinality({c \in lts : objective'[c] = w}) >= 2
    OBVIOUS
  <2>1. S \in SUBSET Bots /\ stage' \in 0 .. 2 /\ Assign(S) /\ attacker \in Teams
    BY <1>1, LooksReconcile DEF FieldTyped
  <2>2. \A c : c \in lts <=> c \in pool \cap ranked
    <3>1. \A c \in managed' : Afoot(c) => c \in Pool(S)
      <4> HIDE DEF S
      <4> QED  BY <1>1, <2>1, OrderedFor
    <3>2. Pool(S) \subseteq managed'
      <4> HIDE DEF S
      <4> QED  BY <1>1, <2>1, OrderedFor DEF Pool
    <3>3. \A c \in Pool(S) : Afoot(c)  BY DEF Pool
    <3> HIDE DEF S
    <3> QED  BY <3>1, <3>2, <3>3 DEF OfTeam
  <2>3. jobs = AttackerJobs(Battle(S), attacker, Alive(S, attacker))
    <3>1. fallen # 3  OBVIOUS
    <3>2. Battle(S).open = (fallen = 3) /\ Battle(S).attacker = attacker  BY DEF Battle
    <3> HIDE DEF S
    <3> QED  BY <3>1, <3>2 DEF BuildJobs
  <2>4. lead = AtEach(held, 2, "lieutenant", "production")
    <3>1. WantVehicles(Battle(S))
      <4>1. /\ Battle(S).vehicles = (IF engine.at = "none" THEN 0 ELSE 1)
            /\ Battle(S).maxVeh = MaxVehicles
        BY DEF Battle
      <4> QED  BY <4>1 DEF WantVehicles
    <3> QED  BY <3>1 DEF FactoryJobs
  <2>5. /\ held \in Seq(Anywhere)
        /\ \A i \in 1 .. Len(held) : held[i] \in mine
        /\ \E i \in 1 .. Len(held) : held[i] = w
    <3>1. Battle(S).owner = owner  BY DEF Battle
    <3>2. held = WorkshopOrder(mine)  BY <3>1 DEF Held
    <3>3. w \in mine \cap Workshops  OBVIOUS
    <3>4. Workshops \subseteq Anywhere  BY GroundList DEF Anywhere, Workshops
    <3>5. held \in Seq(Anywhere)  BY <3>4, SitesTyped
    <3> HIDE DEF mine, held
    <3> QED  BY <3>2, <3>3, <3>5, OrderTyped
  <2>6. /\ Len(lead) = Len(held)
        /\ \A i \in 1 .. Len(held) : lead[i] = Job(held[i], 2, "lieutenant", "production")
    <3>1. "lieutenant" \in Ranks /\ "production" \in Duties /\ 2 \in Int  BY DEF Ranks, Duties
    <3>2. held \in Seq(Anywhere)  BY <2>5
    <3> HIDE DEF held, lead
    <3>3. Len(AtEach(held, 2, "lieutenant", "production")) = Len(held)
      BY <3>1, <3>2, AtEachTyped
    <3>4. \A i \in 1 .. Len(held) :
            AtEach(held, 2, "lieutenant", "production")[i] = Job(held[i], 2, "lieutenant", "production")
      BY <3>1, <3>2, AtEachTyped
    <3> QED  BY <2>4, <3>3, <3>4
  <2>7. ListedIn(jobs, Anywhere) /\ OpensWith(jobs, lead)
    <3>1. ListedIn(jobs, Anywhere)
      <4> HIDE DEF S
      <4> QED  BY <1>1, <2>1, BattleJobs
    <3>2. OpensWith(AttackerJobs(Battle(S), attacker, Alive(S, attacker)), lead)
      <4> HIDE DEF S
      <4> QED  BY <1>1, <2>1, BattleOpens
    <3> QED  BY <2>3, <3>1, <3>2
  <2>8. ASSUME NEW i \in 1 .. Len(held)
         PROVE  jobs[i].want = 2 /\ jobs[i].rank = "lieutenant" /\ jobs[i].at = held[i]
    <3> HIDE DEF held, jobs, lead
    <3>1. i \in 1 .. Len(lead)  BY <2>6
    <3>2. jobs[i] = lead[i]  BY <2>7, <3>1 DEF OpensWith
    <3>3. jobs[i] = Job(held[i], 2, "lieutenant", "production")  BY <2>6, <3>2
    <3> QED  BY <3>3 DEF Job
  <2>9. Factories(jobs, Len(held), mine) /\ Len(held) \in 0 .. Len(jobs)
    <3> HIDE DEF held, jobs, lead, mine
    <3>1. Len(held) \in Nat  BY <2>5
    <3>2. Len(held) <= Len(jobs)  BY <2>6, <2>7 DEF OpensWith
    <3>3. Len(jobs) \in Nat  BY <2>7 DEF ListedIn
    <3>4. ASSUME NEW i \in 1 .. Len(held)
          PROVE  jobs[i].want = 2 /\ jobs[i].rank = "lieutenant" /\ jobs[i].at \in mine
      BY <2>5, <2>8
    <3>5. Factories(jobs, Len(held), mine)  BY <3>4 DEF Factories
    <3> QED  BY <3>1, <3>2, <3>3, <3>5
  <2>10. PICK plan \in PlansFor(S, attacker) : Obeyed(plan, S, attacker)
    <3> HIDE DEF S
    <3> QED  BY <1>1, <2>1, OrderedFor
  <2>11. \/ \A c \in pool \cap ranked : plan[c].at \in mine
         \/ \A i \in 1 .. Len(held) : Served(plan, jobs[i].at, pool \cap ranked)
    <3>1. /\ Len(jobs) \in Nat /\ Len(jobs) > 0 /\ DOMAIN jobs = 1 .. Len(jobs)
          /\ Last(jobs) = jobs[Len(jobs)]
      <4> HIDE DEF jobs
      <4> QED  BY <2>7 DEF ListedIn, Last
    <3>2. IsFiniteSet(pool)  BY <2>1, BotsAssumption, FS_Subset DEF OfTeam, Pool
    <3>3. plan \in Plans(jobs, pool, [c \in S |-> bot[c].place], ranked)
      BY <2>10 DEF PlansFor
    <3> HIDE DEF jobs, pool, held, mine, S
    <3> QED  BY <2>9, <3>1, <3>2, <3>3, FactoriesServed
  <2>12. \A c \in pool : objective'[c] = plan[c].at  BY <2>10 DEF Obeyed
  <2>13. PICK i \in 1 .. Len(held) : held[i] = w  BY <2>5
  <2>14. jobs[i].at = w  BY <2>13, <2>8
  <2>15. Served(plan, w, pool \cap ranked)
    <3>1. b \in pool \cap ranked  BY <2>2
    <3> HIDE DEF held, jobs, pool, mine, lts
    <3> QED  BY <2>11, <2>12, <2>13, <2>14, <3>1
  <2>16. PICK T \in SUBSET (pool \cap ranked) : Cardinality(T) = 2 /\ \A c \in T : plan[c].at = w
    BY <2>15 DEF Served
  <2>17. T \subseteq {c \in lts : objective'[c] = w}
    <3> HIDE DEF pool, lts
    <3> QED  BY <2>2, <2>12, <2>16
  <2>18. IsFiniteSet({c \in lts : objective'[c] = w})
    <3>1. {c \in lts : objective'[c] = w} \subseteq Bots
      <4>1. \A c \in lts : c \in Bots  BY <2>1, <2>2 DEF OfTeam, Pool
      <4> HIDE DEF lts
      <4> QED  BY <4>1
    <3> HIDE DEF lts
    <3> QED  BY <3>1, BotsAssumption, FS_Subset
  <2> HIDE DEF lts
  <2>19. /\ Cardinality(T) <= Cardinality({c \in lts : objective'[c] = w})
         /\ Cardinality({c \in lts : objective'[c] = w}) \in Nat
    BY <2>17, <2>18, FS_Subset, FS_CardinalityType
  <2> QED  BY <2>16, <2>19
<1>2. ASSUME FieldTyped, [Next]_vars PROVE [Staffed]_vars  BY <1>1, <1>2
<1> QED  BY <1>2, FieldIsTyped, PTL DEF Spec, FactoriesFirst

-----------------------------------------------------------------------------
(* The engine.  Its age, idle, is only raised when nobody sits in it, so it   *)
(* never runs ahead of what the witness has seen.  That needs the seats to    *)
(* agree with the driver, and no age to outlive its battle.                   *)

SeatsAgree ==
    /\ \A b \in Bots : bot[b].seat = "engine" => engine.driver = b
    /\ engine.at = "none" => engine.driver = NoBot

AgeWitnessed ==
    /\ clock \in Nat /\ idle \in Nat /\ vacant \in Nat
    /\ ~active => idle = 0
    /\ war => idle <= vacant

EngineInv == FieldInv /\ SeatsAgree /\ AgeWitnessed

\* Nobody gets into the engine unseen.
SeatsKept == \A b \in Bots : bot'[b].seat = "engine" => bot[b].seat = "engine"

LEMMA SeatsStay ==
    ASSUME SeatsAgree, SeatsKept, engine'.driver = engine.driver,
           engine'.at = "none" => engine.at = "none"
    PROVE  SeatsAgree'
BY DEF SeatsAgree, SeatsKept

LEMMA SeatPut ==
    ASSUME FieldTyped, NEW b \in Bots, NEW p, bot' = [bot EXCEPT ![b].place = p]
    PROVE  SeatsKept
<1>1. \A c \in Bots : bot[c] \in BotRecords  BY DEF FieldTyped
<1>2. [bot[b] EXCEPT !.place = p].seat = bot[b].seat  BY <1>1 DEF BotRecords
<1>3. bot' = [bot EXCEPT ![b] = [bot[b] EXCEPT !.place = p]]  OBVIOUS
<1>4. bot \in [Bots -> BotRecords]  BY DEF FieldTyped
<1> QED  BY <1>2, <1>3, <1>4 DEF SeatsKept

LEMMA ClimbsDown ==
    ASSUME FieldTyped, SeatsAgree, NEW b \in Bots, engine' = Off(b),
           \A c \in Bots : bot'[c].seat = "engine" => bot[c].seat = "engine" /\ c # b
    PROVE  SeatsAgree'
<1>1. engine \in Engines  BY DEF FieldTyped
<1>2. engine'.at = engine.at /\ engine'.driver = IF engine.driver = b THEN NoBot ELSE engine.driver
  BY <1>1 DEF Off, Engines
<1> QED  BY <1>2 DEF SeatsAgree

LEMMA BuiltSeats ==
    ASSUME FieldTyped, SeatsAgree, NEW b \in Bots, NEW p \in Ground, Built(b, p)
    PROVE  SeatsAgree'
<1>1. engine.at = "none" /\ engine' = [at |-> p, driver |-> b, rider |-> FALSE]  BY DEF Built
<1>2. bot' = [bot EXCEPT ![b] = [bot[b] EXCEPT !.seat = "engine", !.place = p]]  BY DEF Built
<1>3. \A c \in Bots : c # b => bot'[c] = bot[c]  BY <1>2 DEF FieldTyped
<1>4. NoBot \notin Bots  BY BotsAssumption
<1>5. engine'.driver = b /\ engine'.at # "none"  BY <1>1, GroundList
<1> QED  BY <1>1, <1>3, <1>4, <1>5 DEF SeatsAgree

LEMMA OneBotSeats ==
    ASSUME FieldTyped, SeatsAgree, NEW b \in Bots
    PROVE  /\ BotArrives(b) => SeatsAgree'
           /\ BotLeaves(b) => SeatsAgree'
           /\ BotDies(b) => SeatsAgree'
           /\ BotRevives(b) => SeatsAgree'
           /\ EngineBuilt(b) => SeatsAgree'
           /\ HandleSiegeTest(b) => SeatsAgree'
           /\ HandleSiegePrep(b) => SeatsAgree'
           /\ Promoted(b) => SeatsAgree'
           /\ \A p \in Ground : BotWalks(b, p) => SeatsAgree'
<1>1. bot[b] \in BotRecords /\ bot \in [Bots -> BotRecords]  BY DEF FieldTyped
<1>2. BotArrives(b) => SeatsAgree'  BY SeatPut, SeatsStay DEF BotArrives
<1>3. HandleSiegePrep(b) => SeatsAgree'  BY SeatPut, SeatsStay DEF HandleSiegePrep
<1>4. \A p \in Ground : BotWalks(b, p) => SeatsAgree'  BY SeatPut, SeatsStay DEF BotWalks
<1>5. Promoted(b) => SeatsAgree'  BY DEF Promoted, SeatsAgree
<1>6. ASSUME BotLeaves(b) PROVE SeatsAgree'
  <2>1. bot' = [bot EXCEPT ![b] = [bot[b] EXCEPT !.place = "away", !.alive = TRUE]]
    BY <1>6 DEF BotLeaves
  <2>2. [bot[b] EXCEPT !.place = "away", !.alive = TRUE].seat = bot[b].seat
    BY <1>1 DEF BotRecords
  <2>3. SeatsKept  BY <1>1, <2>1, <2>2 DEF SeatsKept
  <2> QED  BY <1>6, <2>3, SeatsStay DEF BotLeaves
<1>7. ASSUME BotDies(b) PROVE SeatsAgree'
  <2>1. bot' = [bot EXCEPT ![b] = [bot[b] EXCEPT !.alive = FALSE, !.seat = "foot"]]
    BY <1>7 DEF BotDies
  <2>2. [bot[b] EXCEPT !.alive = FALSE, !.seat = "foot"].seat = "foot"
    BY <1>1 DEF BotRecords
  <2>3. \A c \in Bots : bot'[c].seat = "engine" => bot[c].seat = "engine" /\ c # b
    BY <1>1, <2>1, <2>2
  <2> QED  BY <1>7, <2>3, ClimbsDown DEF BotDies
<1>8. ASSUME BotRevives(b) PROVE SeatsAgree'
  <2>1. bot' = [bot EXCEPT ![b] = [bot[b] EXCEPT !.alive = TRUE]]  BY <1>8 DEF BotRevives
  <2>2. [bot[b] EXCEPT !.alive = TRUE].seat = bot[b].seat  BY <1>1 DEF BotRecords
  <2>3. SeatsKept  BY <1>1, <2>1, <2>2 DEF SeatsKept
  <2> QED  BY <1>8, <2>3, SeatsStay DEF BotRevives
<1>9. EngineBuilt(b) => SeatsAgree'
  BY BuiltSeats DEF EngineBuilt, Built, CanBuild, Afoot, InZone
<1>10. HandleSiegeTest(b) => SeatsAgree'  BY BuiltSeats, GroundList DEF HandleSiegeTest
<1> QED  BY <1>2, <1>3, <1>4, <1>5, <1>6, <1>7, <1>8, <1>9, <1>10

LEMMA OutsideSeats ==
    ASSUME FieldTyped, SeatsAgree, Battlefield \/ Field PROVE SeatsAgree'
<1>1. engine \in Engines /\ bot \in [Bots -> BotRecords]  BY DEF FieldTyped
<1>2. BattleEnds => SeatsAgree'
  <2>1. ASSUME BattleEnds, NEW b \in Bots PROVE bot'[b].seat = "foot"
    <3>1. bot'[b] = [bot[b] EXCEPT !.seat = "foot"]  BY <2>1 DEF BattleEnds
    <3> QED  BY <1>1, <3>1 DEF BotRecords
  <2>2. BattleEnds => engine'.driver = NoBot  BY DEF BattleEnds, NoEngine
  <2> QED  BY <2>1, <2>2 DEF SeatsAgree
<1>3. /\ BattleStarts => UNCHANGED << bot, engine >>
      /\ WallFalls => UNCHANGED << bot, engine >>
      /\ WallHit => UNCHANGED << bot, engine >>
      /\ HandleHitCast \/ HandleSiegeFire => UNCHANGED << bot, engine >>
      /\ HandleGrantRank => UNCHANGED << bot, engine >>
      /\ \A w \in Workshops : WorkshopFlips(w) => UNCHANGED << bot, engine >>
      /\ \A w \in Workshops : GuardDies(w) \/ StrayMoves(w) => UNCHANGED << bot, engine >>
  BY DEF BattleStarts, WallFalls, WallHit, HandleHitCast, HandleSiegeFire, Fires,
         HandleGrantRank, WorkshopFlips, GuardDies, StrayMoves
<1>4. UNCHANGED << bot, engine >> => SeatsAgree'  BY DEF SeatsAgree
<1>5. ASSUME NEW p \in Ground, EngineDrives(p) PROVE SeatsAgree'
  <2>1. engine.driver \in Bots  BY <1>1, <1>5 DEF EngineDrives, Engines
  <2>2. SeatsKept  BY <1>5, <2>1, SeatPut DEF EngineDrives
  <2>3. engine'.driver = engine.driver /\ engine'.at # "none"
    BY <1>1, <1>5, GroundList DEF EngineDrives, Engines
  <2> QED  BY <2>2, <2>3, SeatsStay
<1>6. ASSUME EngineDeserted PROVE SeatsAgree'
  <2> DEFINE b == engine.driver
  <2>1. b \in Bots  BY <1>1, <1>6 DEF EngineDeserted, Engines
  <2>2. bot' = [bot EXCEPT ![b] = [bot[b] EXCEPT !.seat = "foot"]]  BY <1>6 DEF EngineDeserted
  <2>3. [bot[b] EXCEPT !.seat = "foot"].seat = "foot"  BY <1>1, <2>1 DEF BotRecords
  <2>4. \A c \in Bots : bot'[c].seat = "engine" => bot[c].seat = "engine" /\ c # b
    BY <1>1, <2>1, <2>2, <2>3
  <2> QED  BY <1>6, <2>1, <2>4, ClimbsDown DEF EngineDeserted
<1>7. RiderMoves => SeatsAgree'
  <2>1. RiderMoves => engine'.driver = engine.driver /\ engine'.at = engine.at /\ bot' = bot
    BY <1>1 DEF RiderMoves, Engines
  <2> QED  BY <2>1 DEF SeatsAgree
<1>8. CASE Battlefield  BY <1>2, <1>3, <1>4, <1>8 DEF Battlefield
<1>9. CASE Field  BY <1>3, <1>4, <1>5, <1>6, <1>7, <1>9, OneBotSeats DEF Field
<1> QED  BY <1>8, <1>9

\* An engine ages, and is reaped, only at a look that finds it empty.
LEMMA Reaping ==
    ASSUME FieldTyped, SeatsAgree, idle \in Nat, NEW driver \in Bots \cup {NoBot}, Boards(driver)
    PROVE  /\ SeatsAgree' /\ idle' \in Nat
           /\ idle' # 0 => FoundEmpty /\ idle' = idle + 1 /\ idle' < ReapTicks
           /\ engine.at # "none" /\ engine'.at = "none" => FoundEmpty /\ idle + 1 >= ReapTicks
<1> DEFINE empty == /\ engine.at # "none" /\ driver = NoBot /\ ~engine.rider
                    /\ \E b \in OfTeam(managed', attacker) :
                         bot'[b].place \in Ground /\ Within(bot'[b].place, engine.at, 40)
           reap == empty /\ idle + 1 >= ReapTicks
<1>1. /\ idle' = IF empty /\ ~reap THEN idle + 1 ELSE 0
      /\ engine' = IF reap THEN NoEngine ELSE [engine EXCEPT !.driver = driver]
  BY DEF Boards, ReapIdleVehicle
<1>2. /\ driver # engine.driver => engine.driver = NoBot /\ engine.at # "none"
      /\ \A b \in Bots : bot'[b].seat = "engine" => engine.driver = b \/ b = driver
      /\ engine.at = "none" => engine.driver = NoBot
  BY DEF Boards, SeatsAgree
<1>3. empty => engine.at # "none" /\ driver = NoBot /\ ~engine.rider  OBVIOUS
<1> HIDE DEF empty
<1>4. NoBot \notin Bots /\ ReapTicks \in Nat /\ engine \in Engines
  BY BotsAssumption DEF FieldTyped
<1>5. \A b \in Bots : bot'[b].seat = "engine" => b = driver  BY <1>2, <1>4
<1>6. empty => FoundEmpty  BY <1>3, <1>4, <1>5 DEF FoundEmpty
<1>7. SeatsAgree'
  <2>1. CASE reap
    <3>1. engine'.driver = NoBot /\ driver = NoBot  BY <1>1, <1>3, <2>1 DEF NoEngine
    <3> QED  BY <1>4, <1>5, <3>1 DEF SeatsAgree
  <2>2. CASE ~reap
    <3>1. engine'.driver = driver /\ engine'.at = engine.at  BY <1>1, <1>4, <2>2 DEF Engines
    <3> QED  BY <1>2, <1>5, <3>1 DEF SeatsAgree
  <2> QED  BY <2>1, <2>2
<1>8. idle' \in Nat /\ (idle' # 0 => empty /\ idle' = idle + 1 /\ idle' < ReapTicks)
  BY <1>1, <1>4
<1>9. engine.at # "none" /\ engine'.at = "none" => reap
  <2>1. ~reap => engine'.at = engine.at  BY <1>1, <1>4 DEF Engines
  <2> QED  BY <2>1
<1> QED  BY <1>6, <1>7, <1>8, <1>9

LEMMA OnUpdateSeats == ASSUME FieldTyped, SeatsAgree, idle \in Nat, OnUpdate PROVE SeatsAgree'
<1> DEFINE latched == IF active THEN stage ELSE 0
<1>1. latched \in 0 .. 2  BY DEF FieldTyped
<1> HIDE DEF latched
<1>2. CASE Reconcile(latched)
  <2>1. \E driver \in Bots \cup {NoBot} : Boards(driver)  BY <1>1, <1>2, ReconcileField
  <2> QED  BY <2>1, Reaping
<1>3. CASE MovementTick(latched)
  <2>1. ASSUME NEW b \in Bots PROVE bot'[b].seat = bot[b].seat
    <3>1. bot[b] \in BotRecords  BY DEF FieldTyped
    <3>2. \A p : [bot[b] EXCEPT !.place = p].seat = bot[b].seat  BY <3>1 DEF BotRecords
    <3>3. bot'[b] = IF b \in managed /\ Afoot(b)
                    THEN [bot[b] EXCEPT !.place = Snapped(b, latched, seen)] ELSE bot[b]
      BY <1>3 DEF MovementTick
    <3> QED  BY <3>2, <3>3
  <2>2. engine' = engine  BY <1>3 DEF MovementTick
  <2> QED  BY <2>1, <2>2 DEF SeatsAgree
<1>4. CASE ReleaseAll \/ Idle
  <2>1. UNCHANGED << bot, engine >>  BY <1>4 DEF ReleaseAll, Idle
  <2> QED  BY <2>1 DEF SeatsAgree
<1> QED  BY <1>2, <1>3, <1>4 DEF OnUpdate, latched

\* The step of a reconcile: the age stays behind the witness, and only an
\* engine the witness found empty ReapTicks times is gone.
LEMMA LookWitnessed ==
    ASSUME EngineInv, TicksPerFull > 1, [Next]_vars, Reconciled, Watch
    PROVE  /\ idle' \in Nat /\ vacant' \in Nat /\ idle' <= vacant'
           /\ engine.at # "none" /\ engine'.at = "none" => vacant' >= ReapTicks
<1>1. FieldTyped /\ SeatsAgree /\ idle \in Nat /\ vacant \in Nat /\ idle <= vacant
  BY DEF EngineInv, FieldInv, AgeWitnessed, Reconciled
<1>2. PICK driver \in Bots \cup {NoBot} : Boards(driver)  BY <1>1, LooksReconcile
<1>3. /\ idle' \in Nat
      /\ idle' # 0 => FoundEmpty /\ idle' = idle + 1 /\ idle' < ReapTicks
      /\ engine.at # "none" /\ engine'.at = "none" => FoundEmpty /\ idle + 1 >= ReapTicks
  BY <1>1, <1>2, Reaping
<1>4. vacant' = IF ~FoundEmpty THEN 0 ELSE IF vacant < ReapTicks THEN vacant + 1 ELSE vacant
  BY DEF Watch
<1>5. ReapTicks \in Nat  BY BotsAssumption
<1> QED  BY <1>1, <1>3, <1>4, <1>5

LEMMA EngineStep ==
    ASSUME EngineInv, ~BackToBack, TicksPerFull > 1, Next, Watch
    PROVE  EngineInv'
<1>1. FieldTyped /\ Remembers /\ SeatsAgree /\ AgeWitnessed /\ [Next]_vars
  BY DEF EngineInv, FieldInv
<1>2. clock \in Nat /\ idle \in Nat /\ vacant \in Nat  BY <1>1 DEF AgeWitnessed
<1>20. clock' \in Nat
  <2>1. OnUpdate => clock' \in Nat  BY <1>2 DEF OnUpdate
  <2> QED  BY <1>2, <2>1, OutsideLeavesDirector DEF Next, director
<1>3. FieldInv'  BY <1>1, FieldStep DEF FieldInv
<1>4. SeatsAgree'  BY <1>1, <1>2, OnUpdateSeats, OutsideSeats DEF Next
<1>5. CASE Reconciled
  <2>1. idle' \in Nat /\ vacant' \in Nat /\ idle' <= vacant'  BY <1>1, <1>5, LookWitnessed
  <2>2. active'
    <3>1. clock' # clock
      <4>1. TicksPerFull \in Nat  BY BotsAssumption
      <4> QED  BY <1>5, <4>1 DEF Reconciled
    <3>2. OnUpdate  BY <3>1, OutsideLeavesDirector DEF Next, director
    <3> QED  BY <1>5, <3>2 DEF OnUpdate, Reconciled
  <2> QED  BY <1>3, <1>4, <1>20, <2>1, <2>2 DEF EngineInv, AgeWitnessed
<1>6. CASE ~Reconciled
  <2>1. vacant' = IF war' THEN vacant ELSE 0  BY <1>6 DEF Watch
  <2>2. vacant' \in Nat  BY <1>2, <2>1
  <2>3. CASE OnUpdate
    <3>1. active' = war /\ war' = war  BY <2>3 DEF OnUpdate
    <3>2. ~(war /\ clock + 1 = TicksPerFull)
      BY <1>2, <1>6, <2>3, BotsAssumption DEF Reconciled, OnUpdate
    <3>3. CASE war
      <4>1. MovementTick(IF active THEN stage ELSE 0)  BY <2>3, <3>2, <3>3 DEF OnUpdate
      <4>2. idle' = idle  BY <4>1 DEF MovementTick
      <4> QED  BY <1>1, <1>2, <1>3, <1>4, <1>20, <2>1, <3>1, <3>3, <4>2 DEF EngineInv, AgeWitnessed
    <3>4. CASE ~war
      <4>1. ReleaseAll \/ (~active /\ Idle)  BY <2>3, <3>4 DEF OnUpdate
      <4>2. idle' = 0  BY <1>1, <4>1 DEF ReleaseAll, Idle, AgeWitnessed
      <4> QED  BY <1>3, <1>4, <1>20, <2>2, <3>1, <3>4, <4>2 DEF EngineInv, AgeWitnessed
    <3> QED  BY <3>3, <3>4
  <2>4. CASE Battlefield \/ Field
    <3>1. idle' = idle /\ active' = active  BY <2>4, OutsideLeavesDirector DEF director
    <3>2. CASE BattleStarts
      <4>1. ~active  BY <1>1, <3>2 DEF BattleStarts, Remembers
      <4>2. idle' = 0  BY <1>1, <3>1, <4>1 DEF AgeWitnessed
      <4> QED  BY <1>3, <1>4, <1>20, <2>2, <4>2 DEF EngineInv, AgeWitnessed
    <3>3. CASE ~BattleStarts
      <4>1. war' => war
        <5>1. ASSUME NEW b \in Bots
              PROVE  /\ Promoted(b) => war' = war
                     /\ BotArrives(b) => war' = war
                     /\ BotLeaves(b) => war' = war
                     /\ BotDies(b) => war' = war
                     /\ BotRevives(b) => war' = war
                     /\ EngineBuilt(b) => war' = war
                     /\ HandleSiegeTest(b) => war' = war
                     /\ HandleSiegePrep(b) => war' = war
                     /\ \A p \in Ground : BotWalks(b, p) => war' = war
          BY DEF Promoted, BotArrives, BotLeaves, BotDies, BotRevives, EngineBuilt,
                 HandleSiegeTest, Built, HandleSiegePrep, BotWalks
        <5>2. /\ \A p \in Ground : EngineDrives(p) => war' = war
              /\ EngineDeserted => war' = war
              /\ RiderMoves => war' = war
              /\ HandleGrantRank => war' = war
              /\ HandleHitCast \/ HandleSiegeFire => war' = war
          BY DEF EngineDrives, EngineDeserted, RiderMoves, HandleGrantRank, HandleHitCast,
                 HandleSiegeFire, Fires, WallHit, WallFalls
        <5>3. Field => war' = war  BY <5>1, <5>2 DEF Field
        <5>4. /\ BattleEnds => ~war'
              /\ WallFalls => war' = war
              /\ WallHit => war' = war
              /\ \A w \in Workshops : WorkshopFlips(w) => war' = war
              /\ \A w \in Workshops : GuardDies(w) \/ StrayMoves(w) => war' = war
          BY DEF BattleEnds, WallFalls, WallHit, WorkshopFlips, GuardDies, StrayMoves
        <5> QED  BY <2>4, <3>3, <5>3, <5>4 DEF Battlefield
      <4> QED  BY <1>1, <1>3, <1>4, <1>20, <2>1, <2>2, <3>1, <4>1 DEF EngineInv, AgeWitnessed
    <3> QED  BY <3>2, <3>3
  <2> QED  BY <2>3, <2>4 DEF Next
<1> QED  BY <1>5, <1>6

\* The director kills an engine only if nobody sat in it at the last ReapTicks
\* looks, the present one included (ReapIdleVehicles), for any number of looks
\* and bots. The hypotheses are those of FrontierHeldHolds and MusterHeld: an
\* age does not outlive its battle, and a look can be told from other steps.
THEOREM ReapsOnlyAbandoned ==
    ASSUME ~BackToBack, TicksPerFull > 1 PROVE Watched => ReapOnlyAbandoned
<1> DEFINE Deserted == Reconciled /\ engine.at # "none" /\ engine'.at = "none" => vacant' >= ReapTicks
<1>1. Init /\ vacant = 0 => EngineInv
  <2> SUFFICES ASSUME Init, vacant = 0 PROVE EngineInv  OBVIOUS
  <2>1. FieldInv  BY FieldStarts
  <2>2. SeatsAgree
    <3>1. engine.driver = NoBot  BY DEF Init, NoEngine
    <3>2. \A b \in Bots : bot[b].seat = "foot"  BY DEF Init
    <3> QED  BY <3>1, <3>2 DEF SeatsAgree
  <2>3. AgeWitnessed  BY DEF Init, AgeWitnessed
  <2> QED  BY <2>1, <2>2, <2>3 DEF EngineInv
<1>2. EngineInv /\ [Next /\ Watch]_watched => EngineInv'
  <2>1. EngineInv /\ UNCHANGED watched => EngineInv'
    BY DEF watched, vars, world, director, EngineInv, FieldInv, FieldTyped, Remembers,
           SeatsAgree, AgeWitnessed
  <2> QED  BY <2>1, EngineStep
<1>3. ASSUME EngineInv, [Next /\ Watch]_watched PROVE [Deserted]_watched
  <2>1. CASE Next /\ Watch  BY <1>3, <2>1, LookWitnessed
  <2> QED  BY <1>3, <2>1
<1> QED  BY <1>1, <1>2, <1>3, PTL DEF Watched, ReapOnlyAbandoned

-----------------------------------------------------------------------------
(* The march of one bot (WintergraspMarch).  Its order and the end of its leg  *)
(* say where it goes; what a statue has spent of its three stuck periods, and  *)
(* a wedged engine of its three tries, is read off their samples.              *)

Spots == Cells \X (Near \cup {Far})
Samples == [has : BOOLEAN, last : Spots, stuck : 0..(StuckTicks - 1),
            holds : Nat, dwell : 0..(DwellTicks - 1)]
Rides == [wedged : BOOLEAN, nearWall : BOOLEAN, exits : (SUBSET Sides) \ {{}}, has : BOOLEAN,
          stuck : 0..(StuckTicks - 1), holds : Nat, jam : Nat]
MarchTyped ==
  /\ cell \in Cells /\ goal \in Goals /\ dist \in DistIn(cell)
  /\ defending \in BOOLEAN /\ mustering \in BOOLEAN /\ mounted \in BOOLEAN
  /\ mood \in {"idle", "combat", "casting"} /\ ground \in Grounds
  /\ heading \in Cells \cup {"none"} /\ order \in {"none", "goal", "chase"}
  /\ travel \in Samples /\ still \in Nat /\ ride \in Rides

\* A leg towards the objective ends nearer to it, and one that starts in the
\* keep stays in it while the sortie gathers.
LegLeadsOn ==
  heading # "none" /\ defending =>
    /\ order = "goal" /\ heading # cell /\ cell \notin Alleys =>
         Misled(heading) \/ Crossings(heading, goal) < Crossings(cell, goal)
    /\ mustering /\ Inside(goal) /\ cell \in Courts => heading \in Courts

\* The first two failures count; a third there is not.
Worn(holds, period) == IF holds = 0 THEN 0 ELSE IF holds = 1 THEN period ELSE 2 * period

JamCounted ==
  /\ ride.jam <= 3 * StuckTicks
  /\ ride.jam > 0 =>
       ride.has /\ ride.wedged /\ ride.jam <= Worn(ride.holds, StuckTicks) + ride.stuck + 1

Spent == Worn(travel.holds, StuckTicks + 1) + (IF travel.has THEN travel.stuck + 1 ELSE 0)
Mounting == IF mounted THEN 1 ELSE 0
StillCounted ==
  /\ still <= 3 * (StuckTicks + 1) + 1
  /\ still > 0 /\ mood = "idle" /\ dist > ArriveRadius + 5 =>
       /\ ground.road = "none" /\ ground.clear
       /\ (travel.has => travel.last = place) \/ still <= Mounting
       /\ still <= Spent + Mounting
       /\ AtTheEdge(goal) \/ TakesPortal(goal, ground) => still <= Mounting

MarchInv == MarchTyped /\ LegLeadsOn /\ JamCounted /\ StillCounted

LEMMA Paces ==
  /\ StuckTicks \in Nat /\ StuckTicks > 0 /\ DwellTicks \in Nat /\ DwellTicks > 0
  /\ Far \in Nat /\ Near \subseteq Nat /\ 0 \in Near /\ \A d \in Near : d < Far
  /\ ArriveRadius \in Nat /\ ArriveRadius + 5 < Far /\ Short \in Nat /\ MinDist \in Nat
  /\ HoldCap \in Nat /\ HoldCap > 3
BY MarchAssumption

LEMMA CellsAre ==
  /\ Goals \subseteq Cells /\ {"outside", "courtAxis"} \subseteq Cells /\ "none" \notin Cells
  /\ \A c \in Cells : DistIn(c) \subseteq Near \cup {Far} /\ DistIn(c) \subseteq Nat
BY Paces DEF Goals, Cells, Courts, Alleys, DistIn

\* Another cell is at least one crossing away.
LEMMA OtherCell ==
  ASSUME NEW c \in Cells, NEW g \in Goals
  PROVE  /\ Crossings(c, g) \in Nat /\ Crossings(g, g) = 0
         /\ c # g => Crossings(c, g) > 0
BY DEF Cells, Courts, Alleys, Goals, Crossings

LEMMA ViaNearer ==
  ASSUME cell \in Cells, goal \in Goals, NEW c \in Via(goal)
  PROVE  /\ c \in Cells
         /\ c # cell /\ cell \notin Alleys =>
              Misled(c) \/ Crossings(c, goal) < Crossings(cell, goal)
         /\ cell \in Courts /\ Inside(goal) => c \in Courts
         /\ ~(cell = "tier" /\ goal = "outside")
BY DEF Cells, Goals, Courts, Alleys, Misled, Via, Inside, East, OnAxis, Axis, Crossings

\* The teleport lands short of where the bot was, at a distance there is.
LEMMA LandsShort ==
  ASSUME NEW d \in Nat
  PROVE  Landing(d) \in Near /\ Landing(d) <= d /\ (d > 0 => Landing(d) < d)
<1> DEFINE half == d \div 2  floor == Least(half, ArriveRadius)
           m == ShortBy(d)  fit == {e \in Near : e <= m}
<1>1. ArriveRadius \in Nat /\ Short \in Nat /\ Near \subseteq Nat /\ 0 \in Near  BY Paces
<1>2. half \in Nat /\ half <= d /\ (d > 0 => half < d)  OBVIOUS
<1>3. floor \in Nat /\ floor <= half
  <2> HIDE DEF half
  <2> QED  BY <1>1, <1>2 DEF Least
<1>4. m \in Nat /\ m <= d /\ (d > 0 => m < d)
  <2>1. m = Least(Greatest(d - ArriveRadius - 2, floor), Short)  BY DEF ShortBy
  <2> HIDE DEF half, floor, m
  <2> QED  BY <1>1, <1>2, <1>3, <2>1 DEF Least, Greatest
<1> HIDE DEF half, floor, m
<1>5. \E e \in fit : \A f \in fit : f <= e
  <2> DEFINE T == {k \in Nat : m - k \in fit}
  <2>1. T \subseteq Nat  OBVIOUS
  <2>2. m \in T  BY <1>1, <1>4
  <2>3. PICK k \in T : \A y \in T : k <= y
    <3> HIDE DEF T
    <3> QED  BY <2>1, <2>2, NatMin
  <2>4. m - k \in fit  BY <2>3
  <2>5. ASSUME NEW f \in fit PROVE f <= m - k
    <3>1. f \in Nat /\ f <= m  BY <1>1
    <3>2. m - f \in Nat /\ m - (m - f) = f  BY <1>4, <3>1
    <3>3. m - f \in T  BY <3>2
    <3>4. k <= m - f /\ k \in Nat  BY <2>3, <3>3
    <3> QED  BY <1>4, <3>1, <3>4
  <2> QED  BY <2>4, <2>5
<1>6. Landing(d) = CHOOSE e \in fit : \A f \in fit : f <= e  BY DEF Landing, m
<1>7. Landing(d) \in fit
  <2> HIDE DEF fit
  <2> QED  BY <1>5, <1>6
<1>8. Landing(d) \in Near /\ Landing(d) <= m  BY <1>7
<1>9. Landing(d) \in Nat  BY <1>1, <1>8
<1> QED  BY <1>4, <1>8, <1>9

-----------------------------------------------------------------------------
(* One step of the bot. *)

Same == travel.has /\ travel.last = place

LEMMA PlaceIs ==
  ASSUME MarchTyped PROVE place \in Spots /\ Nowhere \in Spots /\ dist \in Nat
<1>1. cell \in Cells /\ dist \in DistIn(cell)  BY DEF MarchTyped
<1>2. dist \in Near \cup {Far} /\ dist \in Nat /\ "outside" \in Cells  BY <1>1, CellsAre
<1> QED  BY <1>1, <1>2 DEF place, Nowhere, Spots

\* A sample before anyone looked whether it is full.
RawSamples == [has : BOOLEAN, last : Spots, stuck : Nat, holds : Nat, dwell : 0..(DwellTicks - 1)]

LEMMA SampleRange ==
  /\ Samples \subseteq RawSamples
  /\ \A r \in RawSamples : r.stuck < StuckTicks => r \in Samples
<1>1. \A k \in Nat : k < StuckTicks <=> k \in 0..(StuckTicks - 1)  BY Paces
<1> QED  BY <1>1 DEF Samples, RawSamples

LEMMA SampleFields ==
  ASSUME NEW r \in RawSamples
  PROVE  r.has \in BOOLEAN /\ r.last \in Spots /\ r.stuck \in Nat /\ r.holds \in Nat
         /\ r.dwell \in 0..(DwellTicks - 1)
BY DEF RawSamples

LEMMA Afresh ==
  ASSUME MarchTyped, NEW r \in Samples
  PROVE  /\ [r EXCEPT !.stuck = 0, !.has = FALSE, !.last = Nowhere] \in Samples
         /\ r.dwell \in 0..(DwellTicks - 1)
         /\ \A w \in 0..(DwellTicks - 1) :
              [r EXCEPT !.stuck = 0, !.holds = 0, !.has = FALSE, !.last = Nowhere, !.dwell = w] \in Samples
<1>1. Nowhere \in Spots  BY PlaceIs
<1>2. 0 \in 0..(StuckTicks - 1)  BY Paces
<1> QED  BY <1>1, <1>2 DEF Samples

LEMMA SampledIs ==
  ASSUME MarchTyped
  PROVE  /\ Sampled \in RawSamples /\ Sampled.has /\ Sampled.last = place
         /\ Sampled.stuck = (IF Same THEN travel.stuck + 1 ELSE 0)
         /\ Sampled.holds = (IF travel.has /\ ~Same THEN 0 ELSE travel.holds)
         /\ travel \in RawSamples /\ travel \in Samples
<1>1. travel \in Samples /\ travel \in RawSamples  BY SampleRange DEF MarchTyped
<1> DEFINE k == IF Same THEN travel.stuck + 1 ELSE 0
           h == IF travel.has /\ ~Same THEN 0 ELSE travel.holds
<1>2. Sampled = [travel EXCEPT !.has = TRUE, !.last = place, !.stuck = k, !.holds = h]
  BY DEF Sampled, Same
<1>3. k \in Nat /\ h \in Nat  BY <1>1, SampleFields
<1> HIDE DEF k, h
<1>4. TRUE \in BOOLEAN /\ place \in Spots  BY PlaceIs
<1>5. /\ Sampled \in RawSamples /\ Sampled.has = TRUE /\ Sampled.last = place
      /\ Sampled.stuck = k /\ Sampled.holds = h
  BY <1>1, <1>2, <1>3, <1>4 DEF RawSamples
<1> QED  BY <1>1, <1>5 DEF k, h

\* What the sampling of a full tick does: it counts, it gives up and starts
\* afresh, or it puts the bot down.
Counts == Sampled.stuck < StuckTicks /\ travel' = Sampled /\ UNCHANGED << cell, dist, mounted >>
Holds(d, gr) ==
  /\ Sampled.stuck >= StuckTicks /\ ~(gr.clear /\ (~(d <= MinDist) \/ Escalates(Sampled, d)))
  /\ travel' = [Sampled EXCEPT !.stuck = 0, !.has = FALSE, !.last = Nowhere,
                  !.holds = IF gr.clear /\ d <= MinDist THEN Least(Sampled.holds + 1, HoldCap)
                            ELSE Sampled.holds]
  /\ UNCHANGED << cell, dist, mounted >>
Lands(to, d, gr) ==
  /\ Sampled.stuck >= StuckTicks
  /\ travel' = [Sampled EXCEPT !.stuck = 0, !.has = FALSE, !.last = Nowhere, !.holds = 0]
  /\ PutDown(to, d) /\ UNCHANGED mounted

LEMMA SampleIs ==
  ASSUME MarchTyped, NEW to, NEW d \in Nat, NEW gr, Sample(to, d, gr)
  PROVE  (Counts \/ Holds(d, gr) \/ Lands(to, d, gr)) /\ travel' \in Samples
<1> DEFINE s == Sampled  g == Least(s.holds + 1, HoldCap)
           h == IF gr.clear /\ d <= MinDist THEN g ELSE s.holds
           gone == gr.clear /\ (~(d <= MinDist) \/ Escalates(s, d))
<1>1. s \in RawSamples /\ s.stuck \in Nat /\ s.holds \in Nat  BY SampledIs, SampleFields
<1>2. /\ s.stuck >= StuckTicks /\ gone =>
           /\ travel' = [s EXCEPT !.stuck = 0, !.has = FALSE, !.last = Nowhere, !.holds = 0]
           /\ PutDown(to, d) /\ UNCHANGED mounted
      /\ s.stuck >= StuckTicks /\ ~gone =>
           /\ travel' = [s EXCEPT !.stuck = 0, !.has = FALSE, !.last = Nowhere, !.holds = h]
           /\ UNCHANGED << cell, dist, mounted >>
      /\ ~(s.stuck >= StuckTicks) => travel' = s /\ UNCHANGED << cell, dist, mounted >>
  BY DEF Sample, Unstick
<1>3. g \in Nat /\ h \in Nat
  <2> HIDE DEF s
  <2> QED  BY <1>1, Paces DEF Least
<1>4. Counts \/ Holds(d, gr) \/ Lands(to, d, gr)
  BY <1>1, <1>2, Paces DEF Counts, Holds, Lands
<1> HIDE DEF s, h, g, gone
<1>5. ASSUME NEW n \in Nat,
             travel' = [s EXCEPT !.stuck = 0, !.has = FALSE, !.last = Nowhere, !.holds = n]
      PROVE  travel' \in Samples
  <2>1. travel' = [s EXCEPT !.has = FALSE, !.last = Nowhere, !.stuck = 0, !.holds = n]  BY <1>5
  <2>2. FALSE \in BOOLEAN /\ Nowhere \in Spots /\ 0 \in Nat  BY PlaceIs
  <2>3. travel' \in RawSamples /\ travel'.stuck = 0  BY <1>1, <2>1, <2>2 DEF RawSamples
  <2> QED  BY <2>3, SampleRange, Paces
<1>6. ~(s.stuck >= StuckTicks) => s \in Samples  BY <1>1, SampleRange, Paces
<1>7. travel' \in Samples  BY <1>2, <1>3, <1>5, <1>6
<1> QED  BY <1>4, <1>7

\* What a step of the bot comes to, towards any cell.
Stepped(to, d, gr) ==
  /\ cell' \in Cells /\ dist' \in DistIn(cell') /\ travel' \in Samples
  /\ mounted' \in BOOLEAN /\ heading' \in Cells \cup {"none"}
  /\ place' # place => heading' = "none" /\ mood = "idle" /\ d > ArriveRadius
  /\ \/ cell' = cell \/ cell' = to
     \/ AtTheEdge(to) /\ cell' = "outside"
     \/ TakesPortal(to, gr) /\ cell' = "courtAxis"
  /\ \/ heading' \in {heading, "none"}
     \/ heading' = cell /\ d <= ArriveRadius
     \/ d > ArriveRadius /\ ~AtTheEdge(to) /\ heading' \in NextHeading(to, gr)

LEMMA StepIs ==
  ASSUME MarchTyped, NEW to \in Goals, NEW d \in Nat, NEW gr, NEW full \in BOOLEAN,
         StepBot(to, d, gr, full)
  PROVE  Stepped(to, d, gr)
<1>0. /\ cell \in Cells /\ dist \in DistIn(cell) /\ travel \in Samples /\ mounted \in BOOLEAN
      /\ heading \in Cells \cup {"none"}
  BY DEF MarchTyped
<1>1. ASSUME UNCHANGED << cell, dist, mounted >>, travel' \in Samples, heading' \in {heading, "none"}
      PROVE  Stepped(to, d, gr)
  BY <1>0, <1>1 DEF place, Stepped
<1>2. CASE mood = "combat" /\ Stand([travel EXCEPT !.stuck = 0, !.has = FALSE, !.last = Nowhere])
  <2>1. [travel EXCEPT !.stuck = 0, !.has = FALSE, !.last = Nowhere] \in Samples
    BY <1>0, Afresh
  <2> QED  BY <1>1, <1>2, <2>1 DEF Stand
<1>3. CASE mood # "combat" /\ d <= ArriveRadius /\ Arrives(full)
  <2>1. PICK at \in {travel.dwell, (travel.dwell + 1) % DwellTicks} :
          travel' = [travel EXCEPT !.stuck = 0, !.holds = 0, !.has = FALSE, !.last = Nowhere, !.dwell = at]
    BY <1>3 DEF Arrives
  <2>2. at \in 0..(DwellTicks - 1)
    <3>1. travel.dwell \in 0..(DwellTicks - 1)  BY <1>0, Afresh
    <3> QED  BY <3>1, Paces
  <2>3. travel' \in Samples  BY <1>0, <2>1, <2>2, Afresh
  <2>4. heading' \in {heading, "none", cell} /\ UNCHANGED << cell, dist, mounted >>
    BY <1>3 DEF Arrives
  <2> QED  BY <1>0, <1>3, <2>3, <2>4 DEF place, Stepped
<1>4. CASE mood = "casting" /\ Stand(travel)  BY <1>0, <1>1, <1>4 DEF Stand
<1>5. CASE MayMount(d, full) /\ Mounts
  BY <1>0, <1>1, <1>5 DEF Mounts, TryMountBot, place, Stepped
<1>6. ASSUME NEW c \in {"outside", "courtAxis"}, Crosses(c), mood = "idle", d > ArriveRadius,
             (AtTheEdge(to) /\ c = "outside") \/ (TakesPortal(to, gr) /\ c = "courtAxis")
      PROVE  Stepped(to, d, gr)
  <2>1. travel' \in Samples  BY <1>0, <1>6, Afresh DEF Crosses
  <2> QED  BY <1>0, <1>6, <2>1, CellsAre DEF Crosses, Stepped
<1>7. ASSUME mood = "idle", d > ArriveRadius, ~AtTheEdge(to), ~TakesPortal(to, gr),
             IF full THEN Sample(to, d, gr) ELSE UNCHANGED << travel, cell, dist, mounted >>,
             heading' \in IF place' = place THEN NextHeading(to, gr) ELSE {"none"}
      PROVE  Stepped(to, d, gr)
  <2>1. travel' \in Samples /\ mounted' = mounted
        /\ (UNCHANGED << cell, dist >> \/ PutDown(to, d))
    BY <1>0, <1>7, SampleIs DEF Counts, Holds, Lands
  <2>2. cell' \in Cells /\ dist' \in DistIn(cell') /\ cell' \in {cell, to}
    BY <1>0, <2>1, CellsAre, LandsShort DEF PutDown, DistIn
  <2>3. NextHeading(to, gr) \subseteq Cells \cup {"none"}
    <3>1. Via(to) \subseteq Cells
      BY <1>0 DEF Via, Axis, Cells, Courts, Alleys
    <3>2. to \in Cells /\ Beside(cell) \subseteq Cells  BY <1>0, CellsAre DEF Beside
    <3> QED  BY <1>0, <3>1, <3>2 DEF NextHeading
  <2> QED  BY <1>0, <1>7, <2>1, <2>2, <2>3 DEF Stepped
<1>8. CASE mood = "idle" /\ d > ArriveRadius /\ Travelled(to, d, gr, full)
  BY <1>6, <1>7, <1>8 DEF Travelled
<1>9. d > ArriveRadius \/ d <= ArriveRadius  BY Paces
<1>10. ~(d <= ArriveRadius) <=> d > ArriveRadius  BY Paces
<1> QED  BY <1>2, <1>3, <1>4, <1>5, <1>8, <1>9, <1>10 DEF StepBot

-----------------------------------------------------------------------------
(* Where the bot goes. *)

LEMMA GoalLeads ==
  ASSUME MarchTyped, Stepped(goal, dist, ground), defending
  PROVE  /\ cell' # cell => Crossings(cell', goal) < Crossings(cell, goal)
         /\ Inside(goal) /\ cell \in Courts => cell' \in Courts
         /\ heading' \notin {heading, "none"} =>
              /\ cell' = cell /\ ~(cell = "tier" /\ goal = "outside")
              /\ heading' # cell /\ cell \notin Alleys =>
                   Misled(heading') \/ Crossings(heading', goal) < Crossings(cell, goal)
              /\ Inside(goal) /\ cell \in Courts => heading' \in Courts
<1>1. cell \in Cells /\ goal \in Goals /\ goal \in Cells /\ dist \in DistIn(cell)
  BY CellsAre DEF MarchTyped
<1>2. cell # goal => Crossings(goal, goal) < Crossings(cell, goal)  BY <1>1, OtherCell
<1>3. AtTheEdge(goal) => cell = "tier" /\ goal = "outside"
  BY <1>1 DEF AtTheEdge, Inside, Goals, Courts
<1>4. TakesPortal(goal, ground) => cell = "portal" /\ goal \in {"court", "east"}
  BY <1>1 DEF TakesPortal, Inside, Goals, Courts, Alleys
<1>5. cell' # cell => Crossings(cell', goal) < Crossings(cell, goal)
  <2>1. CASE cell' = goal  BY <1>2, <2>1
  <2>2. CASE AtTheEdge(goal) /\ cell' = "outside"  BY <1>3, <2>2 DEF Crossings
  <2>3. CASE TakesPortal(goal, ground) /\ cell' = "courtAxis"  BY <1>4, <2>3 DEF Crossings
  <2> QED  BY <2>1, <2>2, <2>3 DEF Stepped
<1>0. Inside(goal) => goal \in Courts  BY <1>1 DEF Goals, Inside, Courts, Alleys
<1>6. Inside(goal) /\ cell \in Courts => cell' \in Courts
  BY <1>0, <1>3, <1>4 DEF Stepped, Inside, Courts
<1>7. ASSUME heading' \notin {heading, "none"}
      PROVE  /\ cell' = cell /\ ~(cell = "tier" /\ goal = "outside")
             /\ heading' # cell /\ cell \notin Alleys =>
                  Misled(heading') \/ Crossings(heading', goal) < Crossings(cell, goal)
             /\ Inside(goal) /\ cell \in Courts => heading' \in Courts
  <2>1. cell' = cell  BY <1>7 DEF Stepped, place
  <2>2. ~(cell = "tier" /\ goal = "outside")
    <3>1. CASE dist <= ArriveRadius
      <4>1. cell = goal
        <5>1. dist \in Nat /\ (cell # goal => dist = Far)  BY <1>1, CellsAre DEF DistIn
        <5> QED  BY <3>1, <5>1, Paces
      <4> QED  BY <4>1
    <3>2. CASE ~AtTheEdge(goal)  BY <3>2 DEF AtTheEdge, Inside, Courts, Alleys
    <3> QED  BY <1>7, <3>1, <3>2 DEF Stepped
  <2>3. CASE heading' = cell  BY <2>1, <2>2, <2>3
  <2>4. CASE heading' \in NextHeading(goal, ground) /\ heading' # cell
    <3>1. heading' = goal \/ heading' \in Via(goal) \/ cell \in Alleys
      BY <1>7, <2>4 DEF NextHeading, Beside
    <3>2. cell \in Alleys => cell \notin Courts  BY DEF Alleys, Courts
    <3> QED  BY <1>0, <1>1, <1>2, <2>1, <2>2, <2>4, <3>1, <3>2, ViaNearer
  <2> QED  BY <1>7, <2>3, <2>4 DEF Stepped
<1> QED  BY <1>5, <1>6, <1>7

\* A tick's part in the march: towards the objective, after an engine out of
\* sight, or into a fight.
LEMMA TickIs ==
  ASSUME MarchTyped, NEW full \in BOOLEAN, MarchTick(full)
  PROVE  /\ UNCHANGED << goal, defending, mustering, ground, ride >>
         /\ \/ \E ts \in Samples : Attacks(ts) /\ still' \in {0, still}
            \/ ~MusterHold /\ Diverted /\ still' = 0
            \/ ToGoal(TRUE) /\ Counted
            \/ mood # "combat" /\ ToGoal(FALSE) /\ still' = still
<1>1. NoTravel \in Samples /\ travel \in Samples
  <2>1. Nowhere \in Spots  BY PlaceIs
  <2>2. 0 \in 0..(StuckTicks - 1) /\ 0 \in 0..(DwellTicks - 1) /\ 0 \in Nat  BY Paces
  <2> QED  BY <2>1, <2>2 DEF NoTravel, Samples, MarchTyped
<1>2. UNCHANGED << goal, defending, mustering, ground, ride >>  BY DEF MarchTick
<1>3. CASE full = TRUE
  <2>1. FullTick  BY <1>3 DEF MarchTick
  <2> QED  BY <1>1, <1>2, <1>3, <2>1 DEF FullTick
<1>4. CASE full = FALSE
  <2>1. MoveTick  BY <1>4 DEF MarchTick
  <2> QED  BY <1>1, <1>2, <1>4, <2>1 DEF MoveTick
<1> QED  BY <1>3, <1>4

\* What a tick leaves, and what it may not do.
Led ==
  /\ LegLeadsOn'
  /\ CrossingAdvances /\ GatheringStaysIn
TypedButStill ==
  /\ cell' \in Cells /\ goal' \in Goals /\ dist' \in DistIn(cell')
  /\ defending' \in BOOLEAN /\ mustering' \in BOOLEAN /\ mounted' \in BOOLEAN
  /\ mood' \in {"idle", "combat", "casting"} /\ ground' \in Grounds
  /\ heading' \in Cells \cup {"none"} /\ order' \in {"none", "goal", "chase"}
  /\ travel' \in Samples /\ goal' = goal

LEMMA TickLeads ==
  ASSUME MarchTyped, LegLeadsOn, NEW full \in BOOLEAN, MarchTick(full)
  PROVE  Led /\ TypedButStill
<1>0. /\ cell \in Cells /\ goal \in Goals /\ dist \in DistIn(cell) /\ dist \in Nat /\ ground \in Grounds
      /\ order \in {"none", "goal", "chase"} /\ mood \in {"idle", "combat", "casting"}
      /\ defending \in BOOLEAN /\ mustering \in BOOLEAN /\ mounted \in BOOLEAN
  BY CellsAre DEF MarchTyped
<1>1. UNCHANGED << goal, defending, mustering, ground, ride >>  BY TickIs
<1>2. ASSUME NEW ts \in Samples, Attacks(ts) PROVE Led /\ TypedButStill
  <2>1. heading' = "none" /\ order' = "none" /\ mood' = "combat" /\ travel' = ts
        /\ UNCHANGED << cell, dist, mounted >>
    BY <1>2 DEF Attacks
  <2>2. Led  BY <1>1, <2>1 DEF Led, LegLeadsOn, CrossingAdvances, GatheringStaysIn
  <2> QED  BY <1>0, <1>1, <2>1, <2>2 DEF TypedButStill
<1>3. ASSUME NEW g \in BOOLEAN, ToGoal(g) PROVE Led /\ TypedButStill
  <2>1. StepBot(goal, dist, ground, g) /\ mood' = mood
        /\ order' = (IF heading' # heading \/ place' # place THEN "goal" ELSE order)
    BY <1>3 DEF ToGoal, Steps
  <2>2. Stepped(goal, dist, ground)  BY <1>0, <2>1, StepIs
  <2>3. LegLeadsOn'
    <3> SUFFICES ASSUME heading' # "none", defending'
                 PROVE  /\ order' = "goal" /\ heading' # cell' /\ cell' \notin Alleys =>
                            \/ cell' = "outside" /\ Inside(goal') /\ heading' \in Alleys
                            \/ Crossings(heading', goal') < Crossings(cell', goal')
                        /\ mustering' /\ Inside(goal') /\ cell' \in Courts => heading' \in Courts
      BY DEF LegLeadsOn, Misled, Crossings, Inside
    <3>1. place' = place /\ cell' = cell  BY <2>2 DEF Stepped, place
    <3>2. CASE heading' = heading
      <4>1. order' = order  BY <2>1, <3>1, <3>2
      <4> QED  BY <1>1, <3>1, <3>2, <4>1 DEF LegLeadsOn, Misled
    <3>3. CASE heading' # heading  BY <1>1, <2>1, <2>2, <3>1, <3>3, GoalLeads DEF Misled
    <3> QED  BY <3>2, <3>3
  <2>4. CrossingAdvances
    <3> SUFFICES ASSUME order' = "goal", defending, cell \notin Alleys
                 PROVE  /\ cell' # cell => Crossings(cell', goal) < Crossings(cell, goal)
                        /\ heading' \notin {heading, "none", cell'} =>
                             Misled(heading') \/ Crossings(heading', goal) < Crossings(cell, goal)
                        /\ ~(cell = "tier" /\ goal = "outside" /\ heading' # heading /\ heading' = "tier")
      BY DEF CrossingAdvances
    <3> QED  BY <2>2, GoalLeads
  <2>5. GatheringStaysIn  BY <2>2, GoalLeads DEF GatheringStaysIn
  <2> QED  BY <1>0, <1>1, <2>1, <2>2, <2>3, <2>4, <2>5 DEF Led, TypedButStill, Stepped
<1>4. ASSUME Diverted, ~MusterHold PROVE Led /\ TypedButStill
  <2>1. PICK to \in {"outside", "court"}, d \in Near \cup {Far}, gr \in Grounds :
          Steps(to, d, gr, TRUE, "chase")
    BY <1>4 DEF Diverted
  <2>2. StepBot(to, d, gr, TRUE) /\ mood' = mood
        /\ order' = (IF heading' # heading \/ place' # place THEN "chase" ELSE order)
    BY <2>1 DEF Steps
  <2>3. to \in Goals /\ d \in Nat  BY Paces DEF Goals
  <2>4. Stepped(to, d, gr)  BY <2>2, <2>3, StepIs
  <2>5. LegLeadsOn'
    <3> SUFFICES ASSUME heading' # "none", defending'
                 PROVE  /\ order' = "goal" /\ heading' # cell' /\ cell' \notin Alleys =>
                            \/ cell' = "outside" /\ Inside(goal') /\ heading' \in Alleys
                            \/ Crossings(heading', goal') < Crossings(cell', goal')
                        /\ mustering' /\ Inside(goal') /\ cell' \in Courts => heading' \in Courts
      BY DEF LegLeadsOn, Misled, Crossings, Inside
    <3>1. place' = place /\ cell' = cell  BY <2>4 DEF Stepped, place
    <3>2. order' = "goal" => heading' = heading /\ order = "goal"  BY <2>2
    <3> QED  BY <1>1, <1>4, <3>1, <3>2 DEF LegLeadsOn, Misled, MusterHold, Inside
  <2>6. CrossingAdvances
    <3>1. order' = "goal" => heading' = heading /\ cell' = cell  BY <2>2 DEF place
    <3> QED  BY <3>1 DEF CrossingAdvances
  <2>7. GatheringStaysIn  BY <1>4 DEF GatheringStaysIn, MusterHold, Inside
  <2> QED  BY <1>0, <1>1, <2>2, <2>4, <2>5, <2>6, <2>7 DEF Led, TypedButStill, Stepped
<1> QED  BY <1>2, <1>3, <1>4, TickIs

-----------------------------------------------------------------------------
(* Nothing stays stuck. *)

LEMMA SpentIs ==
  ASSUME MarchTyped
  PROVE  /\ Spent \in Nat /\ Spent <= 3 * (StuckTicks + 1) - 1 /\ Mounting \in 0 .. 1
         /\ (travel.has => Spent > 0)
<1>1. travel.stuck \in 0..(StuckTicks - 1) /\ travel.holds \in Nat /\ travel.has \in BOOLEAN
  BY DEF MarchTyped, Samples
<1>2. Worn(travel.holds, StuckTicks + 1) \in Nat /\ Worn(travel.holds, StuckTicks + 1) <= 2 * (StuckTicks + 1)
  BY <1>1, Paces DEF Worn
<1> QED  BY <1>1, <1>2, Paces DEF Spent, Mounting

LEMMA StillBound ==
  ASSUME NEW n \in Nat, NEW k \in Nat, NEW m \in 0..1, NEW p \in Nat,
         k <= 3 * (p + 1) - 1, n <= k + m
  PROVE  n <= 3 * (p + 1) + 1
OBVIOUS

\* One more full tick at which the statue stands where it stood.
LEMMA StatueCounts ==
  ASSUME MarchInv, Statue, place' = place, UNCHANGED << goal, defending, ground, mood >>,
         StepBot(goal, dist, ground, TRUE), still' = still + 1, mounted' \in BOOLEAN, travel' \in Samples
  PROVE  StillCounted'
<1>1. /\ MarchTyped /\ still \in Nat /\ mood = "idle" /\ dist > ArriveRadius + 5 /\ dist \in Nat
      /\ ground.road = "none" /\ ground.clear
      /\ cell' = cell /\ dist' = dist /\ goal \in Goals
  BY PlaceIs DEF MarchInv, MarchTyped, Statue, place
<1>2. /\ (travel.has => travel.last = place) \/ still <= Mounting
      /\ still <= Spent + Mounting
      /\ AtTheEdge(goal) \/ TakesPortal(goal, ground) => still <= Mounting
  <2>1. CASE still > 0  BY <1>1, <2>1 DEF MarchInv, StillCounted
  <2>2. CASE still = 0  BY <1>1, <2>2, SpentIs
  <2> QED  BY <1>1, <2>1, <2>2
<1>3. /\ Spent \in Nat /\ Mounting \in 0 .. 1 /\ travel \in Samples
      /\ travel.stuck \in 0..(StuckTicks - 1) /\ travel.holds \in Nat
  BY <1>1, SpentIs DEF MarchTyped, Samples
<1>4. Spent' \in Nat /\ Spent' <= 3 * (StuckTicks + 1) - 1 /\ Mounting' \in 0 .. 1
  <2>1. travel'.stuck \in 0..(StuckTicks - 1) /\ travel'.holds \in Nat /\ travel'.has \in BOOLEAN
    BY DEF Samples
  <2>2. /\ Worn(travel'.holds, StuckTicks + 1) \in Nat
        /\ Worn(travel'.holds, StuckTicks + 1) <= 2 * (StuckTicks + 1)
    BY <2>1, Paces DEF Worn
  <2> QED  BY <2>1, <2>2, Paces DEF Spent, Mounting
<1>5. SUFFICES /\ (travel'.has => travel'.last = place) \/ still' <= Mounting'
               /\ still' <= Spent' + Mounting'
               /\ AtTheEdge(goal) \/ TakesPortal(goal, ground) => still' <= Mounting'
  <2>1. still' <= Spent' + Mounting' => still' <= 3 * (StuckTicks + 1) + 1
    <3>1. still' \in Nat  BY <1>1
    <3> QED  BY <1>4, <3>1, Paces, StillBound
  <2>2. (AtTheEdge(goal) <=> AtTheEdge(goal)') /\ (TakesPortal(goal, ground) <=> TakesPortal(goal, ground)')
    BY <1>1 DEF AtTheEdge, TakesPortal, Blocked, Inside
  <2> QED  BY <1>1, <2>1, <2>2 DEF StillCounted
<1>6. CASE MayMount(dist, TRUE) /\ Mounts
  <2>1. ~mounted /\ mounted' = TRUE /\ travel' = travel  BY <1>6 DEF MayMount, Mounts, TryMountBot
  <2>2. Mounting = 0 /\ Mounting' = 1 /\ Spent' = Spent  BY <2>1 DEF Mounting, Spent
  <2> QED  BY <1>1, <1>2, <1>3, <2>1, <2>2
<1>7. CASE Travelled(goal, dist, ground, TRUE)
  <2>1. ~AtTheEdge(goal) /\ ~TakesPortal(goal, ground) /\ Sample(goal, dist, ground)
    BY <1>1, <1>7 DEF Travelled, Crosses, AtTheEdge, TakesPortal
  <2>2. mounted' = mounted /\ (Counts \/ Holds(dist, ground))
    <3>1. Counts \/ Holds(dist, ground) \/ Lands(goal, dist, ground)  BY <1>1, <2>1, SampleIs
    <3>2. ~ Lands(goal, dist, ground)
      <4>1. Landing(dist) < dist /\ Landing(dist) \in Near  BY <1>1, Paces, LandsShort
      <4>2. Lands(goal, dist, ground) => dist' = Landing(dist)  BY DEF Lands, PutDown
      <4>3. Landing(dist) \in Nat  BY <4>1, Paces
      <4> QED  BY <1>1, <4>1, <4>2, <4>3
    <3> QED  BY <3>1, <3>2 DEF Counts, Holds
  <2>3. Mounting' = Mounting  BY <2>2 DEF Mounting
  <2> DEFINE s == Sampled
  <2>4. /\ s \in RawSamples /\ s.has = TRUE /\ s.last = place
        /\ s.stuck = (IF Same THEN travel.stuck + 1 ELSE 0)
        /\ s.holds = (IF travel.has /\ ~Same THEN 0 ELSE travel.holds)
    BY <1>1, SampledIs, SampleFields
  <2> HIDE DEF s
  <2>5. CASE Counts
    <3>1. travel' = s  BY <2>5 DEF Counts, s
    <3>2. Spent' = Worn(s.holds, StuckTicks + 1) + s.stuck + 1  BY <2>4, <3>1, <1>3, Paces DEF Spent, Worn
    <3>3. still' <= Spent' + Mounting'
      <4>1. CASE Same
        <5>1. Spent' = Spent + 1  BY <1>3, <2>4, <3>2, <4>1, Paces DEF Same, Spent, Worn
        <5> QED  BY <1>1, <1>2, <1>3, <2>3, <5>1
      <4>2. CASE ~travel.has
        <5>1. Spent' = Spent + 1  BY <1>3, <2>4, <3>2, <4>2, Paces DEF Same, Spent, Worn
        <5> QED  BY <1>1, <1>2, <1>3, <2>3, <5>1
      <4>3. CASE travel.has /\ ~Same
        <5>1. Spent' = 1  BY <2>4, <3>2, <4>3 DEF Worn
        <5>2. still <= Mounting  BY <1>2, <4>3 DEF Same
        <5> QED  BY <1>1, <1>3, <2>3, <5>1, <5>2
      <4> QED  BY <4>1, <4>2, <4>3
    <3> QED  BY <2>1, <2>4, <3>1, <3>3
  <2>6. CASE Holds(dist, ground)
    <3>1. /\ s.stuck >= StuckTicks /\ dist <= MinDist /\ ~Escalates(s, dist)
          /\ travel' = [s EXCEPT !.stuck = 0, !.has = FALSE, !.last = Nowhere,
                                !.holds = Least(s.holds + 1, HoldCap)]
      BY <1>1, <2>6 DEF Holds, s
    <3>2. Same /\ travel.has /\ travel.stuck = StuckTicks - 1 /\ s.holds = travel.holds
      BY <1>3, <2>4, <3>1, Paces DEF Same
    <3>3. travel.holds <= 1  BY <1>1, <1>3, <3>1, <3>2 DEF Escalates
    <3>4. Least(s.holds + 1, HoldCap) = travel.holds + 1  BY <1>3, <3>2, <3>3, Paces DEF Least
    <3>5. travel'.has = FALSE /\ travel'.holds = travel.holds + 1
      BY <2>4, <3>1, <3>4 DEF RawSamples
    <3>6. Spent' = Spent + 1
      BY <1>3, <3>2, <3>3, <3>5, Paces DEF Spent, Worn
    <3> QED  BY <1>1, <1>2, <1>3, <2>1, <2>3, <3>5, <3>6
  <2> QED  BY <2>2, <2>5, <2>6
<1>8. ~(dist <= ArriveRadius) /\ mood # "combat" /\ mood # "casting"  BY <1>1, Paces
<1>9. (MayMount(dist, TRUE) /\ Mounts) \/ Travelled(goal, dist, ground, TRUE)  BY <1>8 DEF StepBot
<1> QED  BY <1>6, <1>7, <1>9

LEMMA TickCounts ==
  ASSUME MarchInv, NEW full \in BOOLEAN, MarchTick(full)
  PROVE  still' \in Nat /\ StillCounted'
<1>0. /\ MarchTyped /\ LegLeadsOn /\ StillCounted /\ still \in Nat
      /\ still <= 3 * (StuckTicks + 1) + 1 /\ goal \in Goals /\ dist \in DistIn(cell) /\ dist \in Nat
      /\ cell \in Cells
  BY PlaceIs DEF MarchInv, MarchTyped, StillCounted
<1>1. UNCHANGED << goal, defending, mustering, ground, ride >> /\ TypedButStill
  BY <1>0, TickIs, TickLeads
<1>2. ASSUME still' = 0 PROVE still' \in Nat /\ StillCounted'
  BY <1>2, Paces DEF StillCounted
<1>3. ASSUME NEW ts \in Samples, Attacks(ts), still' \in {0, still} PROVE still' \in Nat /\ StillCounted'
  BY <1>0, <1>2, <1>3 DEF Attacks, StillCounted
<1>4. ASSUME ToGoal(TRUE), Counted PROVE still' \in Nat /\ StillCounted'
  <2>1. CASE Statue /\ place' = place
    <3>1. still' = still + 1  BY <1>4, <2>1 DEF Counted
    <3>2. StepBot(goal, dist, ground, TRUE) /\ mood' = mood  BY <1>4 DEF ToGoal, Steps
    <3> QED  BY <1>0, <1>1, <2>1, <3>1, <3>2, StatueCounts DEF TypedButStill
  <2>2. CASE ~(Statue /\ place' = place)  BY <1>2, <1>4, <2>2 DEF Counted
  <2> QED  BY <2>1, <2>2
<1>5. ASSUME mood # "combat", ToGoal(FALSE), still' = still PROVE still' \in Nat /\ StillCounted'
  <2>1. StepBot(goal, dist, ground, FALSE) /\ mood' = mood  BY <1>5 DEF ToGoal, Steps
  <2>2. Stepped(goal, dist, ground)  BY <1>0, <2>1, StepIs
  <2>3. SUFFICES ASSUME still > 0, mood = "idle", dist' > ArriveRadius + 5
                 PROVE  /\ ground.road = "none" /\ ground.clear
                        /\ (travel'.has => travel'.last = place') \/ still <= Mounting'
                        /\ still <= Spent' + Mounting'
                        /\ AtTheEdge(goal)' \/ TakesPortal(goal, ground)' => still <= Mounting'
    BY <1>0, <1>1, <1>5, <2>1 DEF StillCounted
  <2>4. CASE place' = place
    <3>1. cell' = cell /\ dist' = dist  BY <2>4 DEF place
    <3>2. UNCHANGED << travel, mounted >>
      <4>1. ~(dist <= ArriveRadius) /\ mood # "combat" /\ mood # "casting"
        BY <1>0, <2>1, <2>3, <3>1, Paces
      <4>2. Travelled(goal, dist, ground, FALSE)  BY <2>1, <4>1 DEF StepBot, MayMount
      <4>3. ASSUME Crosses("outside"), AtTheEdge(goal) PROVE FALSE
        BY <3>1, <4>3 DEF Crosses, AtTheEdge
      <4>4. ASSUME Crosses("courtAxis"), TakesPortal(goal, ground) PROVE FALSE
        BY <3>1, <4>4 DEF Crosses, TakesPortal
      <4> QED  BY <4>2, <4>3, <4>4 DEF Travelled
    <3> QED  BY <1>0, <1>1, <2>3, <2>4, <3>1, <3>2
             DEF StillCounted, Spent, Mounting, AtTheEdge, TakesPortal, Blocked, Inside
  <2>5. CASE place' # place
    <3>1. PICK c \in {"outside", "courtAxis"} :
            Crosses(c) /\ (AtTheEdge(goal) \/ TakesPortal(goal, ground))
      <4>1. Travelled(goal, dist, ground, FALSE)
        BY <1>0, <2>1, <2>2, <2>3, <2>5 DEF StepBot, Arrives, Mounts, Stand, place
      <4> QED  BY <2>5, <4>1 DEF Travelled, place
    <3>2. cell \in {"tier", "portal"} /\ dist = Far
      BY <1>0, <3>1 DEF AtTheEdge, TakesPortal, DistIn, Goals
    <3>3. still <= Mounting /\ ground.road = "none" /\ ground.clear
      BY <1>0, <2>3, <3>1, <3>2, Paces DEF StillCounted
    <3>4. travel'.has = FALSE /\ mounted' = mounted /\ cell' \in {"outside", "courtAxis"}
      <4>1. travel \in RawSamples  BY <1>0, SampledIs
      <4> QED  BY <3>1, <4>1 DEF Crosses, RawSamples
    <3>5. Mounting' = Mounting /\ Mounting \in 0 .. 1  BY <1>0, <3>4, SpentIs DEF Mounting
    <3>6. Spent' \in Nat
      <4>1. travel'.holds \in Nat  BY <1>1 DEF TypedButStill, Samples
      <4> QED  BY <3>4, <4>1, Paces DEF Spent, Worn
    <3>7. ~AtTheEdge(goal)' /\ ~TakesPortal(goal, ground)'  BY <3>4 DEF AtTheEdge, TakesPortal
    <3>8. still <= Mounting' /\ still <= Spent' + Mounting'
      <4>1. still \in Nat  BY <1>0
      <4>2. still <= Mounting  BY <3>3
      <4>3. still <= Mounting'  BY <3>5, <4>2
      <4>4. Mounting' \in Nat  BY <3>5
      <4>5. \A a, b, e \in Nat : a <= b => a <= e + b  OBVIOUS
      <4> QED  BY <3>6, <4>1, <4>3, <4>4, <4>5
    <3> QED  BY <3>3, <3>4, <3>7, <3>8
  <2> QED  BY <2>4, <2>5
<1> QED  BY <1>0, <1>2, <1>3, <1>4, <1>5, TickIs

-----------------------------------------------------------------------------
(* The engine it drives. *)

LEMMA RideFields ==
  ASSUME ride \in Rides
  PROVE  /\ ride.wedged \in BOOLEAN /\ ride.nearWall \in BOOLEAN /\ ride.has \in BOOLEAN
         /\ ride.exits \in SUBSET Sides /\ ride.exits # {}
         /\ ride.stuck \in 0..(StuckTicks - 1) /\ ride.holds \in Nat /\ ride.jam \in Nat
BY DEF Rides

LEMMA RideTo ==
  ASSUME ride \in Rides, NEW w \in BOOLEAN, NEW h \in BOOLEAN, NEW s \in 0..(StuckTicks - 1),
         NEW n \in Nat, NEW j \in Nat,
         ride' = [ride EXCEPT !.has = h, !.stuck = s, !.holds = n, !.wedged = w, !.jam = j]
  PROVE  /\ ride' \in Rides
         /\ ride'.has = h /\ ride'.stuck = s /\ ride'.holds = n /\ ride'.wedged = w /\ ride'.jam = j
BY DEF Rides

\* The fan is the whole circle at the third try, and there is an exit.
LEMMA FanWidens ==
  ASSUME ride \in Rides, Fan(ride.holds) \cap ride.exits = {}
  PROVE  ride.holds <= 1
<1>1. ride.holds \in Nat /\ ride.exits \subseteq Sides /\ ride.exits # {}  BY RideFields
<1>2. CASE ride.holds >= 2
  <2>1. ride.holds >= 1  BY <1>1, <1>2
  <2>2. Sides \subseteq Fan(ride.holds)  BY <1>2, <2>1 DEF Fan, Sides
  <2> QED  BY <1>1, <2>2
<1> QED  BY <1>1, <1>2

LEMMA JamBound ==
  ASSUME NEW n \in Nat, NEW s \in 0..(StuckTicks - 1), NEW j \in Nat,
         j > 0 => j <= Worn(n, StuckTicks) + s + 1
  PROVE  j <= 3 * StuckTicks
<1>1. Worn(n, StuckTicks) \in Nat /\ Worn(n, StuckTicks) <= 2 * StuckTicks  BY Paces DEF Worn
<1> QED  BY <1>1, Paces

LEMMA WatchCounts ==
  ASSUME ride \in Rides, JamCounted, WatchVehicle
  PROVE  ride' \in Rides /\ JamCounted'
<1> DEFINE st == IF ride.wedged /\ ride.has THEN ride.stuck + 1 ELSE 0
           tries == ~ride.nearWall /\ st >= StuckTicks
           freed == tries /\ Fan(ride.holds) \cap ride.exits # {}
           h == ~ride.nearWall
           s == IF ride.nearWall \/ tries THEN 0 ELSE st
           n == IF ride.nearWall \/ freed THEN 0
                ELSE IF tries THEN Least(ride.holds + 1, HoldCap) ELSE ride.holds
           w == ride.wedged /\ ~freed
           j == IF ride.wedged /\ ~freed /\ ~ride.nearWall THEN ride.jam + 1 ELSE 0
<1>1. ride' = [ride EXCEPT !.has = h, !.stuck = s, !.holds = n, !.wedged = w, !.jam = j]
  BY DEF WatchVehicle
<1>2. /\ ride.wedged \in BOOLEAN /\ ride.nearWall \in BOOLEAN /\ ride.has \in BOOLEAN
      /\ ride.stuck \in Nat /\ ride.stuck <= StuckTicks - 1 /\ ride.holds \in Nat /\ ride.jam \in Nat
  BY RideFields, Paces
<1>3. st \in Nat /\ (st >= StuckTicks => ride.has /\ ride.wedged /\ ride.stuck = StuckTicks - 1)
  BY <1>2, Paces
<1>4. h \in BOOLEAN /\ w \in BOOLEAN  OBVIOUS
<1>5. s \in 0..(StuckTicks - 1)
  <2> HIDE DEF st
  <2> QED  BY <1>3, Paces
<1>6. n \in Nat
  <2> HIDE DEF tries, freed
  <2> QED  BY <1>2, Paces DEF Least
<1>7. j \in Nat  BY <1>2
<1>8. /\ ride' \in Rides /\ ride'.has = h /\ ride'.stuck = s /\ ride'.holds = n
      /\ ride'.wedged = w /\ ride'.jam = j
  <2> HIDE DEF h, s, n, w, j
  <2> QED  BY <1>1, <1>4, <1>5, <1>6, <1>7, RideTo
<1>9. ASSUME j > 0 PROVE h /\ w /\ j <= Worn(n, StuckTicks) + s + 1
  <2>1. h /\ w /\ ride.wedged /\ ~freed /\ j = ride.jam + 1  BY <1>9
  <2>2. CASE ~tries
    <3>1. s = st /\ n = ride.holds  BY <2>1, <2>2
    <3>2. Worn(ride.holds, StuckTicks) \in Nat  BY <1>2, Paces DEF Worn
    <3>3. ride.jam + 1 <= Worn(ride.holds, StuckTicks) + st + 1
      <4>1. CASE ride.jam > 0
        <5>1. ride.has /\ ride.jam <= Worn(ride.holds, StuckTicks) + ride.stuck + 1  BY <4>1 DEF JamCounted
        <5>2. st = ride.stuck + 1  BY <2>1, <5>1
        <5> HIDE DEF st
        <5> QED  BY <1>2, <1>3, <3>2, <5>1, <5>2
      <4>2. CASE ride.jam = 0
        <5> HIDE DEF st
        <5> QED  BY <1>3, <3>2, <4>2
      <4> QED  BY <1>2, <4>1, <4>2
    <3> HIDE DEF s, n, j, h, w, st, tries, freed
    <3> QED  BY <2>1, <3>1, <3>3
  <2>3. CASE tries
    <3>1. ride.has /\ ride.wedged /\ ride.stuck = StuckTicks - 1  BY <1>3, <2>3
    <3>2. ride.holds <= 1  BY <2>1, <2>3, FanWidens
    <3>3. s = 0 /\ n = Least(ride.holds + 1, HoldCap)  BY <2>1, <2>3
    <3>4. n = ride.holds + 1
      <4> HIDE DEF n
      <4> QED  BY <1>2, <3>2, <3>3, Paces DEF Least
    <3>5. ride.jam <= Worn(ride.holds, StuckTicks) + StuckTicks
      <4>1. Worn(ride.holds, StuckTicks) \in Nat  BY <1>2, Paces DEF Worn
      <4> QED  BY <1>2, <3>1, <4>1, Paces DEF JamCounted
    <3>6. Worn(ride.holds + 1, StuckTicks) = Worn(ride.holds, StuckTicks) + StuckTicks
      BY <1>2, <3>2, Paces DEF Worn
    <3>7. ride.jam + 1 <= Worn(ride.holds + 1, StuckTicks) + 0 + 1
      <4>1. Worn(ride.holds, StuckTicks) \in Nat  BY <1>2, Paces DEF Worn
      <4> QED  BY <1>2, <3>5, <3>6, <4>1, Paces
    <3> HIDE DEF s, n, j, h, w, st, tries, freed
    <3> QED  BY <2>1, <3>3, <3>4, <3>7
  <2> QED  BY <2>2, <2>3
<1> HIDE DEF h, s, n, w, j
<1>10. j <= 3 * StuckTicks  BY <1>5, <1>6, <1>7, <1>9, JamBound
<1> QED  BY <1>8, <1>9, <1>10 DEF JamCounted

LEMMA RidesOn ==
  ASSUME ride \in Rides, JamCounted, WatchVehicle \/ Steers \/ DriverLeaves
  PROVE  ride' \in Rides /\ JamCounted'
<1>1. CASE WatchVehicle  BY <1>1, WatchCounts
<1>2. ASSUME ride' \in Rides, ride'.jam = 0 PROVE ride' \in Rides /\ JamCounted'
  BY <1>2, Paces DEF JamCounted
<1>3. CASE Steers
  <2>1. PICK w \in BOOLEAN, near \in BOOLEAN, exits \in (SUBSET Sides) \ {{}} :
          ride' = [ride EXCEPT !.wedged = w, !.nearWall = near, !.exits = exits,
                               !.has = FALSE, !.jam = 0]
    BY <1>3 DEF Steers
  <2>2. ride' \in Rides /\ ride'.jam = 0
    <3>1. exits \in (SUBSET Sides) \ {{}} /\ 0 \in Nat  OBVIOUS
    <3> QED  BY <2>1, <3>1 DEF Rides
  <2> QED  BY <1>2, <2>2
<1>4. CASE DriverLeaves
  <2>1. 0 \in 0..(StuckTicks - 1)  BY Paces
  <2>2. ride' \in Rides /\ ride'.jam = 0  BY <1>4, <2>1 DEF DriverLeaves, Rides
  <2> QED  BY <1>2, <2>2
<1> QED  BY <1>1, <1>3, <1>4

-----------------------------------------------------------------------------
LEMMA MarchBegins ==
  ASSUME MarchInit PROVE MarchInv
<1>1. cell \in Cells /\ goal \in Goals /\ dist \in DistIn(cell) /\ heading = "none" /\ still = 0
      /\ mood = "idle" /\ mounted = FALSE /\ ground \in Grounds /\ order = "none"
      /\ defending \in BOOLEAN /\ mustering \in BOOLEAN /\ travel = NoTravel /\ ride = ParkedEngine
  BY DEF MarchInit
<1>2. 0 \in Nat /\ 0 \in 0..(StuckTicks - 1) /\ 0 \in 0..(DwellTicks - 1)  BY Paces
<1>3. NoTravel \in Samples
  <2>1. Nowhere \in Spots  BY Paces DEF Nowhere, Spots, Cells
  <2> QED  BY <1>2, <2>1 DEF NoTravel, Samples
<1>4. ParkedEngine \in Rides /\ ParkedEngine.jam = 0
  BY <1>2 DEF ParkedEngine, Rides, Sides
<1>5. MarchTyped  BY <1>1, <1>2, <1>3, <1>4 DEF MarchTyped
<1>6. LegLeadsOn  BY <1>1 DEF LegLeadsOn
<1>7. JamCounted  BY <1>1, <1>4, Paces DEF JamCounted
<1>8. StillCounted  BY <1>1, Paces DEF StillCounted
<1> QED  BY <1>5, <1>6, <1>7, <1>8 DEF MarchInv

\* Between two ticks nothing is counted.
LEMMA AtRest ==
  ASSUME still' = 0 PROVE StillCounted'
BY Paces DEF StillCounted

LEMMA MarchStep ==
  ASSUME MarchInv, MarchNext
  PROVE  MarchInv' /\ CrossingAdvances /\ GatheringStaysIn
<1>0. /\ MarchTyped /\ LegLeadsOn /\ JamCounted /\ StillCounted
      /\ cell \in Cells /\ goal \in Goals /\ dist \in DistIn(cell)
      /\ defending \in BOOLEAN /\ mustering \in BOOLEAN /\ mounted \in BOOLEAN
      /\ mood \in {"idle", "combat", "casting"} /\ ground \in Grounds
      /\ heading \in Cells \cup {"none"} /\ order \in {"none", "goal", "chase"}
      /\ travel \in Samples /\ still \in Nat /\ ride \in Rides /\ 0 \in Nat
  BY DEF MarchInv, MarchTyped
<1>1. ride' = ride => JamCounted'  BY <1>0 DEF JamCounted
<1>2. CASE Walks
  <2>1. /\ cell' \in Cells /\ cell' = heading /\ heading # "none" /\ dist' \in DistIn(cell')
        /\ goal' = goal
    BY <1>0, <1>2 DEF Walks
  <2>2. MarchTyped'
    <3>1. /\ heading' = "none" /\ still' = 0 /\ ground' \in Grounds
          /\ UNCHANGED << goal, defending, mustering, mood, mounted, travel, order, ride >>
      BY <1>2 DEF Walks
    <3>2. (dist \in DistIn(cell))'
      BY <2>1 DEF DistIn
    <3> QED  BY <1>0, <2>1, <3>1, <3>2 DEF MarchTyped
  <2>3. LegLeadsOn'  BY <1>2 DEF Walks, LegLeadsOn
  <2>4. CrossingAdvances  BY <1>0, <1>2, <2>1 DEF Walks, LegLeadsOn, Misled, CrossingAdvances
  <2>5. GatheringStaysIn  BY <1>0, <1>2, <2>1 DEF Walks, LegLeadsOn, GatheringStaysIn
  <2> QED  BY <1>1, <1>2, <2>2, <2>3, <2>4, <2>5, AtRest DEF Walks, MarchInv
<1>3. CASE Distracted
  <2>1. MarchTyped'
    <3>1. /\ heading' = "none" /\ still' = 0 /\ mood' \in {"idle", "combat", "casting"}
          /\ mounted' \in BOOLEAN
          /\ UNCHANGED << cell, dist, goal, defending, mustering, ground, travel, order, ride >>
      BY <1>0, <1>3 DEF Distracted
    <3> QED  BY <1>0, <3>1 DEF MarchTyped, DistIn
  <2>2. LegLeadsOn'  BY <1>3 DEF Distracted, LegLeadsOn
  <2>3. CrossingAdvances /\ GatheringStaysIn
    BY <1>3 DEF Distracted, CrossingAdvances, GatheringStaysIn
  <2> QED  BY <1>1, <1>3, <2>1, <2>2, <2>3, AtRest DEF Distracted, MarchInv
<1>4. CASE GroundChanges
  <2>1. MarchTyped'
    <3>1. /\ ground' \in Grounds /\ mustering' \in BOOLEAN /\ still' = 0
          /\ UNCHANGED << cell, dist, goal, defending, mood, mounted, heading, travel, order, ride >>
      BY <1>0, <1>4 DEF GroundChanges
    <3> QED  BY <1>0, <3>1 DEF MarchTyped, DistIn
  <2>2. LegLeadsOn'  BY <1>0, <1>4 DEF GroundChanges, LegLeadsOn, Misled, Crossings, Inside
  <2>3. CrossingAdvances /\ GatheringStaysIn
    BY <1>4 DEF GroundChanges, CrossingAdvances, GatheringStaysIn
  <2> QED  BY <1>1, <1>4, <2>1, <2>2, <2>3, AtRest DEF GroundChanges, MarchInv
<1>5. ASSUME NEW full \in BOOLEAN, MarchTick(full)
      PROVE  MarchInv' /\ CrossingAdvances /\ GatheringStaysIn
  <2>1. Led /\ TypedButStill  BY <1>0, <1>5, TickLeads
  <2>2. still' \in Nat /\ StillCounted'  BY <1>5, TickCounts
  <2>3. ride' = ride  BY <1>5 DEF MarchTick
  <2>4. MarchTyped'
    <3>1. (dist \in DistIn(cell))'  BY <2>1 DEF TypedButStill, DistIn
    <3> QED  BY <1>0, <2>1, <2>2, <2>3, <3>1 DEF TypedButStill, MarchTyped
  <2> QED  BY <1>1, <2>1, <2>2, <2>3, <2>4 DEF Led, MarchInv
<1>6. CASE Drives
  <2>1. ride' \in Rides /\ JamCounted'  BY <1>0, <1>6, RidesOn DEF Drives
  <2>2. UNCHANGED << cell, dist, goal, defending, mustering, mood, mounted, ground, heading,
                     travel, order, still >>
    BY <1>6 DEF Drives
  <2>3. MarchTyped'  BY <1>0, <2>1, <2>2 DEF MarchTyped, DistIn
  <2>4. LegLeadsOn'  BY <1>0, <2>2 DEF LegLeadsOn, Misled, Crossings, Inside
  <2>5. StillCounted'
    BY <1>0, <2>2 DEF StillCounted, Spent, Mounting, place, AtTheEdge, TakesPortal, Blocked, Inside
  <2>6. CrossingAdvances /\ GatheringStaysIn
    BY <2>2 DEF CrossingAdvances, GatheringStaysIn
  <2> QED  BY <2>1, <2>3, <2>4, <2>5, <2>6 DEF MarchInv
<1> QED  BY <1>2, <1>3, <1>4, <1>5, <1>6 DEF MarchNext, Marches

LEMMA MarchStutters ==
  ASSUME MarchInv, UNCHANGED marchVars PROVE MarchInv'
BY DEF MarchInv, MarchTyped, LegLeadsOn, Misled, JamCounted, StillCounted, marchVars, DistIn, Spent,
       Mounting, place, AtTheEdge, TakesPortal, Blocked, Inside, Crossings

\* A defender's order leads it nearer to its objective by the keep's real exits
\* and never back, a gathering one stays in the keep, and a stuck bot or a
\* wedged engine is moved within three stuck periods, for any distances, radii
\* and periods (StepBot, ComputeLegWaypoint, WatchVehicle).
THEOREM MarchAdvances == MarchSpec => NoPingPong
<1>1. MarchInit => MarchInv  BY MarchBegins
<1>2. MarchInv /\ [MarchNext]_marchVars => MarchInv'  BY MarchStep, MarchStutters
<1>3. MarchInv /\ MarchInv' /\ [MarchNext]_marchVars
        => [CrossingAdvances /\ GatheringStaysIn /\ StatueBounded']_marchVars
  <2>1. MarchInv' => StatueBounded'  BY DEF MarchInv, StillCounted, JamCounted, StatueBounded
  <2> QED  BY <2>1, MarchStep
<1> QED  BY <1>1, <1>2, <1>3, PTL DEF MarchSpec, NoPingPong
=============================================================================
