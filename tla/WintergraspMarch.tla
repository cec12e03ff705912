--------------------------- MODULE WintergraspMarch ---------------------------
(***************************************************************************)
(* One managed bot on its way to its objective: StepBot of                 *)
(* WintergraspBotsDirector.cpp, called by MovementTick every second and by *)
(* Reconcile on the full tick.  The way is a chain of legs the navmesh     *)
(* offers; a defender crosses the keep by its real exits (arch, rampart    *)
(* jump, portal); a bot that stays put is sampled on full ticks and, when  *)
(* stuck, put down short of its objective.                                 *)
(*                                                                         *)
(* The ground is cells; within the cell of the objective the distance to   *)
(* it matters, in yards, everywhere else the objective is Far.             *)
(***************************************************************************)
EXTENDS Integers

CONSTANTS Near,         \* the distances a bot may stand at in the goal's cell
          Far,          \* the distance from any other cell
          ArriveRadius, MinDist, Short, MountMin,   \* yards
          StuckTicks,   \* full ticks without progress until a bot is stuck
          DwellTicks,
          HoldCap       \* holds counted at most (uint8 in the code)

ASSUME MarchAssumption ==
  /\ Near \subseteq Nat /\ {Far, ArriveRadius, MinDist, Short, MountMin} \subseteq Nat
  /\ 0 \in Near /\ \A d \in Near : d < Far
  /\ ArriveRadius + 5 < Far
  /\ {StuckTicks, DwellTicks, HoldCap} \subseteq Nat \ {0} /\ HoldCap > 3

VARIABLES
  cell, dist,    \* where the bot stands
  goal,          \* the cell of its objective
  defending,     \* it is of the defending team
  mustering,     \* and its sortie has not been let out
  mood,          \* "idle", "combat" or "casting"
  mounted,
  ground,        \* road: what ComputeLegWaypoint finds towards the objective;
                 \* clear: no structure stands between the two
  heading,       \* where the last MovePoint leads
  travel,        \* TravelState: has, last, stuck, holds, dwell
  order,         \* what the last leg was meant for: "goal", "chase" or "none"
  still,         \* consecutive full ticks an idle bot had nowhere to walk
  ride           \* a driven engine: [wedged, nearWall, exits, has, stuck, holds, jam]

marchVars == << cell, dist, goal, defending, mustering, mood, mounted, ground, heading,
                travel, order, still, ride >>
place == << cell, dist >>

\* The ground as StepBot divides it.  The defender portals stand before the
\* walls: four where it counts as outside ("portal"), six within the keep's box,
\* west and east of the mid wall ("alley", "backAlley").
Courts == {"court", "courtAxis", "east", "eastAxis"}
Alleys == {"alley", "backAlley"}
Cells == {"outside", "portal", "tier"} \cup Courts \cup Alleys
Goals == {"outside", "court", "east"}
Inside(c) == c \in Courts \cup Alleys
East(c) == c \in {"east", "eastAxis", "backAlley"}
OnAxis(c) == c \in {"courtAxis", "eastAxis"}
Axis(east) == IF east THEN "eastAxis" ELSE "courtAxis"

Grounds == [road : {"open", "cut", "none"}, clear : BOOLEAN]
Nowhere == << "outside", Far >>   \* the last sample counts only when has is set
NoTravel == [has |-> FALSE, last |-> Nowhere, stuck |-> 0, holds |-> 0, dwell |-> 0]
DistIn(c) == IF c = goal THEN Near ELSE {Far}

MarchTypeOK ==
  /\ cell \in Cells /\ dist \in DistIn(cell) /\ goal \in Goals
  /\ heading \in Cells \cup {"none"} /\ mood \in {"idle", "combat", "casting"}
  /\ ground \in Grounds /\ {defending, mustering, mounted} \subseteq BOOLEAN
  /\ travel.stuck \in 0..(StuckTicks - 1) /\ travel.dwell \in 0..(DwellTicks - 1)

-----------------------------------------------------------------------------
\* On the rampart, bound for the open field: the drop off the wall.
AtTheEdgeInBox(to) == defending /\ cell = "tier" /\ Inside(cell) /\ ~Inside(to)
AtTheEdge(to) == defending /\ cell = "tier" /\ ~Inside(to)

\* Where a defender without a clear leg may turn: through the arch, up the
\* rampart, or to the nearest portal: of either kind from the field, outside
\* the box from the rampart.  One before the walls that
\* counts as inside turns to the arch or the rampart, or holds its course.
Via(to) ==
  CASE Inside(cell) /\ East(cell) # East(to) ->
         {IF OnAxis(cell) THEN Axis(~East(cell)) ELSE Axis(East(cell))}
    [] Inside(cell) /\ East(cell) = East(to) /\ ~Inside(to) -> {"tier"}
    [] ~Inside(cell) /\ Inside(to) -> {"portal"} \cup (IF cell = "outside" THEN Alleys ELSE {})
    [] OTHER -> {}
Blocked(gr) == gr.road # "open"
\* Within reach of a portal, and not within the box.
TakesPortal(to, gr) == defending /\ Blocked(gr) /\ cell = "portal" /\ Inside(to)

\* The end of a side step, or of a leg cut short: nothing parts an alley from
\* the field.
Beside(c) == IF c \in Alleys THEN {c, "outside"} ELSE {c}

\* The leg MovePoint gets: towards the objective, by way of Via, a side step,
\* or none at all.
NextHeading(to, gr) ==
  IF defending /\ Blocked(gr) /\ Via(to) # {} THEN Via(to) \cup Beside(cell) \cup {"none"}
  ELSE IF gr.road = "none" THEN Beside(cell) \cup {"none"}
  ELSE IF gr.road = "cut" THEN Beside(cell) ELSE {to}

Stand(s) == travel' = s /\ UNCHANGED << cell, dist, mounted, heading >>

Least(a, b) == IF a <= b THEN a ELSE b
Greatest(a, b) == IF a >= b THEN a ELSE b

\* The unstick teleport stops short of the objective: std::clamp of the
\* distance beyond the arrival radius between half the way and Short.
ShortBy(d) ==
  LET floor == Least(d \div 2, ArriveRadius)
  IN Least(Greatest(d - ArriveRadius - 2, floor), Short)
Landing(d) == LET fit == {e \in Near : e <= ShortBy(d)} IN
              CHOOSE e \in fit : \A f \in fit : f <= e
PutDown(to, d) == cell' = to /\ dist' = IF to = goal THEN Landing(d) ELSE Far

\* The third withheld unstick is carried out, unless the bot nearly arrived.
Escalates(s, d) == s.holds + 1 >= 3 /\ d > ArriveRadius + 5

Sampled ==
  LET same == travel.has /\ travel.last = place
  IN [travel EXCEPT !.has = TRUE, !.last = place,
                    !.stuck = IF same THEN @ + 1 ELSE 0,
                    !.holds = IF travel.has /\ ~same THEN 0 ELSE @]

Unstick(s, to, d, clear) ==
  LET near == d <= MinDist
      held == [s EXCEPT !.stuck = 0, !.has = FALSE, !.last = Nowhere,
                        !.holds = IF clear /\ near THEN Least(s.holds + 1, HoldCap)
                                  ELSE s.holds]
  IN IF clear /\ (~near \/ Escalates(s, d))
     THEN travel' = [held EXCEPT !.holds = 0] /\ PutDown(to, d) /\ UNCHANGED mounted
     ELSE travel' = held /\ UNCHANGED << cell, dist, mounted >>

Sample(to, d, gr) ==
  IF Sampled.stuck >= StuckTicks THEN Unstick(Sampled, to, d, gr.clear)
  ELSE travel' = Sampled /\ UNCHANGED << cell, dist, mounted >>

Crosses(c) ==
  /\ cell' = c /\ dist' \in DistIn(c) /\ heading' = "none"
  /\ travel' = [travel EXCEPT !.stuck = 0, !.has = FALSE, !.last = Nowhere]
  /\ UNCHANGED mounted

\* The rest of StepBot: jump, portal, or a leg and then the sampling.
Travelled(to, d, gr, full) ==
  \/ AtTheEdge(to) /\ Crosses("outside")
  \/ ~AtTheEdge(to) /\ TakesPortal(to, gr) /\ Crosses("courtAxis")
  \/ /\ ~AtTheEdge(to) /\ ~TakesPortal(to, gr)
     /\ IF full THEN Sample(to, d, gr) ELSE UNCHANGED << travel, cell, dist, mounted >>
     /\ heading' \in IF place' = place THEN NextHeading(to, gr) ELSE {"none"}

\* A long way on foot: mount before walking on the full tick.
MayMount(d, full) == full /\ ~mounted /\ d > MountMin
\* An instant cast of the best ground mount; it fails indoors and for a bot
\* without one, which goes on as Travelled.
TryMountBot == mounted' = TRUE
Mounts == TryMountBot /\ heading' = "none" /\ UNCHANGED << cell, dist, travel >>

\* At its post: every dwell period a stroll around it, when the mesh has one
\* and the post is not a crew's or a factory's.
Arrives(full) ==
  LET dwells == full /\ mood = "idle" /\ heading = "none"
  IN /\ \E at \in {travel.dwell, IF dwells THEN (travel.dwell + 1) % DwellTicks ELSE travel.dwell} :
          travel' = [travel EXCEPT !.stuck = 0, !.holds = 0, !.has = FALSE, !.last = Nowhere,
                                   !.dwell = at]
     /\ heading' \in IF dwells /\ travel.dwell + 1 = DwellTicks /\ travel'.dwell = 0
                     THEN {"none", cell} ELSE {heading}
     /\ UNCHANGED << cell, dist, mounted >>

\* One step towards an objective in cell `to`, d yards away.
StepBot(to, d, gr, full) ==
  LET arrived == d <= ArriveRadius IN
  \/ mood = "combat" /\ Stand([travel EXCEPT !.stuck = 0, !.has = FALSE, !.last = Nowhere])
  \/ mood # "combat" /\ arrived /\ Arrives(full)
  \/ mood = "casting" /\ ~arrived /\ Stand(travel)
  \/ mood = "idle" /\ ~arrived /\ MayMount(d, full) /\ Mounts
  \/ mood = "idle" /\ ~arrived /\ Travelled(to, d, gr, full)

\* EngageNearbyEnemy.  What may be around: an engine in sight, one behind a
\* wall or farther off, a cannon within or beyond its short range, a player on
\* foot.  An engine in sight comes first; a cannon is for ranged bots only;
\* nothing but an engine is chased.
Sightings == {"engine", "hidden", "cannon", "highCannon", "player"}
Fights(around, melee) ==
  LET rest == around \cap ({"player"} \cup IF melee THEN {} ELSE {"cannon"})
  IN IF "engine" \in around THEN {"engine"} ELSE rest
EngageNearbyEnemy(around, melee) ==
  CASE Fights(around, melee) # {} -> "attack"
    [] Fights(around, melee) = {} /\ "hidden" \in around -> "chase"
    [] OTHER -> "nothing"
Engagements(kinds) == {EngageNearbyEnemy(s, m) : s \in SUBSET kinds, m \in BOOLEAN}

Attacks(ts) == mood' = "combat" /\ travel' = ts /\ heading' = "none" /\ order' = "none"
           /\ UNCHANGED << cell, dist, mounted >>

\* A gathering defender is not lured out of the keep by what it cannot see.
MusterHold == defending /\ mustering /\ Inside(cell)

\* The order of the tick: the objective, or a hidden engine somewhere else.
Steps(to, d, gr, full, why) ==
  /\ StepBot(to, d, gr, full) /\ UNCHANGED mood
  /\ order' = IF heading' # heading \/ place' # place THEN why ELSE order
ToGoal(full) == Steps(goal, dist, ground, full, "goal")
Diverted ==
  \E to \in {"outside", "court"}, d \in Near \cup {Far}, gr \in Grounds :
    (to = cell) = (d # Far) /\ Steps(to, d, gr, TRUE, "chase")

\* The bot is in the open, idle, and the ground offers it no way.
Statue == mood = "idle" /\ dist > ArriveRadius + 5 /\ ground.road = "none" /\ ground.clear
Counted == still' = IF Statue /\ place' = place THEN still + 1 ELSE 0

FullTick ==
  \/ mood = "combat" /\ ToGoal(TRUE) /\ Counted
  \/ /\ mood # "combat"
     /\ \E found \in Engagements(Sightings) :
          \/ found = "attack" /\ Attacks(NoTravel) /\ still' = 0
          \/ found = "chase" /\ ~MusterHold /\ Diverted /\ still' = 0
          \/ (found = "chase" => MusterHold) /\ found # "attack" /\ ToGoal(TRUE) /\ Counted

\* MovementTick: nobody on foot is looked for, and only defenders look; a moving
\* bot goes on.
MoveTick ==
  /\ mood # "combat" /\ UNCHANGED still
  /\ \/ defending /\ "attack" \in Engagements(Sightings \ {"player"}) /\ Attacks(travel)
     \/ heading = "none" /\ ToGoal(FALSE)

MarchTick(full) ==
  /\ IF full THEN FullTick ELSE MoveTick
  /\ UNCHANGED << goal, defending, mustering, ground, ride >>

-----------------------------------------------------------------------------
\* WatchVehicle: a driven engine that stays put is moved off in the first
\* direction that is clear, out of a fan that widens with each failure.  Near
\* a wall that still stands it may be firing, and is left alone.
Sides == {"ahead", "aside", "back"}
ParkedEngine == [wedged |-> FALSE, nearWall |-> FALSE, exits |-> Sides,
                 has |-> FALSE, stuck |-> 0, holds |-> 0, jam |-> 0]
Fan(holds) ==
  {"ahead"} \cup (IF holds >= 1 THEN {"aside"} ELSE {})
            \cup (IF holds >= 2 THEN {"back"} ELSE {})

WatchVehicle ==
  LET stuck == IF ride.wedged /\ ride.has THEN ride.stuck + 1 ELSE 0
      tries == ~ride.nearWall /\ stuck >= StuckTicks
      freed == tries /\ Fan(ride.holds) \cap ride.exits # {}
  IN ride' = [ride EXCEPT
       !.has = ~ride.nearWall,
       !.stuck = IF ride.nearWall \/ tries THEN 0 ELSE stuck,
       !.holds = IF ride.nearWall \/ freed THEN 0
                 ELSE IF tries THEN Least(@ + 1, HoldCap) ELSE @,
       !.wedged = @ /\ ~freed,
       !.jam = IF ride.wedged /\ ~freed /\ ~ride.nearWall THEN @ + 1 ELSE 0]

\* Its driver steers it somewhere else, so that the next sample starts afresh,
\* or gets out, and the samples are forgotten.
Steers ==
  \E w, near \in BOOLEAN, exits \in (SUBSET Sides) \ {{}} :
    ride' = [ride EXCEPT !.wedged = w, !.nearWall = near, !.exits = exits,
                             !.has = FALSE, !.jam = 0]
DriverLeaves ==
  ride' = [ride EXCEPT !.has = FALSE, !.stuck = 0, !.holds = 0, !.jam = 0]

Drives ==
  /\ WatchVehicle \/ Steers \/ DriverLeaves
  /\ UNCHANGED << cell, dist, goal, defending, mustering, mood, mounted, ground, heading,
                  travel, order, still >>

-----------------------------------------------------------------------------
\* What happens to a bot between two ticks.

\* It walks to the end of its leg; the ground is another there.
Walks ==
  /\ heading # "none" /\ mood = "idle" /\ ground.road # "none"
  /\ cell' = heading /\ dist' \in DistIn(heading)
  /\ heading' = "none" /\ still' = 0
  /\ ground' \in Grounds
  /\ UNCHANGED << goal, defending, mustering, mood, mounted, travel, order, ride >>

\* A fight, a cast or a dismount of playerbots' own.
Distracted ==
  /\ mood' \in {"idle", "combat", "casting"} /\ mood' # mood
  /\ mounted' = (mounted /\ mood' # "combat")
  /\ still' = 0 /\ heading' = "none"
  /\ UNCHANGED << cell, dist, goal, defending, mustering, ground, travel, order, ride >>

\* Walls fall and open the way; the sortie is let out.
GroundChanges ==
  /\ ground' \in Grounds /\ mustering' \in {FALSE, mustering}
  /\ still' = 0
  /\ UNCHANGED << cell, dist, goal, defending, mood, mounted, heading, travel, order, ride >>

MarchInit ==
  /\ cell \in Cells /\ goal \in Goals /\ defending \in BOOLEAN /\ mustering \in BOOLEAN
  /\ dist \in DistIn(cell)
  /\ mood = "idle" /\ mounted = FALSE /\ ground \in Grounds
  /\ heading = "none" /\ travel = NoTravel /\ order = "none" /\ still = 0
  /\ ride = ParkedEngine

Marches == Walks \/ Distracted \/ GroundChanges \/ \E full \in BOOLEAN : MarchTick(full)
MarchNext == Marches \/ Drives
MarchSpec == MarchInit /\ [][MarchNext]_marchVars

-----------------------------------------------------------------------------
\* An idle bot in the open that can walk nowhere is put down elsewhere after
\* at most three stuck periods: one to start the sample and StuckTicks to
\* fill it, three times over inside MinDist, and one tick to mount.  A wedged
\* engine with any way out is moved at the third attempt.
StatueBounded ==
  /\ still <= 3 * (StuckTicks + 1) + 1
  /\ ride.jam <= 3 * StuckTicks

\* How far a defender still is from its goal, in crossings.
Crossings(c, g) ==
  IF c = g THEN 0 ELSE
  CASE g = "outside" -> CASE c = "portal" -> 1 [] c = "tier" -> 2 [] c = "courtAxis" -> 3
                          [] c = "court" -> 3 [] c = "eastAxis" -> 4 [] OTHER -> 5
    [] g = "court" -> CASE c = "courtAxis" -> 1 [] c = "eastAxis" -> 2 [] c = "east" -> 3
                        [] c = "portal" -> 4 [] OTHER -> 5
    [] OTHER -> CASE c = "eastAxis" -> 1 [] c = "courtAxis" -> 2 [] c = "court" -> 3
                  [] c = "portal" -> 4 [] OTHER -> 5

\* To the wrong kind of portal: where the box lets it take none.
Misled(c) == cell = "outside" /\ Inside(goal) /\ c \in Alleys

\* A defender's order leads it nearer, by jump, portal, teleport or leg, or to
\* a portal within the box; and it does not stand and wait at the rampart's edge.
CrossingAdvances ==
  order' = "goal" /\ defending /\ cell \notin Alleys =>
    /\ cell' # cell => Misled(cell') \/ Crossings(cell', goal) < Crossings(cell, goal)
    /\ heading' \notin {heading, "none", cell'} =>
         Misled(heading') \/ Crossings(heading', goal) < Crossings(cell, goal)
    /\ ~(cell = "tier" /\ goal = "outside" /\ heading' # heading /\ heading' = "tier")

\* While the sortie gathers, a defender whose post is in the keep stays there.
GatheringStaysIn ==
  defending /\ mustering /\ Inside(goal) /\ cell \in Courts => cell' \in Courts

\* The way through the arch, over the rampart and by the four portals outside
\* the keep's box has no circle and no dead end: no step leads a defender back,
\* what shells the wall from behind it is not chased over the rampart while the
\* sortie gathers, and neither a stuck bot in the open nor a wedged engine is
\* left standing.  The six other portals are such dead ends: a defender near one
\* counts as inside and is not ported (StepBot, ComputeLegWaypoint, WatchVehicle).
NoPingPong ==
  [][CrossingAdvances /\ GatheringStaysIn /\ StatueBounded']_marchVars
=============================================================================
