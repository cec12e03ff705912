-------------------------- MODULE WintergraspField --------------------------
(***************************************************************************)
(* The ground of Wintergrasp as mod-wintergrasp-bots sees it: the named    *)
(* anchors of WintergraspBotsDirector.cpp in tens of yards, the keep's     *)
(* footprint, its axis and its wall lines, and the breach frontier that    *)
(* EnforceBreachFrontier holds bots to.                                    *)
(***************************************************************************)
EXTENDS Integers, Sequences, FiniteSets

Teams == {"alliance", "horde"}
Other(t) == IF t = "alliance" THEN "horde" ELSE "alliance"

\* WG_WORKSHOPS (two of the four), and the order the planners scan them in.
Workshops == {"ring", "temple"}
WorkshopOrder(W) == (IF "ring" \in W THEN << "ring" >> ELSE << >>)
                 \o (IF "temple" \in W THEN << "temple" >> ELSE << >>)

At ==
  [ ring   |-> <<495, 243>>, temple |-> <<495, 334>>,
    gate   |-> <<514, 284>>,   \* WG_ATTACKER_PUSH[0], outside the fortress door
    muster |-> <<518, 285>>,   \* WG_MUSTER
    post   |-> <<519, 292>>,   \* WG_CANNON_POSTS[0], north gatehouse
    spost  |-> <<518, 277>>,   \* WG_CANNON_POSTS[1], south gatehouse
    court  |-> <<524, 284>>,   \* WG_ATTACKER_PUSH[1] and WG_PORTAL_DEST
    flank  |-> <<527, 290>>,   \* on the mid wall, off the axis
    center |-> <<531, 279>>,   \* the battle center that picks are sent to
    inner  |-> <<536, 284>>,   \* WG_ATTACKER_PUSH[2] and WG_DEFENDER_ANCHOR
    relic  |-> <<544, 284>> ]  \* WG_RELIC_ANCHOR
Ground == DOMAIN At

\* A bot is on the ground, in another zone, or between two maps.
Places == Ground \cup {"away", "flight"}

Abs(n) == IF n < 0 THEN -n ELSE n
Squares == [p \in Ground |-> [q \in Ground |->
              (At[p][1] - At[q][1]) * (At[p][1] - At[q][1])
            + (At[p][2] - At[q][2]) * (At[p][2] - At[q][2])]]
Dist2(p, q) == Squares[p][q]
Within(p, q, r) == Dist2(p, q) <= r * r

KeepGate == "gate"
\* Cell::Visit clamps every search to one grid, about 533 yards.
InSight(p, q) == Within(p, q, 53)

IsInsideKeep(p) ==
  /\ At[p][1] > 516 /\ At[p][1] < 550
  /\ At[p][2] > 263 /\ At[p][2] < 305

OffAxis(p) == Abs(At[p][2] - 284) > 3
MidWallX  == 527
LastDoorX == 539
OpenX(stage) == IF stage >= 2 THEN LastDoorX ELSE IF stage = 1 THEN MidWallX ELSE 0

AttackerPush(stage) == << "gate", "court", "inner" >>[stage + 1]
DefenderAnchor == "inner"

\* An attacker inside the keep belongs in the corridor, no deeper than the
\* openings reach.
AttackerBeyond(p, stage) ==
  /\ IsInsideKeep(p)
  /\ OffAxis(p) \/ At[p][1] > OpenX(stage)

\* A defender off the axis on the line of a wall that still stands.
DefenderCrossing(p, stage) ==
  /\ OffAxis(p) /\ Abs(At[p][2] - 284) < 12
  /\ \/ stage < 2 /\ Abs(At[p][1] - MidWallX) < 3
     \/ Abs(At[p][1] - LastDoorX) < 3

\* EnforceBreachFrontier: where a bot of the attacking (or defending) team is
\* put back to, its own place when it stands legally.
Frontier(p, attacking, stage, open) ==
  CASE open -> p
    [] ~open /\ attacking /\ AttackerBeyond(p, stage) -> AttackerPush(stage)
    [] ~open /\ ~attacking /\ DefenderCrossing(p, stage) -> DefenderAnchor
    [] OTHER -> p
=============================================================================
