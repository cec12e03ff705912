---------------------------- MODULE MCWintergrasp ----------------------------
(***************************************************************************)
(* The battle director on small instances.  What the battle does between   *)
(* two ticks is split into scenarios: in each one part of the field moves  *)
(* and the rest stands still, while the director runs whole; guards fall,  *)
(* fail to spawn or are missed by a despawn in the garrison scenario only. *)
(***************************************************************************)
EXTENDS WintergraspVacancy, WintergraspMarch

CONSTANTS a1, a2, d1, d2, d3, Scenarios

VARIABLE scenario

MCVars == << watched, marchVars, scenario >>

MCBots == {a1, a2, d1, d2, d3}
MCTeamOf == [b \in MCBots |-> IF b \in {a1, a2} THEN "alliance" ELSE "horde"]

\* Who comes to the field, and where they go.
Cast(s) ==
  CASE s = "frontier" -> {a1, d1}
    [] s = "muster" -> {a1, d1, d2, d3}
    [] s = "field" -> {a1, a2}
    [] s = "engine" -> {a1, d1}
    [] s = "garrison" -> {a1}
    [] OTHER -> {}
Haunts(s, b) ==
  CASE s = "frontier" -> IF b = a1 THEN {"temple", "gate", "court", "flank", "relic"} ELSE {"flank"}
    [] s = "muster" -> CASE b = a1 -> {"gate"} [] b = d2 -> {"muster"} [] b = d3 -> {} [] OTHER -> {"gate", "muster"}
    [] s = "field" -> {"ring"}
    [] s = "engine" -> {"ring", "gate"}
    [] OTHER -> {}

Start(s) ==
  /\ BattleStarts
  /\ s # "frontier" => attacker' = "alliance"
  /\ s # "field" => owner' = [w \in Workshops |-> IF w = "ring" THEN attacker' ELSE Other(attacker')]

Comes(s, b) == BotArrives(b) /\ (s # "frontier" => bot[b].place = "away")
Wanders(s, b) == \E p \in Haunts(s, b) : BotWalks(b, p)

Moves(s) ==
  \/ Start(s)
  \/ BattleEnds
  \/ \E b \in Cast(s) : Comes(s, b) \/ Wanders(s, b)
  \/ s = "frontier" /\ (WallFalls \/ BotLeaves(a1))
  \/ s = "muster" /\ \/ WallHit \/ EngineBuilt(a1)
                     \/ UNCHANGED fallen /\ (HandleHitCast \/ HandleSiegeFire)
  \/ s = "field" /\ \/ \E w \in Workshops : WorkshopFlips(w) /\ owner'["temple"] # "none"
                    \/ HandleGrantRank \/ \E b \in {a1, a2} : Promoted(b)
  \/ s = "garrison" /\ (WorkshopFlips("ring") \/ \E w \in Workshops : GuardDies(w) \/ StrayMoves(w))
  \/ s = "engine" /\ \/ EngineBuilt(a1) \/ HandleSiegeTest(a1) \/ HandleSiegePrep(a1)
                     \/ EngineDeserted \/ RiderMoves \/ BotDies(a1) \/ BotRevives(a1)
                     \/ \E p \in {"ring", "gate"} : EngineDrives(p)

\* In the march scenario a bot walks on its own, in the bay scenario an
\* engine is driven, and the battle waits.
MarchRests ==
  /\ cell = "court" /\ goal = "court" /\ dist = 0 /\ ground = [road |-> "open", clear |-> TRUE]
  /\ defending /\ ~mustering
March ==
  /\ \/ scenario = "march" /\ Marches
     \/ scenario = "bay" /\ Drives
  /\ UNCHANGED << vars, scenario, vacant >>

MCInit ==
  /\ scenario \in Scenarios
  /\ MarchInit /\ (IF scenario = "march" THEN goal # "court" /\ (~defending => goal = "east" /\ ~mustering) ELSE MarchRests)
  /\ Init /\ vacant = 0
  /\ \A b \in Bots : bot[b].alive = (b \in Cast(scenario))

AtFullStrength ==
  /\ strays' = strays
  /\ guards' \in {guards, [w \in Workshops |-> 0],
                  [w \in Workshops |-> IF Flipped(w) THEN SquadSize ELSE guards[w]]}
Fight ==
  /\ \/ scenario \notin {"march", "bay"} /\ Moves(scenario)
     \/ scenario = "garrison" /\ OnUpdate
     \/ scenario \notin {"garrison", "march", "bay"} /\ AtFullStrength /\ OnUpdate
  /\ UNCHANGED << marchVars, scenario >>
  /\ Watch
MCNext == Fight \/ March
MCSpec == MCInit /\ [][MCNext]_MCVars
=============================================================================
