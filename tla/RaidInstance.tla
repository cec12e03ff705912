---------------------------- MODULE RaidInstance ----------------------------
(***************************************************************************)
(* A raid instance: the health of its creatures (RaidScaling) and whose    *)
(* creatures they are (RaidEncounter), which is used under a name since    *)
(* both share hooks and commands.                                          *)
(***************************************************************************)
EXTENDS RaidScaling, FiniteSets

CONSTANTS Npcs, Things, Players, Spawned, Elites, Critters, Pooled, Recipes, Depth, Budget, Whole, Half, MaxAmount

VARIABLES there, links, charmed, mood, origin, scaled, dead, waiting, boss, on, binds, kin
encounter == << there, links, charmed, mood, origin, scaled, dead, waiting, boss, on, binds, kin >>

Encounter == INSTANCE RaidEncounter

ASSUME EncounterAssumption == Encounter!EncounterAssumption

\* What descends from a player is never scaled (RaidEncounter says how).
KinUntouched == Encounter!KinUntouched
=============================================================================
