---------------------------- MODULE MCRaidScaling ----------------------------
(* A boss with two native healths and an aura-aware add, in a raid for four;  *)
(* and, apart from it, a boss with its door, summons and a trap in a raid a   *)
(* player with a pet is in.                                                   *)
EXTENDS RaidInstance, TLC

CONSTANTS boss1, advisor, lord, door, minion, totem, trap, p

VARIABLE part

MCNatives == (boss1 :> {8, 12}) @@ (advisor :> {8})
MCRecipes == "lord" :> {lord, door}

Sources(o) == {S \in SUBSET (there \cup {p}) : S # {} /\ Cardinality(S) <= IF o = minion THEN 2 ELSE 1}
EncounterSteps ==
  \/ \E o \in {lord, door} : Encounter!Enters(o, {}) \/ Encounter!RespawnTimeOver(o)
  \/ \E o \in {minion, totem, trap} : \E from \in Sources(o) : Encounter!Enters(o, from)
  \/ \E o \in {lord, minion, totem, trap} : Encounter!Leaves(o)
  \/ \E o \in {lord, door, minion} : Encounter!Falls(o)
  \/ Encounter!Charm(lord) \/ Encounter!MoodChanges(minion, "friendly")
  \/ Encounter!HandleRaidScale \/ Encounter!OnCreatureRespawn(minion) \/ Encounter!HandleRaidInstance

MCInit ==
  /\ part \in {"health", "origin"} /\ Init /\ Encounter!EncounterInit
  /\ part = "health" => on
  /\ part = "origin" => enabled /\ target = 0
\* Bound: one creature is wounded at a time.
OneWounded == Cardinality({c \in Creatures : body[c].alive /\ body[c].hp # body[c].max}) <= 1
MCNext ==
  \/ part = "health" /\ Next /\ OneWounded' /\ UNCHANGED << encounter, part >>
  \/ part = "origin" /\ EncounterSteps /\ UNCHANGED << vars, part >>
MCSpec == MCInit /\ [][MCNext]_<< vars, encounter, part >>
=============================================================================
