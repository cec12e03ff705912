------------------------- MODULE RaidRosterPlanner -------------------------
(***************************************************************************)
(* How many tanks, healers and damage dealers .raidroster login brings     *)
(* (RaidRosterPlanner.cpp, RaidRosterComp.h).                              *)
(***************************************************************************)
EXTENDS Integers

CONSTANTS
  SubComps   \* size -> the roles of a raid of that size, the player not counted as dps

Roles  == {"tank", "heal", "dps"}
Counts == [Roles -> Nat]
ASSUME SubCompsAssumption == \A s \in DOMAIN SubComps : s \in Nat /\ SubComps[s] \in Counts

Total(c)  == c["tank"] + c["heal"] + c["dps"]
Least(a, b) == IF a <= b THEN a ELSE b
Over(a, b) == IF a <= b THEN 0 ELSE a - b

\* RaidRosterDesiredTotal: the rows of RAID_SUBCOMPS take the player for a dps.
DesiredTotal(c) == [c EXCEPT !["dps"] = @ + 1]

\* The slots the group's fixed members leave, and the roles they leave open.
SlotsForRoster(size, fixed) == Over(size, Total(fixed))
Open(desired, fixed) == [r \in Roles |-> Over(desired[r], fixed[r])]

\* The first loop: down to the free slots, dps before healers before tanks.
Trimmed(c, slots) ==
  LET t == Least(c["tank"], slots)
      h == Least(c["heal"], slots - t)
  IN [r \in Roles |-> CASE r = "tank" -> t [] r = "heal" -> h
                        [] OTHER -> Least(c["dps"], slots - t - h)]
Available(c, avail) == [r \in Roles |-> Least(c[r], avail[r])]

\* The last loops: up to the free slots, dps before healers before tanks.
Filled(c, slots, avail) ==
  LET d == Least(Over(slots, Total(c)), avail["dps"] - c["dps"])
      h == Least(Over(slots, Total(c) + d), avail["heal"] - c["heal"])
      t == Least(Over(slots, Total(c) + d + h), avail["tank"] - c["tank"])
  IN [r \in Roles |-> CASE r = "tank" -> c[r] + t [] r = "heal" -> c[r] + h
                        [] OTHER -> c[r] + d]

PlanRaidRosterFill(size, desired, fixed, avail) ==
  LET slots == SlotsForRoster(size, fixed)
  IN Filled(Available(Trimmed(Open(desired, fixed), slots), avail), slots, avail)
=============================================================================
