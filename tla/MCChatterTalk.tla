---------------------------- MODULE MCChatterTalk ----------------------------
(* A real player and two bots in one zone, in a scene for each way the parts  *)
(* meet: lines in General and the raid, a party whose members come and go     *)
(* while the model answers, what happens to it, what is said to its bots, and *)
(* what they remember of it over flushes, shutdowns and crashes.              *)
EXTENDS ChatterTalk, TLC

CONSTANTS hero, b1, b2, troop, gu, z1, z2, nobody

MCHumans == {hero}
MCBots   == {b1, b2}
MCZones  == {z1, z2}
MCGroups == {troop}
MCGuilds == {gu}
MCGuild  == [x \in {hero, b1, b2} |-> IF x = b2 THEN nobody ELSE gu]
MCPairs  == {<<b1, hero>>}

Scene(acts, hooks, who, party, raids, ambientToo) ==
    [acts |-> acts, hooks |-> hooks, who |-> who, zone |-> [x \in {hero, b1, b2} |-> z1],
     grp |-> [x \in {hero, b1, b2} |-> IF x \in party THEN troop ELSE nobody],
     raid |-> raids, ambient |-> ambientToo]

All == {hero, b1, b2}
MCPlays ==
    { Scene({"move"}, {}, {hero}, All, {troop}, TRUE),                  \* General and a raid
      Scene({"leave"}, {}, {hero, b1}, {hero, b1}, {troop}, TRUE),         \* lines for a group that changes
      Scene({"leave", "join", "raid", "login"}, {"level"}, {hero, b1}, All, {}, FALSE),
      Scene({"scan", "die"}, {"level", "death", "trash"}, {b1}, All, {}, FALSE),
      Scene({"say", "group"}, {}, {}, All, {}, FALSE),
      Scene({"guild", "general"}, {}, {}, {}, {}, TRUE),
      Scene({"group"}, {}, {}, {hero, b1}, {}, TRUE),
      Scene({}, {"level"}, {b1}, {}, {}, TRUE),                  \* hints for the ambient lines
      Scene({"login"}, {}, {hero}, {}, {}, TRUE),
      Scene({"reload", "crash"}, {}, {}, {}, {}, TRUE),
      Scene({"whisper", "flush", "restart", "crash"}, {}, {}, {}, {}, FALSE) }

\* The director is switched off for a while, and then a bot of the party loots.
MCClockPlays == {Scene({"reload"}, {"loot"}, {b1}, {hero, b1}, {}, TRUE)}
=============================================================================
