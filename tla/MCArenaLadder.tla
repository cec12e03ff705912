---------------------------- MODULE MCArenaLadder ----------------------------
(* Engagements over a ladder of two tiers with one team each: ratings move,   *)
(* matches end late, pool and engagements follow each other.                  *)
EXTENDS ArenaRosterDirector, TLC

CONSTANTS h1, a1, noTeam

MCBots      == {h1, a1}
MCKeyOf     == (h1 :> <<"Horde", "priest">>) @@ (a1 :> <<"Alliance", "priest">>)
MCSlotClass == 0 :> "priest"
MCLineups   == 0 :> <<<<0>>>>
MCForeign   == 0 :> {}
MCRatings   == <<4, 8>>
MCCeilings  == <<6>>
=============================================================================
