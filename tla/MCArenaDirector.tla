--------------------------- MODULE MCArenaDirector ---------------------------
(* Pool job and engagements together: one tier of three one-bot teams, any of *)
(* which may vanish.                                                          *)
EXTENDS ArenaRosterDirector, TLC

CONSTANTS h1, h2, h3, noTeam

MCBots      == {h1, h2, h3}
MCKeyOf     == (h1 :> <<"Horde", "priest">>) @@ (h2 :> <<"Horde", "rogue">>)
               @@ (h3 :> <<"Horde", "mage">>)
MCSlotClass == (0 :> "priest") @@ (1 :> "rogue") @@ (2 :> "mage")
MCLineups   == 0 :> <<<<0>>, <<1>>, <<2>>>>
MCForeign   == 0 :> {}
MCRatings   == 1 :> 4
MCCeilings  == <<>>
=============================================================================
