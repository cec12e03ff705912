----------------------------- MODULE MCArenaPool -----------------------------
(* The pool job on its own: three tiers (so that two share a faction), two    *)
(* slots, a bracket of one-bot lineups and one of a two-bot lineup, and a      *)
(* rogue that is already in somebody else's team of the second bracket. No     *)
(* engagement is started and no team is disbanded from outside.                *)
EXTENDS ArenaRosterDirector, TLC

CONSTANTS h1, h2, h3, h4, a1, a2, a3, noTeam

MCBots      == {h1, h2, h3, h4, a1, a2, a3}
MCKeyOf     == (h1 :> <<"Horde", "priest">>) @@ (h2 :> <<"Horde", "priest">>)
               @@ (h3 :> <<"Horde", "rogue">>) @@ (h4 :> <<"Horde", "rogue">>)
               @@ (a1 :> <<"Alliance", "priest">>) @@ (a2 :> <<"Alliance", "rogue">>)
               @@ (a3 :> <<"Alliance", "rogue">>)
MCSlotClass == (0 :> "priest") @@ (1 :> "rogue")
MCLineups   == (0 :> <<<<0>>, <<1>>>>) @@ (1 :> <<<<0, 1>>>>)
MCForeign   == (0 :> {}) @@ (1 :> {a3})
MCRatings   == [t \in Tiers |-> 4 * t]
MCCeilings  == [t \in 1 .. TierCount - 1 |-> 4 * t + 2]

PoolSpec == Init /\ [][Update \/ CmdPoolInit \/ Logins \/ Workers \/ Crash]_vars /\ Fairness

Symmetric == Permutations({h1, h2}) \cup Permutations({h3, h4})
=============================================================================
