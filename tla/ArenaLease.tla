------------------------------ MODULE ArenaLease ------------------------------
(* What the director promises about the pool bots: at most one machine, the   *)
(* pool job or an engagement, holds them at a time; a lease is taken only     *)
(* from "none" and given back before the next one; and bots are brought in    *)
(* only by the holder of the lease, so that with no holder they only leave.   *)
CONSTANTS Bots, Holders, None

VARIABLES
    owner,   \* the machine that holds the bots, or None
    held     \* bots logged in or logging in

lvars == <<owner, held>>

Init == owner = None /\ held = {}

Take    == owner = None /\ owner' \in Holders /\ held' \in SUBSET Bots
Use     == owner # None /\ owner' = owner /\ held' \in SUBSET Bots
Release == owner # None /\ owner' = None /\ held' \in SUBSET Bots
Lose    == owner' = owner /\ held' \in SUBSET held

Next == Take \/ Use \/ Release \/ Lose
Spec == Init /\ [][Next]_lvars
=============================================================================
