---------------------------- MODULE ChatterService ----------------------------
(* What the chatter queue promises for one job, whatever the worker pool does *)
(* inside: a job is taken or turned down once, ends in a reply or in silence, *)
(* and a reply is handed to the world thread once, after it was made.         *)
CONSTANTS Jobs, Ambient

VARIABLE phase   \* [Jobs -> "new", "refused", "taken", "silent", "replied", "heard"]

Init == phase = [j \in Jobs |-> "new"]

Move(S, from, to) ==
    /\ \A j \in S : phase[j] = from
    /\ phase' = [j \in Jobs |-> IF j \in S THEN to ELSE phase[j]]

Take(j)   == Move({j}, "new", "taken")
Refuse(j) == j \in Ambient /\ Move({j}, "new", "refused")
Reply(j)  == Move({j}, "taken", "replied")
Hush(j)   == Move({j}, "taken", "silent")
Hear(S)   == S # {} /\ Move(S, "replied", "heard")

Next ==
    \/ \E j \in Jobs : Take(j) \/ Refuse(j) \/ Reply(j) \/ Hush(j)
    \/ \E S \in SUBSET Jobs : Hear(S)

Spec == Init /\ [][Next]_phase
=============================================================================
