-------------------------- MODULE WintergraspVacancy --------------------------
(***************************************************************************)
(* The director with a witness beside it, who was at every reconcile and   *)
(* looked whether anyone sat in the engine.  The director itself keeps an  *)
(* age, _idleVeh, that it raises, forgets and compares (ReapIdleVehicles). *)
(***************************************************************************)
EXTENDS WintergraspBots

VARIABLE vacant   \* consecutive reconciles at which the engine stood empty

\* No bot and no player sits in the engine after this reconcile.
FoundEmpty ==
  engine.at # "none" /\ ~engine.rider /\ \A b \in Bots : bot'[b].seat # "engine"

Watch ==
  vacant' = IF Reconciled
            THEN IF ~FoundEmpty THEN 0 ELSE IF vacant < ReapTicks THEN vacant + 1 ELSE vacant
            ELSE IF war' THEN vacant ELSE 0

watched == << vars, vacant >>
Watched == Init /\ vacant = 0 /\ [][Next /\ Watch]_watched

\* The director kills an engine only if nobody sat in it at the last
\* ReapTicks looks, this one included.
ReapOnlyAbandoned ==
  [][Reconciled /\ engine.at # "none" /\ engine'.at = "none" => vacant' >= ReapTicks]_watched
=============================================================================
