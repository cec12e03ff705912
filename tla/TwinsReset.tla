------------------------------ MODULE TwinsReset ------------------------------
(* The targeted reset of the Twin Emperors (RaidScalingTwinsReset.cpp): the   *)
(* one-shot request of the console command, consumed before the recovery it   *)
(* starts, and the recovery itself: it looks for a fight, loads the room,     *)
(* looks again, and then changes spawn after spawn; it may refuse, or stop    *)
(* half way and be tried again.                                               *)
EXTENDS Naturals

CONSTANTS
    Ids,         \* instance ids a console request may name
    AQ40,        \* those of map 531
    Bugs,        \* the room bugs of the spawn catalogue
    Doors,       \* the two original doors
    Catalogued,  \* the validation of mapping, spawns and doors succeeds
    NoRequest    \* _pendingTwinsReset = 0

ASSUME TwinsAssumption ==
    /\ AQ40 \subseteq Ids /\ NoRequest \notin Ids /\ Catalogued \in BOOLEAN
    /\ Bugs \cap {"veknilash", "veklor", "eye"} = {}

VARIABLES
    pending,    \* _pendingTwinsReset
    allocated,  \* MapMgr::GetInstanceIDs
    loaded,     \* instances whose map is loaded
    room,       \* [AQ40 -> the encounter and its room]
    last        \* the recovery of the last step: who asked, where, its outcome and cause

vars == <<pending, allocated, loaded, room, last>>

Emperors == {"veknilash", "veklor"}
Spawns   == Emperors \cup {"eye"} \cup Bugs

\* A spawn is "fresh" (alive as spawned), "used" (alive, with auras, threat or
\* script state of a fight) or "dead"; doors are those that stand as before a fight
\* (the entrance open, the exit closed).
NewRoom ==
    [boss |-> "NOT_STARTED", credit |-> FALSE, intro |-> FALSE, combat |-> FALSE,
     controlled |-> FALSE, spawn |-> [s \in Spawns |-> "fresh"], doors |-> Doors]
NoReset == [by |-> "nobody", in |-> NoRequest, outcome |-> "none", cause |-> "none"]

Init ==
    /\ pending = NoRequest /\ allocated = {} /\ loaded = {}
    /\ room = [i \in AQ40 |-> NewRoom]
    /\ last = NoReset

-----------------------------------------------------------------------------
(* ResetTwins on the room w: the set of results it may have. A recovery stops *)
(* for a native respawn, AI or door that is not ready ("slow"), or because    *)
(* the order of the recovery meets a bug whose master is dead ("linked").     *)

Result(outcome, cause, w) == [outcome |-> outcome, cause |-> cause, room |-> w]

Cleared(w) == [w EXCEPT !.boss = "NOT_STARTED", !.credit = FALSE, !.intro = FALSE]

\* An encounter in progress, or a player or creature of the map in combat.
CombatActive(w) == w.boss = "IN_PROGRESS" \/ w.combat

\* Loading the grids of the room may start a fight with who stands there.
GridsLoaded(w) == {w, [w EXCEPT !.combat = TRUE]}

\* Mutant of Engaged: what was seen before the grids were loaded still counts.
EngagedStale(w) == w.controlled
\* The checks of the loaded room: a fight, or an encounter creature under control.
Engaged(w) == CombatActive(w) \/ w.controlled

\* Mutant of Stage: bugs come first.
StageBugsFirst(s) == IF s \in Bugs THEN 0 ELSE IF s \in Emperors THEN 1 ELSE 2
\* The order of the recovery: emperors, the eye, then the bugs.
Stage(s) == IF s \in Emperors THEN 1 ELSE IF s = "eye" THEN 2 ELSE 3

\* Mutant of Selected: the room's bugs are not part of the recipe.
SelectedWithoutBugs == Emperors \cup {"eye"}
Selected == Spawns

\* Sets of spawns that may be restored when the next one is reached.
Before(s)  == {t \in Selected : Stage(t) < Stage(s)}
Prefixes   == {R \in SUBSET Selected : \A s \in R : Before(s) \subseteq R}
Reached(R) == {s \in Selected \ R : Before(s) \subseteq R}

Restored(w, R) == [w EXCEPT !.spawn = [s \in Spawns |-> IF s \in R THEN "fresh" ELSE @[s]]]

\* linked_respawn postpones a bug while Vek'lor is dead.
Linked(w, s) == s \in Bugs /\ Restored(w, Before(s)).spawn["veklor"] = "dead"

Recovered(w) ==
    {Result("incomplete", IF Linked(w, x.at) THEN "linked" ELSE "slow",
            [Restored(w, x.done) EXCEPT !.spawn[x.at] = x.left]) :
        x \in {y \in [done : Prefixes, at : Selected, left : {"used", "dead"}] :
                 y.at \in Reached(y.done) /\ \A s \in y.done : ~Linked(w, s)}}
    \cup
    {Result(IF set = Doors THEN "completed" ELSE "incomplete",
            IF set = Doors THEN "none" ELSE "slow",
            [Restored(w, Selected) EXCEPT !.doors = set]) :
        set \in {d \in SUBSET Doors : \A s \in Selected : ~Linked(w, s)}}

\* The instance script may put doors of the encounter right itself.
Begun(w) ==
    {[Cleared(w) EXCEPT !.doors = set] : set \in {d \in SUBSET Doors : w.doors \subseteq d}}

\* A room that passes the checks is begun, unless the script keeps its boss state.
FromLoaded(w) ==
    {Result("refused", "none", w)} \cup
    UNION {Recovered(b) : b \in {v \in Begun(w) : ~Engaged(w)}}

ResetTwins(w) ==
    IF CombatActive(w) \/ ~Catalogued THEN {Result("refused", "none", w)}
    ELSE UNION {FromLoaded(v) : v \in GridsLoaded(w)}

Resets(i, by) ==
    \E r \in ResetTwins(room[i]) :
        /\ room' = [room EXCEPT ![i] = r.room]
        /\ last' = [by |-> by, in |-> i, outcome |-> r.outcome, cause |-> r.cause]

-----------------------------------------------------------------------------
\* Consumed before the recovery, whatever it ends in.
Consumed == NoRequest

\* The console command: refused for an id that is not allocated and while a
\* request is pending, run at once on a loaded AQ40 map, queued otherwise.
RequestTwinsReset(i) ==
    /\ i \in allocated /\ pending = NoRequest
    /\ \/ /\ i \in loaded \cap AQ40
          /\ Resets(i, "console")
          /\ pending' = Consumed
       \/ /\ i \notin loaded \cap AQ40
          /\ pending' = i /\ last' = NoReset
          /\ UNCHANGED room
    /\ UNCHANGED <<allocated, loaded>>

\* .raidinstance boss reset 7, given inside the instance.
ResetBoss(i) ==
    /\ i \in loaded \cap AQ40
    /\ Resets(i, "player")
    /\ UNCHANGED <<pending, allocated, loaded>>

\* Mutant of AtCreation: a request is only looked at when it is made.
AtCreationNever(i) == last' = NoReset /\ UNCHANGED <<pending, room>>
\* ProcessPendingTwinsReset, called once when a map is created.
AtCreation(i) ==
    \/ /\ pending = i /\ i \in AQ40
       /\ Resets(i, "console")
       /\ pending' = Consumed
    \/ /\ pending # i \/ i \notin AQ40
       /\ last' = NoReset
       /\ UNCHANGED <<pending, room>>

OnCreateMap(i) ==
    /\ i \notin loaded
    /\ loaded' = loaded \cup {i} /\ allocated' = allocated \cup {i}
    /\ AtCreation(i)

-----------------------------------------------------------------------------
(* The core and the players. *)

\* An unloaded room keeps its saved boss state and its dead, the living are
\* spawned afresh at the next load.
OnDestroyMap(i) ==
    /\ i \in loaded
    /\ loaded' = loaded \ {i}
    /\ room' = [j \in AQ40 |-> IF j # i THEN room[j] ELSE
          [room[j] EXCEPT !.combat = FALSE, !.controlled = FALSE, !.intro = FALSE,
               !.spawn = [s \in Spawns |-> IF @[s] = "dead" THEN "dead" ELSE "fresh"]]]
    /\ last' = NoReset
    /\ UNCHANGED <<pending, allocated>>

InRoom(i, w) ==
    /\ i \in loaded
    /\ room' = [room EXCEPT ![i] = w]
    /\ last' = NoReset
    /\ UNCHANGED <<pending, allocated, loaded>>

Pull(i) ==
    /\ room[i].boss = "NOT_STARTED" /\ ~room[i].combat
    /\ \A s \in Emperors : room[i].spawn[s] # "dead"
    /\ \E set \in SUBSET Doors :
          InRoom(i, [room[i] EXCEPT !.boss = "IN_PROGRESS", !.intro = TRUE, !.combat = TRUE,
                         !.doors = set,
                         !.spawn = [s \in Spawns |-> IF @[s] = "fresh" THEN "used" ELSE @[s]]])

Wipe(i) ==
    /\ room[i].boss = "IN_PROGRESS"
    /\ \E D \in SUBSET Bugs :
          InRoom(i, [room[i] EXCEPT !.boss = "NOT_STARTED", !.combat = FALSE, !.doors = Doors,
                         !.spawn = [s \in Spawns |-> IF s \in D THEN "dead" ELSE @[s]]])

Kill(i) ==
    /\ room[i].boss = "IN_PROGRESS"
    /\ \E D \in SUBSET Bugs, set \in SUBSET Doors :
          InRoom(i, [room[i] EXCEPT !.boss = "DONE", !.credit = TRUE, !.combat = FALSE,
                         !.doors = set,
                         !.spawn = [s \in Spawns |-> IF s \in D \cup Emperors THEN "dead" ELSE @[s]]])

\* Trash fights elsewhere on the map, and mind control.
Trash(i)    == room[i].boss # "IN_PROGRESS" /\ InRoom(i, [room[i] EXCEPT !.combat = ~@])
Controls(i) == InRoom(i, [room[i] EXCEPT !.controlled = ~@])

\* A restart loses the request; no map is loaded.
Restart ==
    /\ pending' = NoRequest /\ loaded' = {}
    /\ room' = [i \in AQ40 |->
          [room[i] EXCEPT !.combat = FALSE, !.controlled = FALSE, !.intro = FALSE,
               !.boss = IF @ = "IN_PROGRESS" THEN "NOT_STARTED" ELSE @,
               !.spawn = [s \in Spawns |-> IF @[s] = "dead" THEN "dead" ELSE "fresh"]]]
    /\ last' = NoReset
    /\ UNCHANGED allocated

Next ==
    \/ \E i \in Ids : RequestTwinsReset(i) \/ OnCreateMap(i) \/ OnDestroyMap(i)
    \/ \E i \in AQ40 : ResetBoss(i) \/ Pull(i) \/ Wipe(i) \/ Kill(i) \/ Trash(i) \/ Controls(i)
    \/ Restart

Spec == Init /\ [][Next]_vars

-----------------------------------------------------------------------------
Rooms ==
    [boss : {"NOT_STARTED", "IN_PROGRESS", "DONE"}, credit : BOOLEAN, intro : BOOLEAN,
     combat : BOOLEAN, controlled : BOOLEAN,
     spawn : [Spawns -> {"fresh", "used", "dead"}], doors : SUBSET Doors]

\* Types of the variables: only allocated instances are loaded or requested, and
\* the encounter is in no state but the three the reset and the fight know.
TypeOK ==
    /\ pending \in allocated \cup {NoRequest}
    /\ allocated \subseteq Ids /\ loaded \subseteq allocated
    /\ room \in [AQ40 -> Rooms]
    /\ last \in [by : {"nobody", "console", "player"}, in : AQ40 \cup {NoRequest},
                 outcome : {"none", "refused", "incomplete", "completed"},
                 cause : {"none", "slow", "linked"}]

\* No fight is reset under the raid: where anyone fights or an encounter creature is
\* controlled, before the room's grids are loaded or because they were, boss state,
\* completion credit, intro, creatures and doors stay as they are, and so they do
\* whenever the reset reports a refusal (the two combat checks of ResetTwins).
Encounter(w) == <<w.boss, w.credit, w.intro, w.spawn, w.doors>>
FightsUntouched ==
    [][last'.outcome # "none" =>
          LET w == room[last'.in] v == room'[last'.in] IN
          (CombatActive(w) \/ v.combat \/ v.controlled \/ last'.outcome = "refused") =>
              Encounter(v) = Encounter(w)]_vars

\* After "completed" the room is as spawned: both emperors, the eye and every bug
\* alive with nothing of an earlier fight on them, no credit, intro and doors reset.
CompletedIsWhole == [][last'.outcome = "completed" => room'[last'.in] = NewRoom]_vars

\* A recovery stops half way only for a respawn or a door that was not ready: from
\* whatever an earlier fight or an earlier incomplete reset left, its own order
\* lets it through, so a retry out of combat can complete.
StopsOnlyForSlow == last.cause # "linked"

\* A request is carried out at most once: no outcome leaves it behind to run again
\* at a later load, perhaps in the middle of the next fight.
OneShot == [][last'.by = "console" => pending' # last'.in]_vars

\* A request for an AQ40 instance waits only while that instance is not loaded.
WaitsForLoad == pending \in AQ40 => pending \notin loaded

\* RequestTwinsReset reports "Twins reset queued once for AQ40 instance".
QueuedIsAQ40 == pending # NoRequest => pending \in AQ40
=============================================================================
