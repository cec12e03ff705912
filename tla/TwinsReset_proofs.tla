--------------------------- MODULE TwinsReset_proofs ---------------------------
(* Proofs about the Twin Emperors reset, for any spawn catalogue, any doors   *)
(* and any instances: no fight is reset, a completion restores the            *)
(* whole room, the order of the recovery never stops it, and a request runs   *)
(* at most once.                                                              *)
EXTENDS TwinsReset, TLAPS

-----------------------------------------------------------------------------
LEMMA ResultFields ==
    \A o, c, w : /\ Result(o, c, w).outcome = o
                 /\ Result(o, c, w).cause = c
                 /\ Result(o, c, w).room = w
BY DEF Result

\* Vek'lor is restored before any bug, so no bug is met behind a dead master.
LEMMA NeverLinked ==
    ASSUME NEW w \in Rooms, NEW s \in Spawns
    PROVE  ~Linked(w, s)
<1> SUFFICES ASSUME s \in Bugs PROVE Restored(w, Before(s)).spawn["veklor"] = "fresh"
  BY DEF Linked
<1>1. "veklor" \in Before(s)
  BY TwinsAssumption DEF Before, Selected, Spawns, Emperors, Stage
<1>2. Restored(w, Before(s)).spawn =
        [t \in Spawns |-> IF t \in Before(s) THEN "fresh" ELSE w.spawn[t]]
  BY DEF Restored, Rooms
<1> QED  BY <1>1, <1>2 DEF Spawns, Emperors

LEMMA ClearedRoom ==
    ASSUME NEW w \in Rooms
    PROVE  /\ Cleared(w) \in Rooms
           /\ Cleared(w).boss = "NOT_STARTED" /\ ~Cleared(w).credit /\ ~Cleared(w).intro
           /\ Cleared(w).combat = w.combat /\ Cleared(w).controlled = w.controlled
BY DEF Cleared, Rooms

LEMMA BegunRoom ==
    ASSUME NEW w \in Rooms, NEW v \in Begun(w)
    PROVE  /\ v \in Rooms /\ v.boss = "NOT_STARTED" /\ ~v.credit /\ ~v.intro
           /\ v.combat = w.combat /\ v.controlled = w.controlled
<1> DEFINE c == Cleared(w)
<1>1. /\ c \in Rooms /\ c.boss = "NOT_STARTED" /\ ~c.credit /\ ~c.intro
      /\ c.combat = w.combat /\ c.controlled = w.controlled
  BY ClearedRoom
<1>2. PICK set \in SUBSET Doors : v = [c EXCEPT !.doors = set]
  BY DEF Begun
<1> HIDE DEF c
<1>3. v \in Rooms  BY <1>1, <1>2 DEF Rooms
<1>4. /\ v.boss = c.boss /\ v.credit = c.credit /\ v.intro = c.intro
      /\ v.combat = c.combat /\ v.controlled = c.controlled
  BY <1>1, <1>2 DEF Rooms
<1> QED  BY <1>1, <1>3, <1>4

LEMMA RestoredRoom ==
    ASSUME NEW w \in Rooms, NEW R
    PROVE  Restored(w, R) \in Rooms
<1>1. [s \in Spawns |-> IF s \in R THEN "fresh" ELSE w.spawn[s]] \in
        [Spawns -> {"fresh", "used", "dead"}]
  BY DEF Rooms
<1> QED  BY <1>1 DEF Restored, Rooms

\* What a recovery returns: incomplete for something slow, or the whole room.
LEMMA RecoveredResults ==
    ASSUME NEW w \in Rooms, NEW r \in Recovered(w)
    PROVE  /\ r.room \in Rooms
           /\ \/ r.outcome = "incomplete" /\ r.cause = "slow"
              \/ /\ r.outcome = "completed" /\ r.cause = "none"
                 /\ r.room = [Restored(w, Spawns) EXCEPT !.doors = Doors]
<1> DEFINE Stops == {y \in [done : Prefixes, at : Selected, left : {"used", "dead"}] :
                        y.at \in Reached(y.done) /\ \A s \in y.done : ~Linked(w, s)}
           StopRoom(x) == [Restored(w, x.done) EXCEPT !.spawn[x.at] = x.left]
           DoorSets == {d \in SUBSET Doors : \A s \in Selected : ~Linked(w, s)}
           DoorRoom(set) == [Restored(w, Selected) EXCEPT !.doors = set]
<1>1. \/ \E x \in Stops : r = Result("incomplete", IF Linked(w, x.at) THEN "linked" ELSE "slow",
                                     StopRoom(x))
      \/ \E set \in DoorSets : r = Result(IF set = Doors THEN "completed" ELSE "incomplete",
                                          IF set = Doors THEN "none" ELSE "slow", DoorRoom(set))
  BY DEF Recovered
<1>2. ASSUME NEW x \in Stops,
             r = Result("incomplete", IF Linked(w, x.at) THEN "linked" ELSE "slow", StopRoom(x))
      PROVE  r.room \in Rooms /\ r.outcome = "incomplete" /\ r.cause = "slow"
  <2>1. x.at \in Spawns /\ x.left \in {"used", "dead"}  BY DEF Selected
  <2>2. ~Linked(w, x.at)  BY <2>1, NeverLinked
  <2>3. Restored(w, x.done) \in Rooms  BY RestoredRoom
  <2> DEFINE v == Restored(w, x.done)
  <2>4. StopRoom(x) \in Rooms
    <3>1. v \in Rooms  BY <2>3
    <3> HIDE DEF v
    <3>2. [v EXCEPT !.spawn[x.at] = x.left] \in Rooms  BY <2>1, <3>1 DEF Rooms
    <3> QED  BY <3>2 DEF v
  <2> HIDE DEF StopRoom
  <2> QED  BY <1>2, <2>2, <2>4, ResultFields
<1>3. ASSUME NEW set \in DoorSets,
             r = Result(IF set = Doors THEN "completed" ELSE "incomplete",
                        IF set = Doors THEN "none" ELSE "slow", DoorRoom(set))
      PROVE  /\ r.room \in Rooms
             /\ \/ r.outcome = "incomplete" /\ r.cause = "slow"
                \/ r.outcome = "completed" /\ r.cause = "none" /\ r.room = DoorRoom(Doors)
  <2>1. DoorRoom(set) \in Rooms
    <3> DEFINE v == Restored(w, Selected)
    <3>1. v \in Rooms  BY RestoredRoom
    <3>2. set \in SUBSET Doors  OBVIOUS
    <3> HIDE DEF v
    <3>3. [v EXCEPT !.doors = set] \in Rooms  BY <3>1, <3>2 DEF Rooms
    <3> QED  BY <3>3 DEF v
  <2> HIDE DEF DoorRoom
  <2>2. CASE set = Doors
    <3>1. r.outcome = "completed" /\ r.cause = "none" /\ r.room = DoorRoom(Doors)
      BY <1>3, <2>2, ResultFields
    <3> QED  BY <2>1, <2>2, <3>1
  <2>3. CASE set # Doors
    <3>1. r.outcome = "incomplete" /\ r.cause = "slow" /\ r.room = DoorRoom(set)
      BY <1>3, <2>3, ResultFields
    <3> QED  BY <2>1, <3>1
  <2> QED  BY <2>2, <2>3
<1> QED  BY <1>1, <1>2, <1>3 DEF Selected

\* A recovery neither starts nor ends a fight.
LEMMA RecoveredKeeps ==
    ASSUME NEW w \in Rooms, NEW r \in Recovered(w)
    PROVE  r.room.combat = w.combat /\ r.room.controlled = w.controlled
<1>1. \/ \E R, t, left, o, c : r = Result(o, c, [Restored(w, R) EXCEPT !.spawn[t] = left])
      \/ \E R, set, o, c : r = Result(o, c, [Restored(w, R) EXCEPT !.doors = set])
  BY DEF Recovered
<1>2. \A R : /\ Restored(w, R) \in Rooms
             /\ Restored(w, R).combat = w.combat /\ Restored(w, R).controlled = w.controlled
  BY RestoredRoom DEF Restored, Rooms
<1>3. \A v \in Rooms : \A t, left :
        LET u == [v EXCEPT !.spawn[t] = left] IN u.combat = v.combat /\ u.controlled = v.controlled
  BY DEF Rooms
<1>4. \A v \in Rooms : \A set :
        LET u == [v EXCEPT !.doors = set] IN u.combat = v.combat /\ u.controlled = v.controlled
  BY DEF Rooms
<1>5. ASSUME NEW R, NEW t, NEW left, NEW o, NEW c,
             r = Result(o, c, [Restored(w, R) EXCEPT !.spawn[t] = left])
      PROVE  r.room.combat = w.combat /\ r.room.controlled = w.controlled
  <2> DEFINE v == Restored(w, R)
  <2>1. v \in Rooms /\ v.combat = w.combat /\ v.controlled = w.controlled  BY <1>2
  <2> HIDE DEF v
  <2>2. r.room = [v EXCEPT !.spawn[t] = left]  BY <1>5, ResultFields DEF v
  <2> QED  BY <1>3, <2>1, <2>2
<1>6. ASSUME NEW R, NEW set, NEW o, NEW c,
             r = Result(o, c, [Restored(w, R) EXCEPT !.doors = set])
      PROVE  r.room.combat = w.combat /\ r.room.controlled = w.controlled
  <2> DEFINE v == Restored(w, R)
  <2>1. v \in Rooms /\ v.combat = w.combat /\ v.controlled = w.controlled  BY <1>2
  <2> HIDE DEF v
  <2>2. r.room = [v EXCEPT !.doors = set]  BY <1>6, ResultFields DEF v
  <2> QED  BY <1>4, <2>1, <2>2
<1> QED  BY <1>1, <1>5, <1>6

\* Where the reset must leave the encounter of w alone, v being what it left.
Spared(w, v, outcome) ==
    CombatActive(w) \/ v.combat \/ v.controlled \/ outcome = "refused"

LEMMA LoadedRoom ==
    ASSUME NEW w \in Rooms, NEW v \in GridsLoaded(w)
    PROVE  v \in Rooms /\ Encounter(v) = Encounter(w) /\ v.controlled = w.controlled
BY DEF GridsLoaded, Rooms, Encounter

\* What a room that is begun ends as: with nobody fighting, as it was found.
LEMMA BegunResults ==
    ASSUME NEW w \in Rooms, ~Engaged(w), NEW v \in Begun(w), NEW r \in Recovered(v)
    PROVE  /\ r.room \in Rooms /\ r.cause \in {"none", "slow"}
           /\ ~r.room.combat /\ ~r.room.controlled
           /\ r.outcome = "incomplete" \/ (r.outcome = "completed" /\ r.room = NewRoom)
<1>1. ~w.combat /\ ~w.controlled  BY DEF Engaged, CombatActive
<1>2. r.room.combat = v.combat /\ r.room.controlled = v.controlled  BY BegunRoom, RecoveredKeeps
<1> QED
  <2>0. ~r.room.combat /\ ~r.room.controlled  BY <1>1, <1>2, BegunRoom
  <2>1. /\ v \in Rooms /\ v.boss = "NOT_STARTED" /\ ~v.credit /\ ~v.intro
        /\ v.combat = w.combat /\ v.controlled = w.controlled
    BY BegunRoom
  <2>3. /\ r.room \in Rooms
        /\ \/ r.outcome = "incomplete" /\ r.cause = "slow"
           \/ /\ r.outcome = "completed" /\ r.cause = "none"
              /\ r.room = [Restored(v, Spawns) EXCEPT !.doors = Doors]
    BY <2>1, RecoveredResults
  <2>4. [Restored(v, Spawns) EXCEPT !.doors = Doors] = NewRoom
    <3> DEFINE u == Restored(v, Spawns)
               fresh == [s \in Spawns |-> "fresh"]
    <3>1. u.spawn = fresh  BY <2>1 DEF Restored, Rooms
    <3>2. /\ u.boss = v.boss /\ u.credit = v.credit /\ u.intro = v.intro
          /\ u.combat = v.combat /\ u.controlled = v.controlled
      BY <2>1 DEF Restored, Rooms
    <3>3. u \in Rooms  BY <2>1, RestoredRoom
    <3> HIDE DEF u
    <3>4. /\ u.boss = "NOT_STARTED" /\ u.credit = FALSE /\ u.intro = FALSE
          /\ u.combat = FALSE /\ u.controlled = FALSE
      BY <1>1, <2>1, <3>2, <3>3 DEF Rooms
    <3>5. [u EXCEPT !.doors = Doors] =
            [boss |-> u.boss, credit |-> u.credit, intro |-> u.intro, combat |-> u.combat,
             controlled |-> u.controlled, spawn |-> u.spawn, doors |-> Doors]
      BY <3>3 DEF Rooms
    <3> HIDE DEF fresh
    <3>6. [u EXCEPT !.doors = Doors] =
            [boss |-> "NOT_STARTED", credit |-> FALSE, intro |-> FALSE, combat |-> FALSE,
             controlled |-> FALSE, spawn |-> fresh, doors |-> Doors]
      BY <3>1, <3>4, <3>5
    <3> QED  BY <3>6 DEF u, fresh, NewRoom
  <2> QED  BY <2>0, <2>3, <2>4

\* What ResetTwins returns on a room.
LEMMA ResetResults ==
    ASSUME NEW w \in Rooms, NEW r \in ResetTwins(w)
    PROVE  /\ r.room \in Rooms /\ r.cause \in {"none", "slow"}
           /\ r.outcome \in {"refused", "incomplete", "completed"}
           /\ Spared(w, r.room, r.outcome) => Encounter(r.room) = Encounter(w)
           /\ r.outcome = "completed" => r.room = NewRoom
<1>1. CASE r = Result("refused", "none", w)
  BY <1>1, ResultFields
<1>2. ASSUME ~CombatActive(w), NEW v \in GridsLoaded(w), r \in FromLoaded(v)
      PROVE  /\ r.room \in Rooms /\ r.cause \in {"none", "slow"}
             /\ r.outcome \in {"refused", "incomplete", "completed"}
             /\ Spared(w, r.room, r.outcome) => Encounter(r.room) = Encounter(w)
             /\ r.outcome = "completed" => r.room = NewRoom
  <2>1. v \in Rooms /\ Encounter(v) = Encounter(w)  BY LoadedRoom
  <2>2. CASE r = Result("refused", "none", v)
    BY <2>1, <2>2, ResultFields
  <2>3. ASSUME ~Engaged(v), NEW b \in Begun(v), r \in Recovered(b)
        PROVE  /\ r.room \in Rooms /\ r.cause \in {"none", "slow"}
               /\ ~r.room.combat /\ ~r.room.controlled
               /\ r.outcome = "incomplete" \/ (r.outcome = "completed" /\ r.room = NewRoom)
    BY <2>1, <2>3, BegunResults
  <2>4. \/ r = Result("refused", "none", v)
        \/ ~Engaged(v) /\ \E b \in Begun(v) : r \in Recovered(b)
    BY <1>2 DEF FromLoaded
  <2> QED  BY <1>2, <2>2, <2>3, <2>4 DEF Spared
<1>3. \/ r = Result("refused", "none", w)
      \/ ~CombatActive(w) /\ \E v \in GridsLoaded(w) : r \in FromLoaded(v)
  BY DEF ResetTwins
<1> QED  BY <1>1, <1>2, <1>3

-----------------------------------------------------------------------------
\* A reset, by the console or a player, leaves well-formed rooms and says what
\* became of the room it was for.
LEMMA ResetStep ==
    ASSUME TypeOK, NEW i \in AQ40, NEW by \in {"console", "player"}, Resets(i, by)
    PROVE  /\ room' \in [AQ40 -> Rooms]
           /\ last'.by = by /\ last'.in = i /\ last'.cause # "linked"
           /\ last' \in [by : {"nobody", "console", "player"}, in : AQ40 \cup {NoRequest},
                         outcome : {"none", "refused", "incomplete", "completed"},
                         cause : {"none", "slow", "linked"}]
           /\ Spared(room[i], room'[i], last'.outcome) => Encounter(room'[i]) = Encounter(room[i])
           /\ last'.outcome = "completed" => room'[i] = NewRoom
<1>1. room[i] \in Rooms  BY DEF TypeOK
<1>2. PICK r \in ResetTwins(room[i]) :
        /\ room' = [room EXCEPT ![i] = r.room]
        /\ last' = [by |-> by, in |-> i, outcome |-> r.outcome, cause |-> r.cause]
  BY DEF Resets
<1>3. /\ r.room \in Rooms /\ r.cause \in {"none", "slow"}
      /\ r.outcome \in {"refused", "incomplete", "completed"}
      /\ Spared(room[i], r.room, r.outcome) => Encounter(r.room) = Encounter(room[i])
      /\ r.outcome = "completed" => r.room = NewRoom
  BY <1>1, <1>2, ResetResults
<1>4. room' \in [AQ40 -> Rooms] /\ room'[i] = r.room
  BY <1>2, <1>3 DEF TypeOK
<1> QED  BY <1>2, <1>3, <1>4

\* No other step has an outcome.
LEMMA NoResetFields ==
    /\ NoReset.by = "nobody" /\ NoReset.outcome = "none" /\ NoReset.cause = "none"
    /\ NoReset \in [by : {"nobody", "console", "player"}, in : AQ40 \cup {NoRequest},
                   outcome : {"none", "refused", "incomplete", "completed"},
                   cause : {"none", "slow", "linked"}]
BY DEF NoReset

LEMMA NewRoomIsRoom == NewRoom \in Rooms
BY DEF NewRoom, Rooms

\* What the core and the players may do to a room.
LEMMA InRoomStep ==
    ASSUME TypeOK, NEW i \in AQ40, NEW w \in Rooms, InRoom(i, w)
    PROVE  TypeOK' /\ last' = NoReset /\ pending' = pending /\ loaded' = loaded
<1>1. room' \in [AQ40 -> Rooms]  BY DEF InRoom, TypeOK
<1> QED  BY <1>1, NoResetFields DEF InRoom, TypeOK

\* What every step keeps and may do, which each of the properties follows from.
StepFacts ==
    /\ TypeOK'
    /\ last'.cause # "linked"
    /\ WaitsForLoad => WaitsForLoad'
    /\ last'.outcome # "none" /\ Spared(room[last'.in], room'[last'.in], last'.outcome)
          => Encounter(room'[last'.in]) = Encounter(room[last'.in])
    /\ last'.outcome = "completed" => room'[last'.in] = NewRoom
    /\ last'.by = "console" => pending' # last'.in

LEMMA FactsOfReset ==
    ASSUME TypeOK, NEW i \in AQ40, NEW by \in {"console", "player"}, Resets(i, by),
           pending' \in {pending, NoRequest}, by = "console" => pending' = NoRequest,
           allocated \subseteq allocated', allocated' \subseteq Ids,
           loaded' \subseteq allocated',
           WaitsForLoad => WaitsForLoad'
    PROVE  StepFacts
<1>1. TypeOK'  BY ResetStep DEF TypeOK
<1>2. last'.by = "console" => pending' # last'.in
  BY ResetStep, TwinsAssumption
<1> QED  BY <1>1, <1>2, ResetStep DEF StepFacts

LEMMA FactsOfOthers ==
    ASSUME TypeOK', last' = NoReset, WaitsForLoad => WaitsForLoad'
    PROVE  StepFacts
BY NoResetFields DEF StepFacts

LEMMA FactsOfRoom ==
    ASSUME TypeOK, NEW i \in AQ40, NEW w \in Rooms, InRoom(i, w)
    PROVE  StepFacts
BY InRoomStep, FactsOfOthers DEF WaitsForLoad

LEMMA NextFacts ==
    ASSUME TypeOK, Next
    PROVE  StepFacts
<1>1. ASSUME NEW i \in Ids, RequestTwinsReset(i)  PROVE StepFacts
  <2>1. CASE i \in loaded \cap AQ40 /\ Resets(i, "console") /\ pending' = Consumed
    <3>1. pending' = NoRequest /\ allocated' = allocated /\ loaded' = loaded
      BY <1>1, <2>1 DEF RequestTwinsReset, Consumed
    <3>2. WaitsForLoad'  BY <3>1, TwinsAssumption DEF WaitsForLoad
    <3> QED  BY <2>1, <3>1, <3>2, FactsOfReset DEF TypeOK
  <2>2. CASE /\ i \notin loaded \cap AQ40 /\ pending' = i /\ last' = NoReset
             /\ room' = room
    <3>1. allocated' = allocated /\ loaded' = loaded /\ i \in allocated
      BY <1>1 DEF RequestTwinsReset
    <3>2. TypeOK'  BY <2>2, <3>1, NoResetFields DEF TypeOK
    <3>3. WaitsForLoad'  BY <2>2, <3>1 DEF WaitsForLoad
    <3> QED  BY <2>2, <3>2, <3>3, FactsOfOthers
  <2> QED  BY <1>1, <2>1, <2>2 DEF RequestTwinsReset
<1>2. ASSUME NEW i \in Ids, OnCreateMap(i)  PROVE StepFacts
  <2>1. loaded' = loaded \cup {i} /\ allocated' = allocated \cup {i}
    BY <1>2 DEF OnCreateMap
  <2>2. CASE i \in AQ40 /\ Resets(i, "console") /\ pending' = Consumed
    <3>1. pending' = NoRequest  BY <2>2 DEF Consumed
    <3>2. WaitsForLoad'  BY <3>1, TwinsAssumption DEF WaitsForLoad
    <3>3. allocated' \subseteq Ids /\ loaded' \subseteq allocated'  BY <2>1 DEF TypeOK
    <3> QED  BY <2>1, <2>2, <3>1, <3>2, <3>3, FactsOfReset
  <2>3. CASE (pending # i \/ i \notin AQ40) /\ last' = NoReset /\ UNCHANGED <<pending, room>>
    <3>1. TypeOK'  BY <2>1, <2>3, NoResetFields DEF TypeOK
    <3>2. WaitsForLoad => WaitsForLoad'  BY <2>1, <2>3 DEF WaitsForLoad
    <3> QED  BY <2>3, <3>1, <3>2, FactsOfOthers
  <2> QED  BY <1>2, <2>2, <2>3 DEF OnCreateMap, AtCreation
<1>3. ASSUME NEW i \in Ids, OnDestroyMap(i)  PROVE StepFacts
  <2> DEFINE Left(w) == [w EXCEPT !.combat = FALSE, !.controlled = FALSE, !.intro = FALSE,
                 !.spawn = [s \in Spawns |-> IF @[s] = "dead" THEN "dead" ELSE "fresh"]]
  <2>1. /\ loaded' = loaded \ {i} /\ last' = NoReset
        /\ pending' = pending /\ allocated' = allocated
        /\ room' = [j \in AQ40 |-> IF j # i THEN room[j] ELSE Left(room[j])]
    BY <1>3 DEF OnDestroyMap
  <2>2. \A w \in Rooms : Left(w) \in Rooms  BY DEF Rooms
  <2> HIDE DEF Left
  <2>3. room' \in [AQ40 -> Rooms]  BY <2>1, <2>2 DEF TypeOK
  <2>4. TypeOK'  BY <2>1, <2>3, NoResetFields DEF TypeOK
  <2>5. WaitsForLoad => WaitsForLoad'  BY <2>1 DEF WaitsForLoad
  <2> QED  BY <2>1, <2>4, <2>5, FactsOfOthers
<1>4. ASSUME NEW i \in AQ40, ResetBoss(i)  PROVE StepFacts
  <2>1. /\ Resets(i, "player") /\ pending' = pending
        /\ allocated' = allocated /\ loaded' = loaded
    BY <1>4 DEF ResetBoss
  <2> QED  BY <2>1, FactsOfReset DEF TypeOK, WaitsForLoad
<1>5. ASSUME NEW i \in AQ40, Pull(i)  PROVE StepFacts
  <2> DEFINE w == room[i]
             v(set) ==
               [w EXCEPT !.boss = "IN_PROGRESS", !.intro = TRUE, !.combat = TRUE, !.doors = set,
                      !.spawn = [s \in Spawns |-> IF @[s] = "fresh" THEN "used" ELSE @[s]]]
  <2>1. w \in Rooms  BY DEF TypeOK
  <2>2. PICK set \in SUBSET Doors : InRoom(i, v(set))  BY <1>5 DEF Pull
  <2>3. v(set) \in Rooms
    <3> HIDE DEF w
    <3> QED  BY <2>1 DEF Rooms
  <2> HIDE DEF v
  <2> QED  BY <2>2, <2>3, FactsOfRoom
<1>6. ASSUME NEW i \in AQ40, Wipe(i)  PROVE StepFacts
  <2> DEFINE w == room[i]
             v(D) == [w EXCEPT !.boss = "NOT_STARTED", !.combat = FALSE, !.doors = Doors,
                         !.spawn = [s \in Spawns |-> IF s \in D THEN "dead" ELSE @[s]]]
  <2>1. w \in Rooms  BY DEF TypeOK
  <2>2. PICK D \in SUBSET Bugs : InRoom(i, v(D))  BY <1>6 DEF Wipe
  <2>3. v(D) \in Rooms
    <3> HIDE DEF w
    <3> QED  BY <2>1 DEF Rooms
  <2> HIDE DEF v
  <2> QED  BY <2>2, <2>3, FactsOfRoom
<1>7. ASSUME NEW i \in AQ40, Kill(i)  PROVE StepFacts
  <2> DEFINE w == room[i]
             v(D, set) == [w EXCEPT !.boss = "DONE", !.credit = TRUE, !.combat = FALSE,
                         !.doors = set,
                         !.spawn = [s \in Spawns |-> IF s \in D \cup Emperors THEN "dead" ELSE @[s]]]
  <2>1. w \in Rooms  BY DEF TypeOK
  <2>2. PICK D \in SUBSET Bugs, set \in SUBSET Doors : InRoom(i, v(D, set))  BY <1>7 DEF Kill
  <2>3. v(D, set) \in Rooms
    <3> HIDE DEF w
    <3> QED  BY <2>1 DEF Rooms
  <2> HIDE DEF v
  <2> QED  BY <2>2, <2>3, FactsOfRoom
<1>8. ASSUME NEW i \in AQ40, Trash(i) \/ Controls(i)  PROVE StepFacts
  <2> DEFINE w == room[i]
  <2>1. w \in Rooms  BY DEF TypeOK
  <2>2. InRoom(i, [w EXCEPT !.combat = ~@]) \/ InRoom(i, [w EXCEPT !.controlled = ~@])
    BY <1>8 DEF Trash, Controls
  <2> HIDE DEF w
  <2>3. [w EXCEPT !.combat = ~@] \in Rooms /\ [w EXCEPT !.controlled = ~@] \in Rooms
    BY <2>1 DEF Rooms
  <2> QED  BY <2>2, <2>3, FactsOfRoom
<1>9. ASSUME Restart  PROVE StepFacts
  <2> DEFINE Left(w) ==
          [w EXCEPT !.combat = FALSE, !.controlled = FALSE, !.intro = FALSE,
               !.boss = IF @ = "IN_PROGRESS" THEN "NOT_STARTED" ELSE @,
               !.spawn = [s \in Spawns |-> IF @[s] = "dead" THEN "dead" ELSE "fresh"]]
  <2>1. /\ pending' = NoRequest /\ loaded' = {} /\ last' = NoReset /\ allocated' = allocated
        /\ room' = [i \in AQ40 |-> Left(room[i])]
    BY <1>9 DEF Restart
  <2>2. \A w \in Rooms : Left(w) \in Rooms  BY DEF Rooms
  <2> HIDE DEF Left
  <2>3. room' \in [AQ40 -> Rooms]  BY <2>1, <2>2 DEF TypeOK
  <2>4. TypeOK'  BY <2>1, <2>3, NoResetFields DEF TypeOK
  <2>5. WaitsForLoad'  BY <2>1 DEF WaitsForLoad
  <2> QED  BY <2>1, <2>4, <2>5, FactsOfOthers
<1> QED  BY <1>1, <1>2, <1>3, <1>4, <1>5, <1>6, <1>7, <1>8, <1>9 DEF Next

-----------------------------------------------------------------------------
Inv == TypeOK /\ last.cause # "linked" /\ WaitsForLoad

LEMMA InitInv == Init => Inv
BY NewRoomIsRoom, NoResetFields, TwinsAssumption DEF Init, Inv, TypeOK, WaitsForLoad

LEMMA InvInductive == Inv /\ [Next]_vars => Inv'
<1> SUFFICES ASSUME Inv, [Next]_vars PROVE Inv'
  OBVIOUS
<1>1. CASE Next
  BY <1>1, NextFacts DEF Inv, StepFacts
<1>2. CASE UNCHANGED vars
  BY <1>2 DEF Inv, TypeOK, WaitsForLoad, vars
<1> QED  BY <1>1, <1>2

\* The conjunction is inductive: types, the order of the recovery, the request.
THEOREM InvHolds == Spec => []Inv
<1> QED  BY InitInv, InvInductive, PTL DEF Spec

\* Type correctness: only an allocated instance is ever loaded or requested.
THEOREM TypeCorrect == Spec => []TypeOK
<1>1. Inv => TypeOK  BY DEF Inv
<1> QED  BY <1>1, InvHolds, PTL

\* The order of the recovery never stops it, whatever room it starts from.
THEOREM OrderLetsThrough == Spec => []StopsOnlyForSlow
<1>1. Inv => StopsOnlyForSlow  BY DEF Inv, StopsOnlyForSlow
<1> QED  BY <1>1, InvHolds, PTL

\* A request for an AQ40 instance waits only while that instance is not loaded.
THEOREM RequestWaitsForLoad == Spec => []WaitsForLoad
<1>1. Inv => WaitsForLoad  BY DEF Inv
<1> QED  BY <1>1, InvHolds, PTL

\* No fight is reset, whether it was on before the room was loaded or began with
\* it, and a refusal changes nothing.
THEOREM NoFightIsReset == Spec => FightsUntouched
<1>1. Inv /\ [Next]_vars =>
        [last'.outcome # "none" =>
            LET w == room[last'.in] v == room'[last'.in] IN
            (CombatActive(w) \/ v.combat \/ v.controlled \/ last'.outcome = "refused") =>
                Encounter(v) = Encounter(w)]_vars
  BY NextFacts DEF Inv, StepFacts, Spared, vars
<1> QED  BY <1>1, InvHolds, PTL DEF Spec, FightsUntouched

\* A completed reset leaves the whole room as spawned.
THEOREM CompletionIsWhole == Spec => CompletedIsWhole
<1>1. Inv /\ [Next]_vars =>
        [last'.outcome = "completed" => room'[last'.in] = NewRoom]_vars
  BY NextFacts DEF Inv, StepFacts, vars
<1> QED  BY <1>1, InvHolds, PTL DEF Spec, CompletedIsWhole

\* A request is consumed by the reset it starts, whatever that ends in.
THEOREM RequestRunsOnce == Spec => OneShot
<1>1. Inv /\ [Next]_vars =>
        [last'.by = "console" => pending' # last'.in]_vars
  BY NextFacts DEF Inv, StepFacts, vars
<1> QED  BY <1>1, InvHolds, PTL DEF Spec, OneShot
=============================================================================
