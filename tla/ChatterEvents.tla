---------------------------- MODULE ChatterEvents ----------------------------
(***************************************************************************)
(* PBChatterEvents: what happens to a party is remembered for its prompts  *)
(* and may make one of its bots speak at once. A reaction is recorded by a *)
(* hook, aged and rated by the next Tick, and submitted like a reply. Its  *)
(* time stamp is taken from the clock of PBChatterAmbient and compared     *)
(* with a clock that PBChatterEvents keeps for itself.                     *)
(***************************************************************************)
EXTENDS ChatterAmbient

CONSTANTS
    EventOn,                \* g_PBChatEventEnable
    EventMaxPerMin, EventCooldown, EventPerBotCooldown,
    StaleAfter,             \* the 60 seconds of ProcessEventReactions
    DedupeFor,              \* the dedupe windows of the hooks
    SeenFor,                \* the 90 seconds of RecordVisibleEnemy
    MaxReactions,           \* the 24 of QueueEventReaction
    MaxHistory, HistoryTtl, \* GROUP_EVENT_MAX and GROUP_EVENT_TTL_MS
    RepeatFor               \* the 20 seconds in which a repeated text is one event

VARIABLES
    reactions,   \* g_eventReactions
    batch,       \* the list ProcessEventReactions has swapped out
    evRate, grpCool, botEvCool,
    dedupe,      \* g_eventDedupeCooldownUntil, by the ambient clock
    seen,        \* g_seenEnemyCooldownUntil, by the event clock
    history,     \* g_groupEvents
    ticked,      \* the ambient clock has left zero
    lag          \* how far the event clock is ahead of it

events == <<reactions, batch, evRate, grpCool, botEvCool, dedupe, seen, history, ticked, lag>>

\* What the hooks record, by what they do with it.
Stamped  == {"level", "quest", "boss", "elite"}
Reacting == Stamped \cup {"loot", "death", "pvp"}
Recalled == Reacting \cup {"trash", "area"}
\* The actor itself is asked to speak of these.
OwnVoice == {"level", "quest", "loot", "pvp"}
DedupeKeys == (Reacting \X Players) \cup {<<"join", NoOne>>}

EventsInit ==
    /\ reactions = <<>> /\ batch = <<>> /\ evRate = 0
    /\ grpCool = [g \in Groups |-> 0] /\ botEvCool = [b \in Bots |-> 0]
    /\ dedupe = [d \in Groups \X DedupeKeys |-> 0] /\ seen = [g \in Groups |-> 0]
    /\ history = [g \in Groups |-> <<>>] /\ ticked = FALSE /\ lag = 0

Newest(s, n) == IF Len(s) > n THEN SubSeq(s, Len(s) - n + 1, Len(s)) ELSE s
Prune(h) == Newest(SelectSeq(h, LAMBDA e : e.age <= HistoryTtl), MaxHistory)

\* The group's events after one more; the same text twice is one event.
Appended(g, text) ==
    LET h == Prune(history[g]) IN
    IF h # <<>> /\ Last(h).text = text /\ Last(h).age <= RepeatFor
    THEN [h EXCEPT ![Len(h)].age = 0]
    ELSE Prune(Append(h, [text |-> text, age |-> 0]))

\* ev.ms = PBChatterAmbient::NowMs(), against the event clock of the moment.
StampedAt == [zero |-> ~ticked, late |-> lag]

\* QueueEventReaction for the group of x. Bot-only groups cost no model calls.
QueueEventReaction(x, kind, speaker, key, member) ==
    LET g == grp[x]
        anchors == IF x \in Humans THEN {x} ELSE RealAnchors(g)
    IN  IF ~EventOn \/ g = NoOne \/ anchors = {} \/ (key # <<>> /\ dedupe[<<g, key>>] > 0)
        THEN UNCHANGED <<reactions, dedupe>>
        ELSE /\ dedupe' = IF key = <<>> THEN dedupe ELSE [dedupe EXCEPT ![<<g, key>>] = DedupeFor]
             /\ \E a \in anchors :
                  reactions' = Newest(Append(reactions,
                     [grp |-> g, anchor |-> a, speaker |-> speaker, kind |-> kind,
                      member |-> member, at |-> StampedAt, old |-> 0]), MaxReactions)

\* A hook fires for x while the maps are updated.
Record(x, kind) ==
    /\ enabled /\ up[x]
    /\ history' = IF grp[x] = NoOne THEN history
                  ELSE [history EXCEPT ![grp[x]] = Appended(grp[x], kind)]
    /\ hints' = IF kind \in Stamped /\ x \in Bots /\ ambientOn THEN hints \cup {x} ELSE hints
    /\ IF kind \in Reacting
       THEN QueueEventReaction(x, kind, IF kind \in OwnVoice /\ x \in Bots THEN x ELSE NoOne,
                               <<kind, x>>, NoOne)
       ELSE UNCHANGED <<reactions, dedupe>>
    /\ UNCHANGED <<batch, evRate, grpCool, botEvCool, seen, ticked, lag>>

\* OnAddMember, run by the join itself: g is the group x has just entered.
RecordGroupJoin(x, g) ==
    LET others == Members(g) IN
    IF enabled /\ EventOn /\ others # {} /\ (x \in Humans \/ RealAnchors(g) # {})
    THEN \E a \in RealAnchors(g) \cup ({x} \cap Humans) :
            /\ history' = [history EXCEPT ![g] = Appended(g, "join")]
            /\ IF dedupe[<<g, <<"join", NoOne>>>>] > 0 THEN UNCHANGED <<reactions, dedupe>>
               ELSE /\ dedupe' = [dedupe EXCEPT ![<<g, <<"join", NoOne>>>>] = DedupeFor]
                    /\ reactions' = Newest(Append(reactions,
                         [grp |-> g, anchor |-> a, speaker |-> NoOne, kind |-> "join",
                          member |-> x, at |-> StampedAt, old |-> 0]), MaxReactions)
    ELSE UNCHANGED <<history, reactions, dedupe>>

\* Tick of PBChatterEvents moves a clock of its own, after PBChatterAmbient's,
\* which stands still while ambientOn is off.
EventsClock ==
    /\ evRate' \in {evRate, 0}
    /\ grpCool' = [g \in Groups |-> Less1(grpCool[g])]
    /\ botEvCool' = [b \in Bots |-> Less1(botEvCool[b])]
    /\ seen' = [g \in Groups |-> Less1(seen[g])]
    /\ reactions' = [i \in DOMAIN reactions |-> [reactions[i] EXCEPT !.old = 1]]
    /\ ticked' = (ticked \/ ambientOn)
    /\ lag' = IF ambientOn \/ lag > StaleAfter THEN lag ELSE lag + 1
    /\ dedupe' = IF ambientOn THEN [d \in DOMAIN dedupe |-> Less1(dedupe[d])] ELSE dedupe
    /\ history' = IF ambientOn
                  THEN [g \in Groups |-> [i \in DOMAIN history[g] |->
                          [history[g][i] EXCEPT !.age = IF @ > HistoryTtl THEN @ ELSE @ + 1]]]
                  ELSE history
    /\ UNCHANGED batch

\* ScanPvPContacts: a grouped bot may perceive an enemy; one call-out per group
\* and enemy in SeenFor, spoken by the bot that noticed.
Scan(g) ==
    /\ EventOn /\ seen[g] = 0
    /\ \E a \in RealAnchors(g), b \in GroupBots(g) :
        /\ history' = [history EXCEPT ![g] = Appended(g, "sighting")]
        /\ seen' = [seen EXCEPT ![g] = SeenFor]
        /\ QueueEventReaction(a, "sighting", b, <<>>, NoOne)
    /\ UNCHANGED <<batch, evRate, grpCool, botEvCool, ticked, lag>>

\* ProcessEventReactions takes the whole list.
Swap ==
    /\ batch' = reactions /\ reactions' = <<>>
    /\ UNCHANGED <<evRate, grpCool, botEvCool, dedupe, seen, history, ticked, lag>>

-----------------------------------------------------------------------------
\* g_eventNowMs - ev.ms > 60000: the age the code sees.
Stale(ev) == ~ev.at.zero /\ ev.old + ev.at.late > StaleAfter

Speakers(ev) ==
    {b \in GroupBots(ev.grp) : botEvCool[b] = 0 /\ ev.speaker \in {NoOne, b}}

Proceeds(ev) ==
    /\ EventOn /\ ~Stale(ev) /\ grpCool[ev.grp] = 0
    /\ ev.anchor \in RealAnchors(ev.grp)
    /\ ev.kind = "join" => up[ev.member] /\ ev.member \in Members(ev.grp)
    /\ Speakers(ev) # {}

\* One round of ProcessEventReactions: spoken of, or passed over (the chance
\* roll too); at the rate limit the rest of the list is dropped.
React ==
    LET ev == Head(batch) IN
    /\ batch # <<>>
    /\ \/ /\ EventOn /\ EventMaxPerMin # 0 /\ evRate >= EventMaxPerMin
          /\ batch' = <<>>
          /\ UNCHANGED <<jobs, evRate, grpCool, botEvCool>>
       \/ /\ ~(EventOn /\ EventMaxPerMin # 0 /\ evRate >= EventMaxPerMin)
          /\ batch' = Tail(batch)
          /\ \/ UNCHANGED <<jobs, evRate, grpCool, botEvCool>>
             \/ /\ Proceeds(ev)
                /\ \E b \in Speakers(ev) :
                     /\ jobs' = Append(jobs, Line(b, ev.anchor, GroupChannel(ev.grp),
                                                  <<"group", ev.grp>>, ev.anchor, TRUE))
                     /\ botEvCool' = [botEvCool EXCEPT ![b] = EventPerBotCooldown]
                /\ evRate' = evRate + 1
                /\ grpCool' = [grpCool EXCEPT ![ev.grp] = EventCooldown]
    /\ UNCHANGED <<reactions, dedupe, seen, history, ticked, lag>>
    /\ UNCHANGED <<people, results, enabled, ambientOn>>
=============================================================================
