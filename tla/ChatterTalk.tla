----------------------------- MODULE ChatterTalk -----------------------------
(***************************************************************************)
(* The chatter module as a whole: PBChatterObserver answers what players   *)
(* say, PBChatterWorld::OnUpdate drives the ambient director and the event *)
(* reactions, hands out what the language model came back with, and keeps  *)
(* the memory. One update is a run of steps; the workers answer at any     *)
(* time, players act between two updates.                                  *)
(***************************************************************************)
EXTENDS ChatterEvents, ChatterMemory

CONSTANTS
    SayMaxBots, GroupMaxBots,    \* g_PBChatSayMaxBots, g_PBChatGroupMaxBots
    GuaranteeOne,                \* g_PBChatGroupGuaranteeOne
    Plays                        \* scenes to start from: [acts, hooks, who, zone, grp, raid,
                                 \*                       ambient]

ASSUME TalkAssumption ==
    /\ IsFiniteSet(Bots) /\ MaxReactions \in Nat
    /\ \A p \in Plays : /\ p.zone \in [Players -> Zones]
                        /\ p.grp \in [Players -> Groups \cup {NoOne}]
                        /\ p.hooks \subseteq Recalled

VARIABLES
    play,     \* the scene, and what happens in it
    phase,    \* how far OnUpdate is
    inbox,    \* results that DrainResults returned and that are still to go out
    spoken    \* the last line that went out in this update

vars == <<scene, ambient, events, memory, play, phase, inbox, spoken>>

Phases == {"idle", "ambient", "clock", "scan", "react", "deliver"}
Does(a) == a \in play.acts
Room == Len(jobs) + Len(results) + Len(reactions) < MaxJobs   \* bound, not a guard of the code

Init ==
    /\ play \in Plays
    /\ zone = play.zone /\ grp = play.grp /\ raid = play.raid
    /\ up = [x \in Players |-> TRUE] /\ alive = [x \in Players |-> TRUE]
    /\ jobs = <<>> /\ results = <<>> /\ enabled = TRUE /\ ambientOn = play.ambient
    /\ AmbientInit /\ EventsInit /\ MemoryInit
    /\ phase = "idle" /\ inbox = <<>> /\ spoken = <<>>

-----------------------------------------------------------------------------
\* PickFanout: the named bots first, then bots that roll in, at most max of
\* them; with the guarantee, one is forced if none did.
PickFanout(pool, named, max, guarantee) ==
    LET chosen == {c \in SUBSET pool :
            /\ Cardinality(c) <= max
            /\ named \cap pool \subseteq c \/ (Cardinality(c) = max /\ c \subseteq named)}
    IN  IF guarantee /\ pool # {} /\ max > 0 THEN chosen \ {{}} ELSE chosen

\* What is said: control words of playerbots, and the rest.
Messages == {"command", "chat"}
Eligible(h, msg) == enabled /\ h \in Humans /\ msg # "command"
BufferEligible(h, msg) == Eligible(h, msg) /\ ambientOn

Enqueue(h, targets, ch) == jobs' = jobs \o SetToSeq({Reply(b, h, ch) : b \in targets})

\* Say and yell reach the bots around; who is in range is the map's business.
Say(h, msg) ==
    /\ Eligible(h, msg)
    /\ \E named \in SUBSET Bots, near \in SUBSET {b \in Bots : up[b] /\ alive[b] /\ zone[b] = zone[h]} :
        \E t \in PickFanout(near, named, SayMaxBots, FALSE) : Enqueue(h, t, "say")
    /\ UNCHANGED ctx

Whisper(h, b, msg) ==
    /\ Eligible(h, msg) /\ up[b]
    /\ jobs' = Append(jobs, Reply(b, h, "whisper"))
    /\ UNCHANGED ctx

SayToGroup(h, msg) ==
    /\ grp[h] # NoOne
    /\ IF Eligible(h, msg)
       THEN \E named \in SUBSET Bots, ch \in {GroupChannel(grp[h]), "party"} :
              \E t \in PickFanout({b \in Bots : up[b] /\ b \in Members(grp[h])}, named,
                                  GroupMaxBots, GuaranteeOne) : Enqueue(h, t, ch)
       ELSE UNCHANGED jobs
    /\ IF BufferEligible(h, msg) THEN OnPlayerLine(<<"group", grp[h]>>, h) ELSE UNCHANGED ctx

SayToGuild(h, msg) ==
    /\ GuildOf[h] # NoOne /\ BufferEligible(h, msg)
    /\ OnPlayerLine(<<"guild", GuildOf[h]>>, h)
    /\ UNCHANGED jobs

SayInGeneral(h, msg) ==
    /\ BufferEligible(h, msg)
    /\ OnPlayerLine(<<"zone", zone[h]>>, h)
    /\ UNCHANGED jobs

PlayerTalks(h) ==
    /\ phase = "idle" /\ up[h] /\ Room
    /\ \E msg \in Messages :
        \/ Does("say") /\ Say(h, msg)
        \/ Does("whisper") /\ \E b \in Bots : Whisper(h, b, msg)
        \/ Does("group") /\ SayToGroup(h, msg)
        \/ Does("guild") /\ SayToGuild(h, msg)
        \/ Does("general") /\ SayInGeneral(h, msg)
    /\ UNCHANGED <<people, results, enabled, ambientOn, rate, botCool, work, hints>>
    /\ UNCHANGED <<events, memory, phase, inbox, spoken>>

\* A worker ends: replies, not lines nobody asked for, enter the memory first.
Finish(i) ==
    /\ i \in Running
    /\ \/ Silence(i) /\ UNCHANGED memory
       \/ /\ Answered(i) /\ UNCHANGED <<people, enabled, ambientOn>>
          /\ IF jobs[i].ambient \/ <<jobs[i].bot, jobs[i].player>> \notin Pairs
             THEN UNCHANGED memory
             ELSE \E e \in Exchanges : Remember(<<jobs[i].bot, jobs[i].player>>, e)
    /\ UNCHANGED <<ambient, events, phase, inbox, spoken>>

-----------------------------------------------------------------------------
\* OnUpdate, step by step.
BeginUpdate ==
    /\ phase = "idle" /\ enabled
    /\ IF ambientOn THEN Tick /\ phase' = "ambient"
       ELSE UNCHANGED ambient /\ phase' = "clock"
    /\ spoken' = <<>>
    /\ UNCHANGED <<scene, events, memory, inbox>>

VisitContext(k) ==
    /\ phase = "ambient" /\ Visit(k)
    /\ UNCHANGED <<events, memory, phase, inbox, spoken>>

ReadEventClock ==
    /\ phase = "clock" \/ (phase = "ambient" /\ work = {})
    /\ EventsClock /\ phase' = "scan"
    /\ UNCHANGED <<scene, ambient, memory, inbox, spoken>>

ScanGroup(g) ==
    /\ phase = "scan" /\ Does("scan") /\ Room /\ Scan(g)
    /\ UNCHANGED <<scene, ambient, memory, phase, inbox, spoken>>

TakeReactions ==
    /\ phase = "scan" /\ Swap /\ phase' = "react"
    /\ UNCHANGED <<scene, ambient, memory, inbox, spoken>>

ProcessReaction ==
    /\ phase = "react" /\ React
    /\ UNCHANGED <<ambient, memory, phase, inbox, spoken>>

DrainResults ==
    /\ phase = "react" /\ batch = <<>>
    /\ inbox' = results /\ results' = <<>> /\ phase' = "deliver"
    /\ UNCHANGED <<people, jobs, enabled, ambientOn, ambient, events, memory, spoken>>

\* Mutant of Belongs: the bot's group alone decides.
BelongsToBot(r) ==
    r.ambient /\ r.key[1] = "group" =>
        grp[r.bot] = r.key[2] /\ r.channel = GroupChannel(r.key[2])
\* A line made for a group still has its audience: its bot and a real anchor in
\* that group, on the channel the group has now.
Belongs(r) ==
    r.ambient /\ r.key[1] = "group" =>
        /\ r.anchor \in Humans /\ up[r.anchor]
        /\ grp[r.bot] = r.key[2] /\ grp[r.anchor] = r.key[2]
        /\ r.channel = GroupChannel(r.key[2])

\* Say and whisper always report success; the other channels may refuse.
Deliver ==
    /\ phase = "deliver" /\ inbox # <<>>
    /\ inbox' = Tail(inbox)
    /\ LET r == Head(inbox) IN
       \/ (~up[r.bot] \/ ~Belongs(r) \/ r.channel \notin {"say", "whisper"})
          /\ UNCHANGED <<ctx, spoken>>
       \/ /\ up[r.bot] /\ Belongs(r)
          /\ spoken' = <<r>>
          /\ IF r.ambient THEN OnBotLineDispatched(r.key, r.bot) ELSE UNCHANGED ctx
    /\ UNCHANGED <<scene, rate, botCool, work, hints, events, memory, phase>>

EndUpdate ==
    /\ phase = "deliver" /\ inbox = <<>> /\ phase' = "idle"
    /\ \/ UNCHANGED memory
       \/ Does("flush") /\ FlushToDB /\ UNCHANGED <<cache, novel>>
    /\ UNCHANGED <<scene, ambient, events, inbox, spoken>>

-----------------------------------------------------------------------------
Scenery(x) ==
    /\ phase = "idle" /\ x \in play.who
    /\ \/ Does("move") /\ MoveZone(x) /\ UNCHANGED <<history, reactions, dedupe>>
       \/ Does("leave") /\ LeaveGroup(x) /\ UNCHANGED <<history, reactions, dedupe>>
       \/ Does("login") /\ LogInOrOut(x) /\ UNCHANGED <<history, reactions, dedupe>>
       \/ Does("die") /\ DieOrRise(x) /\ UNCHANGED <<history, reactions, dedupe>>
       \/ Does("join") /\ \E g \in Groups :
            Room /\ JoinGroup(x, g) /\ RecordGroupJoin(x, g)
       \/ Does("raid") /\ \E g \in Groups :
            ConvertToRaid(g) /\ UNCHANGED <<history, reactions, dedupe>>
    /\ UNCHANGED <<ambient, batch, evRate, grpCool, botEvCool, seen, ticked, lag>>
    /\ UNCHANGED <<memory, phase, inbox, spoken>>

Happens(x, kind) ==
    /\ phase = "idle" /\ x \in play.who /\ Room /\ Record(x, kind)
    /\ UNCHANGED <<scene, ctx, rate, botCool, work, memory, phase, inbox, spoken>>

Reload ==
    /\ phase = "idle" /\ Does("reload") /\ ReloadConfig
    /\ UNCHANGED <<ambient, events, memory, phase, inbox, spoken>>

\* Everything but the table is lost; an orderly shutdown flushes first.
FromScratch ==
    /\ jobs' = <<>> /\ results' = <<>> /\ up' = [x \in Players |-> FALSE]
    /\ UNCHANGED <<zone, grp, raid, alive, enabled, ambientOn>>
    /\ ctx' = <<>> /\ rate' = 0 /\ botCool' = [b \in Bots |-> 0] /\ work' = {} /\ hints' = {}
    /\ reactions' = <<>> /\ batch' = <<>> /\ evRate' = 0
    /\ grpCool' = [g \in Groups |-> 0] /\ botEvCool' = [b \in Bots |-> 0]
    /\ dedupe' = [d \in DOMAIN dedupe |-> 0] /\ seen' = [g \in Groups |-> 0]
    /\ history' = [g \in Groups |-> <<>>] /\ ticked' = FALSE /\ lag' = 0
    /\ phase' = "idle" /\ inbox' = <<>> /\ spoken' = <<>>
    /\ LoadAllFromDB(enabled)

Shutdown ==
    /\ Does("restart") /\ phase = "idle" /\ enabled
    /\ FlushToDB /\ FromScratch /\ UNCHANGED novel

Crash ==
    /\ Does("crash")
    /\ CutShort /\ FromScratch /\ novel' = {}

Step ==
    \/ \E h \in Humans : PlayerTalks(h)
    \/ \E i \in 1..MaxConcurrent : Finish(i)
    \/ BeginUpdate \/ \E k \in Keys : VisitContext(k)
    \/ ReadEventClock \/ \E g \in Groups : ScanGroup(g)
    \/ TakeReactions \/ ProcessReaction
    \/ DrainResults \/ Deliver \/ EndUpdate
    \/ \E x \in Players : Scenery(x) \/ \E kind \in play.hooks : Happens(x, kind)
    \/ Reload \/ Shutdown \/ Crash

Next == Step /\ UNCHANGED play

Spec == Init /\ [][Next]_vars

-----------------------------------------------------------------------------
\* A line the director submits, for the context whose turn it is or for the raid
\* it prefers, finds that context off its brakes: due, not cooling down, last
\* spoken in by somebody else, and with a real player who is there.
PacingKept == [][
    Len(jobs') > Len(jobs) /\ Last(jobs').ambient /\ ~Last(jobs').event =>
        LET r == Last(jobs') c == ctx[r.key] IN
            /\ c.cool = 0 /\ c.wait = 0 /\ c.last # r.bot /\ botCool[r.bot] = 0
            /\ AnchorMatches(r.key, r.anchor)]_vars

\* However groups change while the model is answering, a line made for a group
\* is spoken in that group, and with a real player of it listening.
GroupLinesStayHome == [][
    spoken' \notin {spoken, <<>>} =>
        LET r == spoken'[1] IN
            r.ambient /\ r.key[1] = "group" =>
                grp[r.bot] = r.key[2] /\ RealAnchors(r.key[2]) # {}]_vars

\* A clean restart forgets no pair's newest exchange: the flush, its pruning and
\* the load agree on what is newest, whatever crashes and flushes came before.
\* An exchange repeated word for word is exempt: its row keeps its old rank.
RestartKeepsNewest == [][
    Shutdown => \A p \in novel \cap Pairs :
        cache[p] # <<>> => Last(cache[p]) \in ToSet(cache'[p])]_vars

\* "Used by the event-seed store to timestamp/age events on the same timeline":
\* a reaction found too stale to speak of really is that old.
StaleIsOld ==
    phase = "react" /\ batch # <<>> /\ Stale(Head(batch)) => Head(batch).old > StaleAfter
=============================================================================
