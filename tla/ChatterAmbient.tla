--------------------------- MODULE ChatterAmbient ---------------------------
(***************************************************************************)
(* PBChatterAmbient: lines nobody asked for. Each zone, group and guild    *)
(* with a real player in it is a context with its own pace, brakes and     *)
(* buffer; every world update gives each context that is due a chance to   *)
(* have one of its bots say something. Times are what is left of them, in  *)
(* units of one world update.                                              *)
(***************************************************************************)
EXTENDS ChatterScene

CONSTANTS
    Seed, Follow,      \* intervals a quiet and an active context may draw
    Retry,             \* the 3 and 5 second retries of TryEmit
    ActiveWindow, StreakMax, Cooldown, PerBotCooldown,
    MaxPerMin,         \* 0 = no ceiling
    RaidPreference     \* g_PBChatAmbientRaidPreferenceChance > 0

ASSUME AmbientAssumption ==
    /\ Seed \subseteq Nat /\ Follow \subseteq Nat
    /\ {Retry, ActiveWindow, StreakMax, Cooldown, PerBotCooldown, MaxPerMin} \subseteq Nat

VARIABLES
    ctx,       \* g_ctx: the known contexts
    rate,      \* g_rateCount
    botCool,   \* g_botCooldown
    work,      \* contexts this Tick has not looked at yet
    hints      \* g_seeds of PBChatterEvents: bots with a fresh event hint

ambient == <<ctx, rate, botCool, work, hints>>

Keys == ({"zone"} \X Zones) \cup ({"group"} \X Groups) \cup ({"guild"} \X Guilds)

InContext(x, k) == CASE k[1] = "zone"  -> zone[x] = k[2]
                     [] k[1] = "group" -> grp[x] = k[2]
                     [] k[1] = "guild" -> GuildOf[x] = k[2]
AnchorMatches(k, a) == a \in Humans /\ up[a] /\ InContext(a, k)

AmbientInit ==
    /\ ctx = <<>> /\ rate = 0 /\ botCool = [b \in Bots |-> 0]
    /\ work = {} /\ hints = {}

Less1(n) == IF n = 0 THEN 0 ELSE n - 1
NextInterval(active) == IF active > 0 THEN Follow ELSE Seed

Fresh(a, w) == [anchor |-> a, wait |-> w, cool |-> 0, streak |-> 0, active |-> 0,
                last |-> NoOne, buffer |-> FALSE]
\* The contexts after Ensure(k, a), w being the first interval of a new one.
Ensure(cs, k, a, w) == [j \in DOMAIN cs \cup {k} |->
    IF j # k THEN cs[j] ELSE IF k \in DOMAIN cs THEN [cs[k] EXCEPT !.anchor = a] ELSE Fresh(a, w)]

\* Sweep keeps exactly the contexts with a real player in them; of several the
\* one seen last is the anchor. The flag `eligible' is set on all that remain.
Present(k) == {h \in Humans : AnchorMatches(k, h)}
Sweep(cs) ==
    LET live == {k \in Keys : Present(k) # {}}
    IN  {[k \in live |-> Ensure(cs, k, a[k], w[k])[k]] :
            a \in {f \in [live -> Humans] : \A k \in live : f[k] \in Present(k)},
            w \in [live -> Seed]}

Elapsed(cs) == [k \in DOMAIN cs |-> [cs[k] EXCEPT !.wait = Less1(@), !.cool = Less1(@),
                                                  !.active = Less1(@)]]

\* Tick: the clock moves on, the rate window and the sweep timer may run out,
\* and the loop over the contexts begins.
Tick ==
    /\ botCool' = [b \in Bots |-> Less1(botCool[b])]
    /\ rate' \in {rate, 0}
    /\ ctx' \in {Elapsed(ctx)} \cup Sweep(Elapsed(ctx))
    /\ work' = DOMAIN ctx'
    /\ UNCHANGED hints

-----------------------------------------------------------------------------
CollectCandidates(k, a) ==
    IF k[1] = "group" THEN GroupBots(grp[a])
    ELSE {b \in Bots : up[b] /\ alive[b] /\ InContext(b, k)}
Pool(k) == {b \in CollectCandidates(k, ctx[k].anchor) : b # ctx[k].last /\ botCool[b] = 0}

ChannelForCtx(k, a) == CASE k[1] = "zone"  -> "general"
                         [] k[1] = "guild" -> "guild"
                         [] k[1] = "group" -> GroupChannel(grp[a])

HumanRaid(b) == IF grp[b] \in raid /\ RealAnchors(grp[b]) # {} THEN {grp[b]} ELSE {}

\* Mutant of RaidReady: the destination's pace is not looked at.
RaidReadyAlways(r, b) == r \in DOMAIN ctx /\ AnchorMatches(r, ctx[r].anchor)
\* The raid context takes the line only if it could have spoken by itself.
RaidReady(r, b) ==
    /\ r \in DOMAIN ctx /\ AnchorMatches(r, ctx[r].anchor)
    /\ ctx[r].cool = 0 /\ ctx[r].wait = 0 /\ ctx[r].last # b

\* PBChatterEvents::Take: a bot's event hint serves once.
Take(b) == hints' = hints \ {b}

\* The line is offered to the queue; the hint is used up either way.
Emit(cs, t, b) ==
    /\ Take(b)
    /\ \/ /\ Headroom
          /\ jobs' = Append(jobs, Line(b, NoOne, ChannelForCtx(t, cs[t].anchor), t, cs[t].anchor, FALSE))
          /\ rate' = rate + 1
          /\ botCool' = [botCool EXCEPT ![b] = PerBotCooldown]
          /\ \E w \in NextInterval(cs[t].active) : ctx' = [cs EXCEPT ![t].wait = w]
       \/ /\ ~Headroom
          /\ ctx' = [cs EXCEPT ![t].wait = Retry]
          /\ UNCHANGED <<jobs, rate, botCool>>

\* The context gives up this turn until the given time.
Pass(k, waits) ==
    /\ \E w \in waits : ctx' = [ctx EXCEPT ![k].wait = w]
    /\ UNCHANGED <<jobs, rate, botCool, hints>>

TryEmit(k) ==
    IF \/ MaxPerMin # 0 /\ rate >= MaxPerMin
       \/ ~AnchorMatches(k, ctx[k].anchor)
    THEN Pass(k, {Retry})
    ELSE IF Pool(k) = {} THEN Pass(k, NextInterval(ctx[k].active))
    ELSE \E b \in Pool(k) :
            \/ Emit(ctx, k, b)
            \/ /\ RaidPreference /\ k[1] # "group"
               /\ \E g \in HumanRaid(b), w \in NextInterval(ctx[k].active) :
                    LET cs == [ctx EXCEPT ![k].wait = w] r == <<"group", g>>
                    IN  IF RaidReady(r, b) THEN Emit(cs, r, b)
                        ELSE ctx' = cs /\ UNCHANGED <<jobs, rate, botCool, hints>>

\* One round of the loop in Tick.
Visit(k) ==
    /\ k \in work /\ work' = work \ {k}
    /\ IF ctx[k].cool > 0 \/ ctx[k].wait > 0
       THEN UNCHANGED <<ctx, jobs, rate, botCool, hints>>
       ELSE TryEmit(k)
    /\ UNCHANGED <<people, results, enabled, ambientOn>>

-----------------------------------------------------------------------------
Sooner(w, follow) == IF w > follow THEN follow ELSE w

\* A real player's line releases the brakes and calls for a quick answer.
OnPlayerLine(k, a) ==
    \E w \in Seed, f \in Follow :
        ctx' = [Ensure(ctx, k, a, w) EXCEPT
                  ![k].streak = 0, ![k].cool = 0, ![k].last = NoOne, ![k].buffer = TRUE,
                  ![k].active = ActiveWindow, ![k].wait = Sooner(@, f)]

\* A bot's line was delivered: at the cap the context falls silent for a while.
OnBotLineDispatched(k, b) ==
    IF k \notin DOMAIN ctx THEN ctx' = ctx
    ELSE LET c == [ctx[k] EXCEPT !.buffer = TRUE, !.active = ActiveWindow, !.last = b,
                                 !.streak = @ + 1]
         IN  IF c.streak >= StreakMax
             THEN ctx' = [ctx EXCEPT ![k] = [c EXCEPT !.cool = Cooldown, !.streak = 0]]
             ELSE \E f \in Follow : ctx' = [ctx EXCEPT ![k] = [c EXCEPT !.wait = Sooner(@, f)]]
=============================================================================
