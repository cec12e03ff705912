---------------------------- MODULE ChatterScene ----------------------------
(***************************************************************************)
(* Who stands where when bots talk: real players and bots, their zone,     *)
(* group and guild, and the jobs the language model is working on. The     *)
(* worker pool is reduced to its promise (ChatterQueue): jobs start in     *)
(* submission order, at most MaxConcurrent of them at a time.              *)
(***************************************************************************)
EXTENDS Integers, Sequences, FiniteSets, SequencesExt

CONSTANTS Humans, Bots, Zones, Groups, Guilds,
          GuildOf,         \* [Humans \cup Bots -> Guilds \cup {NoOne}]
          NoOne,           \* no player, no group, no guild
          MaxConcurrent,   \* g_PBChatMaxConcurrent, not 0
          MaxJobs          \* bound on the jobs and reactions of one moment

Players == Humans \cup Bots
ASSUME SceneAssumption ==
    /\ Humans \cap Bots = {} /\ NoOne \notin Players \cup Groups \cup Guilds
    /\ GuildOf \in [Players -> Guilds \cup {NoOne}]
    /\ MaxConcurrent \in Nat \ {0} /\ MaxJobs \in Nat

VARIABLES
    zone, grp,    \* where each player is, and in which group
    raid,         \* the groups that are raids
    up, alive,    \* players in the world; players not dead
    jobs,         \* submitted jobs in order; the first MaxConcurrent run
    results,      \* g_results
    enabled, ambientOn   \* g_PBChatEnable, g_PBChatAmbientEnable

people == <<zone, grp, raid, up, alive>>
scene  == <<people, jobs, results, enabled, ambientOn>>

Members(g) == {x \in Players : g # NoOne /\ grp[x] = g}
RealAnchors(g) == {h \in Humans : up[h] /\ h \in Members(g)}
GroupBots(g) == {b \in Bots : up[b] /\ alive[b] /\ b \in Members(g)}
GroupChannel(g) == IF g \in raid THEN "raid" ELSE "party"

\* A job that nobody asked for carries the context it was made for.
Reply(b, p, ch) ==
    [bot |-> b, player |-> p, channel |-> ch, ambient |-> FALSE, key |-> <<"none", NoOne>>,
     anchor |-> NoOne, event |-> FALSE]
Line(b, p, ch, key, anchor, event) ==
    [bot |-> b, player |-> p, channel |-> ch, ambient |-> TRUE, key |-> key,
     anchor |-> anchor, event |-> event]

Headroom == Len(jobs) < MaxConcurrent
Running == 1..(IF Len(jobs) < MaxConcurrent THEN Len(jobs) ELSE MaxConcurrent)

\* RunJob: a worker ends with a reply, which becomes a result, or with silence.
Answered(i) == jobs' = RemoveAt(jobs, i) /\ results' = Append(results, jobs[i])
Silence(i) ==
    /\ i \in Running
    /\ jobs' = RemoveAt(jobs, i)
    /\ UNCHANGED <<people, results, enabled, ambientOn>>

-----------------------------------------------------------------------------
\* What players and the rest of the server do between two world updates.
MoveZone(x) ==
    /\ up[x] /\ \E z \in Zones \ {zone[x]} : zone' = [zone EXCEPT ![x] = z]
    /\ UNCHANGED <<grp, raid, up, alive, jobs, results, enabled, ambientOn>>
LeaveGroup(x) ==
    /\ grp[x] # NoOne /\ grp' = [grp EXCEPT ![x] = NoOne]
    /\ UNCHANGED <<zone, raid, up, alive, jobs, results, enabled, ambientOn>>
JoinGroup(x, g) ==
    /\ up[x] /\ grp[x] = NoOne /\ grp' = [grp EXCEPT ![x] = g]
    /\ UNCHANGED <<zone, raid, up, alive, jobs, results, enabled, ambientOn>>
ConvertToRaid(g) ==
    /\ g \notin raid /\ raid' = raid \cup {g}
    /\ UNCHANGED <<zone, grp, up, alive, jobs, results, enabled, ambientOn>>
LogInOrOut(x) ==
    /\ up' = [up EXCEPT ![x] = ~@]
    /\ UNCHANGED <<zone, grp, raid, alive, jobs, results, enabled, ambientOn>>
DieOrRise(x) ==
    /\ up[x] /\ alive' = [alive EXCEPT ![x] = ~@]
    /\ UNCHANGED <<zone, grp, raid, up, jobs, results, enabled, ambientOn>>
\* OnAfterConfigLoad: an operator reloads the configuration.
ReloadConfig ==
    /\ enabled' \in BOOLEAN /\ ambientOn' \in BOOLEAN
    /\ <<enabled', ambientOn'>> # <<enabled, ambientOn>>
    /\ UNCHANGED <<people, jobs, results>>
=============================================================================
