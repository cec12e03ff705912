-------------------------- MODULE ChatterTalk_proofs --------------------------
(***************************************************************************)
(* Proofs about ChatterTalk: lines nobody asked for keep their pace and    *)
(* stay in the group they were made for, and a clean restart forgets no    *)
(* pair's newest exchange, for every number of players, groups, zones,     *)
(* guilds and flushes, every length of queue and history, every timing.    *)
(***************************************************************************)
EXTENDS ChatterTalk, TLAPS, FiniteSetTheorems, SequenceTheorems, NaturalsInduction,
        WellFoundedInduction

NoKey == <<"none", NoOne>>
Kinds == Recalled \cup {"join", "sighting"}
Lines == [bot : Bots, player : Humans \cup {NoOne},
          channel : {"say", "whisper", "party", "raid", "general", "guild"}, ambient : BOOLEAN,
          key : Keys \cup {NoKey}, anchor : Humans \cup {NoOne}, event : BOOLEAN]
Events == [grp : Groups, anchor : Humans, speaker : Players \cup {NoOne}, kind : Kinds,
           member : Players \cup {NoOne}, at : [zero : BOOLEAN, late : Nat], old : 0..1]
Contexts == [anchor : Humans, wait : Nat, cool : Nat, streak : Nat, active : Nat,
             last : Bots \cup {NoOne}, buffer : BOOLEAN]

(* The inductive invariant: every line that is under way belongs to a        *)
(* context that exists, and so does everything it is made from.              *)
PeopleOK   == play \in Plays /\ zone \in [Players -> Zones] /\ grp \in [Players -> Groups \cup {NoOne}]
IsContexts(cs) == cs \in [DOMAIN cs -> Contexts] /\ DOMAIN cs \subseteq Keys
ContextsOK == IsContexts(ctx) /\ work \subseteq DOMAIN ctx
LinesOK    == jobs \in Seq(Lines) /\ results \in Seq(Lines) /\ inbox \in Seq(Lines)
EventsOK   == reactions \in Seq(Events) /\ batch \in Seq(Events) /\ ticked \in BOOLEAN /\ lag \in Nat
TalkInv == PeopleOK /\ ContextsOK /\ LinesOK /\ EventsOK

-----------------------------------------------------------------------------
(* Sequences. *)

LEMMA NewestKeeps ==
  ASSUME NEW S, NEW s \in Seq(S), NEW n \in Nat PROVE Newest(s, n) \in Seq(S)
BY DEF Newest

LEMMA RemoveAtKeeps ==
  ASSUME NEW S, NEW s \in Seq(S), NEW i \in 1..Len(s)
  PROVE  RemoveAt(s, i) \in Seq(S) /\ Len(RemoveAt(s, i)) < Len(s)
<1>1. /\ SubSeq(s, 1, i - 1) \in Seq(S) /\ SubSeq(s, i + 1, Len(s)) \in Seq(S)
      /\ Len(SubSeq(s, 1, i - 1)) = i - 1 /\ Len(SubSeq(s, i + 1, Len(s))) = Len(s) - i
  OBVIOUS
<1> DEFINE a == SubSeq(s, 1, i - 1)  b == SubSeq(s, i + 1, Len(s))
<1>2. RemoveAt(s, i) = a \o b BY DEF RemoveAt
<1> HIDE DEF a, b
<1>3. a \in Seq(S) /\ b \in Seq(S) /\ Len(a) = i - 1 /\ Len(b) = Len(s) - i BY <1>1 DEF a, b
<1>4. a \o b \in Seq(S) /\ Len(a \o b) = Len(a) + Len(b) BY <1>3, ConcatProperties
<1>5. Len(s) \in Nat OBVIOUS
<1> QED BY <1>2, <1>3, <1>4, <1>5

LEMMA SetToSeqKeeps ==
  ASSUME NEW S, NEW T, IsFiniteSet(T), T \subseteq S PROVE SetToSeq(T) \in Seq(S)
<1>1. Cardinality(T) \in Nat /\ ExistsBijection(1..Cardinality(T), T) BY FS_CardinalityType
<1>2. \E f \in [1..Cardinality(T) -> T] : IsInjective(f)
  BY <1>1 DEF ExistsBijection, Bijection, Injection
<1>3. SetToSeq(T) \in [1..Cardinality(T) -> T] BY <1>2 DEF SetToSeq
<1> QED BY <1>1, <1>3

-----------------------------------------------------------------------------
LEMMA KeysAre ==
  /\ \A k \in Keys : \/ k[1] = "zone" /\ k[2] \in Zones
                     \/ k[1] = "group" /\ k[2] \in Groups
                     \/ k[1] = "guild" /\ k[2] \in Guilds
  /\ \A z \in Zones : <<"zone", z>> \in Keys
  /\ \A g \in Groups : <<"group", g>> \in Keys
  /\ \A g \in Guilds : <<"guild", g>> \in Keys
BY DEF Keys

LEMMA InitInv == Init => TalkInv
<1> SUFFICES ASSUME Init PROVE TalkInv OBVIOUS
<1>1. PeopleOK
  <2>1. play \in Plays /\ zone = play.zone /\ grp = play.grp BY DEF Init
  <2> QED BY <2>1, TalkAssumption DEF PeopleOK
<1>2. ContextsOK
  <2>1. ctx = <<>> /\ work = {} BY DEF Init, AmbientInit
  <2>2. DOMAIN ctx = {} /\ ctx = [k \in {} |-> ctx[k]] BY <2>1
  <2> QED BY <2>1, <2>2 DEF ContextsOK, IsContexts
<1>3. LinesOK BY DEF Init, LinesOK
<1>4. EventsOK
  <2>1. reactions = <<>> /\ batch = <<>> /\ ticked = FALSE /\ lag = 0 BY DEF Init, EventsInit
  <2>2. reactions \in Seq(Events) /\ batch \in Seq(Events) BY <2>1, EmptySeq
  <2>3. ticked \in BOOLEAN BY <2>1, Zenon
  <2>4. lag \in Nat BY <2>1
  <2> QED BY <2>2, <2>3, <2>4 DEF EventsOK
<1> QED BY <1>1, <1>2, <1>3, <1>4 DEF TalkInv

(* What a reply is. *)
LEMMA RepliesAre ==
  ASSUME NEW b \in Bots, NEW h \in Humans, NEW ch \in {"say", "whisper", "party", "raid"}
  PROVE  Reply(b, h, ch) \in Lines /\ ~Reply(b, h, ch).ambient
BY DEF Reply, Lines, NoKey

LEMMA EnqueueKeeps ==
  ASSUME jobs \in Seq(Lines), NEW h \in Humans, NEW ch \in {"say", "whisper", "party", "raid"},
         NEW targets \in SUBSET Bots, Enqueue(h, targets, ch)
  PROVE  /\ jobs' \in Seq(Lines)
         /\ Len(jobs') > Len(jobs) => ~Last(jobs').ambient
<1> DEFINE R == {Reply(b, h, ch) : b \in targets}
<1> DEFINE Quiet == {r \in Lines : ~r.ambient}
<1>1. R \subseteq Quiet BY RepliesAre
<1>2. IsFiniteSet(targets) BY TalkAssumption, FS_Subset
<1>3. IsFiniteSet(R)
  <2> DEFINE f == [b \in targets |-> Reply(b, h, ch)]
  <2>1. f \in Surjection(targets, R) BY DEF Surjection
  <2> HIDE DEF f, R
  <2> QED BY <1>2, <2>1, FS_Surjection
<1>4. SetToSeq(R) \in Seq(Quiet) BY <1>1, <1>3, SetToSeqKeeps
<1>5. SetToSeq(R) \in Seq(Lines) BY <1>1, <1>3, SetToSeqKeeps
<1>6. jobs' = jobs \o SetToSeq(R) BY DEF Enqueue
<1> HIDE DEF R, Quiet
<1>7. jobs' \in Seq(Lines) /\ Len(jobs') = Len(jobs) + Len(SetToSeq(R))
      /\ \A i \in 1 .. Len(jobs) + Len(SetToSeq(R)) :
           jobs'[i] = IF i <= Len(jobs) THEN jobs[i] ELSE SetToSeq(R)[i - Len(jobs)]
  BY <1>5, <1>6, ConcatProperties
<1>8. ASSUME Len(jobs') > Len(jobs) PROVE ~Last(jobs').ambient
  <2>1. Len(jobs) \in Nat /\ Len(SetToSeq(R)) \in Nat BY <1>5
  <2>2. Last(jobs') = SetToSeq(R)[Len(SetToSeq(R))] BY <1>7, <1>8, <2>1 DEF Last
  <2>3. Last(jobs') \in Quiet BY <1>4, <1>7, <1>8, <2>1, <2>2, ElementOfSeq
  <2> QED BY <2>3 DEF Quiet
<1> QED BY <1>7, <1>8

-----------------------------------------------------------------------------
(* What players say. *)

LEMMA PaceIs ==
  ASSUME NEW n PROVE NextInterval(n) \subseteq Nat /\ Retry \in Nat
BY AmbientAssumption DEF NextInterval

LEMMA EnsureKeeps ==
  ASSUME NEW cs, IsContexts(cs), NEW k \in Keys, NEW a \in Humans, NEW w \in Nat
  PROVE  /\ IsContexts(Ensure(cs, k, a, w))
         /\ DOMAIN Ensure(cs, k, a, w) = DOMAIN cs \cup {k}
BY DEF IsContexts, Ensure, Fresh, Contexts

(* A player's line comes from a context that exists.                         *)
LEMMA PlayerLineKeeps ==
  ASSUME IsContexts(ctx), NEW k \in Keys, NEW a \in Humans, OnPlayerLine(k, a)
  PROVE  IsContexts(ctx') /\ DOMAIN ctx \subseteq DOMAIN ctx'
<1>1. PICK w \in Seed, f \in Follow :
        ctx' = [Ensure(ctx, k, a, w) EXCEPT
                  ![k].streak = 0, ![k].cool = 0, ![k].last = NoOne, ![k].buffer = TRUE,
                  ![k].active = ActiveWindow, ![k].wait = Sooner(@, f)]
  BY DEF OnPlayerLine
<1>2. w \in Nat /\ f \in Nat /\ ActiveWindow \in Nat BY AmbientAssumption
<1> DEFINE cs == Ensure(ctx, k, a, w)
<1>3. IsContexts(cs) /\ DOMAIN cs = DOMAIN ctx \cup {k} BY <1>2, EnsureKeeps
<1>4. ctx' = [cs EXCEPT ![k] = [cs[k] EXCEPT !.streak = 0, !.cool = 0, !.last = NoOne, !.buffer = TRUE,
                                            !.active = ActiveWindow, !.wait = Sooner(@, f)]]
  <2> HIDE DEF cs
  <2> QED BY <1>1, <1>3 DEF IsContexts, Contexts, cs
<1> HIDE DEF cs
<1>5. cs[k] \in Contexts /\ Sooner(cs[k].wait, f) \in Nat BY <1>2, <1>3 DEF IsContexts, Contexts, Sooner
<1>6. [cs[k] EXCEPT !.streak = 0, !.cool = 0, !.last = NoOne, !.buffer = TRUE,
                    !.active = ActiveWindow, !.wait = Sooner(@, f)] \in Contexts
  BY <1>2, <1>5 DEF Contexts
<1> QED BY <1>3, <1>4, <1>6 DEF IsContexts

LEMMA TalkKeeps ==
  ASSUME TalkInv, NEW h \in Humans, PlayerTalks(h), play' = play
  PROVE  TalkInv' /\ (Len(jobs') > Len(jobs) => ~Last(jobs').ambient)
<1>1. jobs \in Seq(Lines) /\ IsContexts(ctx) /\ zone[h] \in Zones /\ grp[h] \in Groups \cup {NoOne}
  BY DEF TalkInv, LinesOK, ContextsOK, PeopleOK, Players
<1>2. UNCHANGED <<zone, grp, results, inbox, work, reactions, batch, ticked, lag>>
  BY DEF PlayerTalks, people, events
<1>3. PICK msg \in Messages :
        \/ Say(h, msg) \/ \E b \in Bots : Whisper(h, b, msg)
        \/ SayToGroup(h, msg) \/ SayToGuild(h, msg) \/ SayInGeneral(h, msg)
  BY DEF PlayerTalks
<1>4. /\ jobs' \in Seq(Lines) /\ IsContexts(ctx') /\ DOMAIN ctx \subseteq DOMAIN ctx'
      /\ Len(jobs') > Len(jobs) => ~Last(jobs').ambient
  <2>1. CASE Say(h, msg)
    <3>1. PICK t \in SUBSET Bots : Enqueue(h, t, "say") BY <2>1 DEF Say, PickFanout
    <3> QED BY <1>1, <2>1, <3>1, EnqueueKeeps DEF Say
  <2>2. ASSUME NEW b \in Bots, Whisper(h, b, msg)
        PROVE  /\ jobs' \in Seq(Lines) /\ IsContexts(ctx') /\ DOMAIN ctx \subseteq DOMAIN ctx'
               /\ Len(jobs') > Len(jobs) => ~Last(jobs').ambient
    <3> DEFINE r == Reply(b, h, "whisper")
    <3>1. jobs' = Append(jobs, r) /\ ctx' = ctx BY <2>2 DEF Whisper
    <3>2. r \in Lines /\ ~r.ambient BY RepliesAre
    <3> HIDE DEF r
    <3> QED BY <1>1, <3>1, <3>2 DEF Last
  <2>3. CASE SayToGroup(h, msg)
    <3>1. grp[h] \in Groups BY <1>1, <2>3 DEF SayToGroup
    <3>2. jobs' = jobs \/ \E t \in SUBSET Bots, ch \in {"party", "raid"} : Enqueue(h, t, ch)
      BY <2>3 DEF SayToGroup, PickFanout, GroupChannel
    <3>3. jobs' \in Seq(Lines) /\ (Len(jobs') > Len(jobs) => ~Last(jobs').ambient)
      BY <1>1, <3>2, EnqueueKeeps
    <3>4. ctx' = ctx \/ OnPlayerLine(<<"group", grp[h]>>, h) BY <2>3 DEF SayToGroup
    <3> QED BY <1>1, <3>1, <3>3, <3>4, KeysAre, PlayerLineKeeps
  <2>4. CASE SayToGuild(h, msg)
    <3>1. <<"guild", GuildOf[h]>> \in Keys BY <2>4, SceneAssumption, KeysAre DEF SayToGuild, Players
    <3> QED BY <1>1, <2>4, <3>1, PlayerLineKeeps DEF SayToGuild
  <2>5. CASE SayInGeneral(h, msg)
    <3>1. <<"zone", zone[h]>> \in Keys BY <1>1, KeysAre
    <3> QED BY <1>1, <2>5, <3>1, PlayerLineKeeps DEF SayInGeneral
  <2> QED BY <1>3, <2>1, <2>2, <2>3, <2>4, <2>5
<1>5. PeopleOK' BY <1>2 DEF TalkInv, PeopleOK
<1>6. ContextsOK' BY <1>2, <1>4 DEF TalkInv, ContextsOK
<1>7. LinesOK' BY <1>2, <1>4 DEF TalkInv, LinesOK
<1>8. EventsOK' BY <1>2 DEF TalkInv, EventsOK
<1> QED BY <1>4, <1>5, <1>6, <1>7, <1>8 DEF TalkInv

-----------------------------------------------------------------------------
(* The ambient director. *)

LEMMA WaitKeeps ==
  ASSUME NEW cs, IsContexts(cs), NEW k, NEW w \in Nat, NEW new, new = [cs EXCEPT ![k].wait = w]
  PROVE  IsContexts(new) /\ DOMAIN new = DOMAIN cs
BY DEF IsContexts, Contexts

LEMMA EmitKeeps ==
  ASSUME jobs \in Seq(Lines), NEW cs, IsContexts(cs), NEW t \in Keys, NEW b \in Bots,
         cs[t].anchor \in Humans, Emit(cs, t, b)
  PROVE  /\ jobs' \in Seq(Lines) /\ IsContexts(ctx') /\ DOMAIN ctx' = DOMAIN cs
         /\ Len(jobs') > Len(jobs) =>
              /\ Last(jobs').bot = b /\ Last(jobs').key = t /\ Last(jobs').anchor = cs[t].anchor
<1> DEFINE r == Line(b, NoOne, ChannelForCtx(t, cs[t].anchor), t, cs[t].anchor, FALSE)
<1>1. ChannelForCtx(t, cs[t].anchor) \in {"general", "guild", "party", "raid"}
  BY KeysAre DEF ChannelForCtx, GroupChannel
<1>2. r \in Lines /\ r.bot = b /\ r.key = t /\ r.anchor = cs[t].anchor BY <1>1 DEF Line, Lines
<1>3. /\ jobs' = Append(jobs, r) \/ jobs' = jobs
      /\ \E w \in Nat : ctx' = [cs EXCEPT ![t].wait = w]
  BY PaceIs DEF Emit
<1> HIDE DEF r
<1>4. IsContexts(ctx') /\ DOMAIN ctx' = DOMAIN cs BY <1>3, WaitKeeps
<1>5. jobs' \in Seq(Lines) BY <1>2, <1>3
<1>6. ASSUME Len(jobs') > Len(jobs)
      PROVE  Last(jobs').bot = b /\ Last(jobs').key = t /\ Last(jobs').anchor = cs[t].anchor
  <2>1. jobs' = Append(jobs, r) BY <1>3, <1>6
  <2>2. Last(jobs') = r BY <1>2, <2>1 DEF Last
  <2> QED BY <1>2, <2>2
<1> QED BY <1>4, <1>5, <1>6

(* What the director submits finds its context off the brakes.               *)
Paced ==
  Len(jobs') > Len(jobs) =>
    LET r == Last(jobs') c == ctx[r.key] IN
      /\ c.cool = 0 /\ c.wait = 0 /\ c.last # r.bot /\ botCool[r.bot] = 0
      /\ AnchorMatches(r.key, r.anchor)

LEMMA VisitKeeps ==
  ASSUME TalkInv, NEW k \in Keys, Visit(k)
  PROVE  jobs' \in Seq(Lines) /\ IsContexts(ctx') /\ work' \subseteq DOMAIN ctx' /\ Paced
<1>1. jobs \in Seq(Lines) /\ IsContexts(ctx) /\ work \subseteq DOMAIN ctx
  BY DEF TalkInv, LinesOK, ContextsOK
<1>2. work' \subseteq DOMAIN ctx /\ k \in DOMAIN ctx BY <1>1 DEF Visit
<1>3. CASE UNCHANGED <<ctx, jobs>> BY <1>1, <1>2, <1>3 DEF Paced
<1>4. CASE TryEmit(k) /\ ctx[k].cool = 0 /\ ctx[k].wait = 0 /\ AnchorMatches(k, ctx[k].anchor)
  <2>1. ASSUME NEW waits \in SUBSET Nat, Pass(k, waits)
        PROVE  jobs' \in Seq(Lines) /\ IsContexts(ctx') /\ DOMAIN ctx' = DOMAIN ctx /\ Paced
    <3>1. PICK w \in waits : ctx' = [ctx EXCEPT ![k].wait = w] BY <2>1 DEF Pass
    <3>2. jobs' = jobs BY <2>1 DEF Pass
    <3>3. IsContexts(ctx') /\ DOMAIN ctx' = DOMAIN ctx BY <1>1, <3>1, WaitKeeps
    <3>4. ~(Len(jobs') > Len(jobs)) BY <1>1, <3>2
    <3>5. Paced BY <3>4 DEF Paced
    <3> QED BY <1>1, <3>2, <3>3, <3>5
  <2>2. ASSUME NEW b \in Pool(k), Emit(ctx, k, b)
        PROVE  jobs' \in Seq(Lines) /\ IsContexts(ctx') /\ DOMAIN ctx' = DOMAIN ctx /\ Paced
    <3>1. b \in Bots /\ b # ctx[k].last /\ botCool[b] = 0
      BY <2>2 DEF Pool, CollectCandidates, GroupBots
    <3>2. ctx[k].anchor \in Humans BY <1>4 DEF AnchorMatches
    <3>3. /\ jobs' \in Seq(Lines) /\ IsContexts(ctx') /\ DOMAIN ctx' = DOMAIN ctx
          /\ Len(jobs') > Len(jobs) =>
               /\ Last(jobs').bot = b /\ Last(jobs').key = k /\ Last(jobs').anchor = ctx[k].anchor
      BY <1>1, <2>2, <3>1, <3>2, EmitKeeps
    <3> QED BY <1>4, <3>1, <3>3 DEF Paced
  <2>3. ASSUME NEW b \in Pool(k), k[1] # "group", NEW g \in HumanRaid(b), NEW w \in Nat,
               LET cs == [ctx EXCEPT ![k].wait = w] r == <<"group", g>>
               IN  IF RaidReady(r, b) THEN Emit(cs, r, b)
                   ELSE ctx' = cs /\ UNCHANGED <<jobs, rate, botCool, hints>>
        PROVE  jobs' \in Seq(Lines) /\ IsContexts(ctx') /\ DOMAIN ctx' = DOMAIN ctx /\ Paced
    <3> DEFINE cs == [ctx EXCEPT ![k].wait = w]  r == <<"group", g>>
    <3>1. IsContexts(cs) /\ DOMAIN cs = DOMAIN ctx BY <1>1, WaitKeeps
    <3>2. CASE ~RaidReady(r, b)
      <4>1. ctx' = cs /\ jobs' = jobs BY <2>3, <3>2
      <4> QED BY <1>1, <3>1, <4>1 DEF Paced
    <3>3. CASE RaidReady(r, b)
      <4>1. /\ r \in DOMAIN ctx /\ AnchorMatches(r, ctx[r].anchor)
            /\ ctx[r].cool = 0 /\ ctx[r].wait = 0 /\ ctx[r].last # b
        BY <3>3 DEF RaidReady
      <4>2. b \in Bots /\ botCool[b] = 0 BY <2>3 DEF Pool, CollectCandidates, GroupBots
      <4>3. r # k BY <2>3
      <4>4. cs[r] = ctx[r] BY <4>1, <4>3
      <4>5. r \in Keys /\ ctx[r].anchor \in Humans BY <1>1, <4>1 DEF AnchorMatches, IsContexts
      <4>6. Emit(cs, r, b) BY <2>3, <3>3
      <4> HIDE DEF cs, r
      <4>7. /\ jobs' \in Seq(Lines) /\ IsContexts(ctx') /\ DOMAIN ctx' = DOMAIN cs
            /\ Len(jobs') > Len(jobs) =>
                 /\ Last(jobs').bot = b /\ Last(jobs').key = r /\ Last(jobs').anchor = cs[r].anchor
        BY <1>1, <3>1, <4>2, <4>4, <4>5, <4>6, EmitKeeps
      <4> QED BY <3>1, <4>1, <4>2, <4>4, <4>7 DEF Paced
    <3> QED BY <3>2, <3>3
  <2>4. \A w \in NextInterval(ctx[k].active) : w \in Nat BY PaceIs
  <2>5. NextInterval(ctx[k].active) \in SUBSET Nat /\ {Retry} \in SUBSET Nat BY PaceIs
  <2> QED BY <1>2, <1>4, <2>1, <2>2, <2>3, <2>4, <2>5 DEF TryEmit
<1>5. CASE Pass(k, {Retry})
  <2>1. ctx' = [ctx EXCEPT ![k].wait = Retry] /\ jobs' = jobs BY <1>5 DEF Pass
  <2>2. IsContexts(ctx') /\ DOMAIN ctx' = DOMAIN ctx BY <1>1, <2>1, PaceIs, WaitKeeps
  <2>3. ~(Len(jobs') > Len(jobs)) BY <1>1, <2>1
  <2>4. Paced BY <2>3 DEF Paced
  <2> QED BY <1>1, <1>2, <2>1, <2>2, <2>4
<1>6. Visit(k) => \/ UNCHANGED <<ctx, jobs>> \/ Pass(k, {Retry})
                  \/ TryEmit(k) /\ ~(ctx[k].cool > 0 \/ ctx[k].wait > 0) /\ AnchorMatches(k, ctx[k].anchor)
  BY DEF Visit, TryEmit
<1>7. ctx[k].cool \in Nat /\ ctx[k].wait \in Nat BY <1>1, <1>2 DEF IsContexts, Contexts
<1> QED BY <1>3, <1>4, <1>5, <1>6, <1>7

-----------------------------------------------------------------------------
(* Events. *)

LEMMA QueueKeeps ==
  ASSUME EventsOK, PeopleOK, NEW x \in Players, NEW kind \in Kinds, NEW speaker \in Players \cup {NoOne},
         NEW key, NEW member \in Players \cup {NoOne},
         QueueEventReaction(x, kind, speaker, key, member)
  PROVE  reactions' \in Seq(Events)
<1>1. CASE reactions' = reactions BY <1>1 DEF EventsOK
<1>2. CASE reactions' # reactions
  <2>1. grp[x] \in Groups BY <1>2 DEF QueueEventReaction, PeopleOK
  <2>2. PICK a \in Humans : reactions' = Newest(Append(reactions,
            [grp |-> grp[x], anchor |-> a, speaker |-> speaker, kind |-> kind,
             member |-> member, at |-> StampedAt, old |-> 0]), MaxReactions)
    BY <1>2 DEF QueueEventReaction, RealAnchors
  <2> DEFINE ev == [grp |-> grp[x], anchor |-> a, speaker |-> speaker, kind |-> kind,
                    member |-> member, at |-> StampedAt, old |-> 0]
  <2>3. StampedAt \in [zero : BOOLEAN, late : Nat] BY DEF StampedAt, EventsOK
  <2>4. ev \in Events BY <2>1, <2>3 DEF Events
  <2> HIDE DEF ev
  <2>5. Append(reactions, ev) \in Seq(Events) BY <2>4 DEF EventsOK
  <2>6. reactions' = Newest(Append(reactions, ev), MaxReactions) BY <2>2 DEF ev
  <2> QED BY <2>5, <2>6, TalkAssumption, NewestKeeps
<1> QED BY <1>1, <1>2

LEMMA RecordKeeps ==
  ASSUME EventsOK, PeopleOK, NEW x \in Players, NEW kind \in Kinds, Record(x, kind)
  PROVE  EventsOK'
<1>1. UNCHANGED <<batch, ticked, lag>> BY DEF Record
<1>2. reactions' = reactions \/ \E speaker \in {x, NoOne} : QueueEventReaction(x, kind, speaker, <<kind, x>>, NoOne)
  BY DEF Record
<1>3. reactions' \in Seq(Events) BY <1>2, QueueKeeps DEF EventsOK
<1> QED BY <1>1, <1>3 DEF EventsOK

LEMMA JoinKeeps ==
  ASSUME EventsOK, NEW x \in Players, NEW g \in Groups, RecordGroupJoin(x, g)
  PROVE  reactions' \in Seq(Events)
<1>1. CASE reactions' = reactions BY <1>1 DEF EventsOK
<1>2. CASE reactions' # reactions
  <2>1. PICK a \in Humans : reactions' = Newest(Append(reactions,
            [grp |-> g, anchor |-> a, speaker |-> NoOne, kind |-> "join",
             member |-> x, at |-> StampedAt, old |-> 0]), MaxReactions)
    BY <1>2 DEF RecordGroupJoin, RealAnchors
  <2> DEFINE ev == [grp |-> g, anchor |-> a, speaker |-> NoOne, kind |-> "join",
                    member |-> x, at |-> StampedAt, old |-> 0]
  <2>2. StampedAt \in [zero : BOOLEAN, late : Nat] BY DEF StampedAt, EventsOK
  <2>k. "join" \in Kinds BY DEF Kinds
  <2>3. ev \in Events
    <3>1. x \in Players \cup {NoOne} /\ NoOne \in Players \cup {NoOne} OBVIOUS
    <3> DEFINE st == StampedAt
    <3>2. st \in [zero : BOOLEAN, late : Nat] BY <2>2
    <3> HIDE DEF st
    <3> QED BY <2>k, <3>1, <3>2 DEF Events, st
  <2> HIDE DEF ev
  <2>4. Append(reactions, ev) \in Seq(Events) BY <2>3 DEF EventsOK
  <2>5. reactions' = Newest(Append(reactions, ev), MaxReactions) BY <2>1 DEF ev
  <2> QED BY <2>4, <2>5, TalkAssumption, NewestKeeps
<1> QED BY <1>1, <1>2

LEMMA ClockKeeps ==
  ASSUME EventsOK, EventsClock PROVE EventsOK'
<1>1. reactions' = [i \in DOMAIN reactions |-> [reactions[i] EXCEPT !.old = 1]] /\ batch' = batch
  BY DEF EventsClock
<1>2. \A i \in 1..Len(reactions) : [reactions[i] EXCEPT !.old = 1] \in Events
  <2> SUFFICES ASSUME NEW i \in 1..Len(reactions) PROVE [reactions[i] EXCEPT !.old = 1] \in Events OBVIOUS
  <2>1. reactions[i] \in Events BY DEF EventsOK
  <2> QED BY <2>1 DEF Events
<1>3. DOMAIN reactions = 1..Len(reactions) /\ Len(reactions) \in Nat BY DEF EventsOK
<1>4. reactions' \in [1..Len(reactions) -> Events] BY <1>1, <1>2, <1>3
<1>5. reactions' \in Seq(Events) BY <1>3, <1>4
<1>6. ticked' \in BOOLEAN BY DEF EventsClock
<1>7. lag' \in Nat BY DEF EventsClock, EventsOK
<1> QED BY <1>1, <1>5, <1>6, <1>7 DEF EventsOK

LEMMA ReactKeeps ==
  ASSUME EventsOK, jobs \in Seq(Lines), React
  PROVE  /\ EventsOK' /\ jobs' \in Seq(Lines)
         /\ Len(jobs') > Len(jobs) => Last(jobs').event
<1>1. batch' = <<>> \/ batch' = Tail(batch) BY DEF React
<1>2. batch # <<>> /\ UNCHANGED <<reactions, ticked, lag>> BY DEF React
<1>3. Head(batch) \in Events /\ batch' \in Seq(Events)
  BY <1>1, <1>2, EmptySeq, HeadTailProperties DEF EventsOK
<1>4. EventsOK' BY <1>2, <1>3 DEF EventsOK
<1>5. CASE jobs' = jobs BY <1>4, <1>5
<1>6. CASE jobs' # jobs
  <2> DEFINE ev == Head(batch)
  <2>1. PICK b \in Speakers(ev) :
          jobs' = Append(jobs, Line(b, ev.anchor, GroupChannel(ev.grp), <<"group", ev.grp>>, ev.anchor, TRUE))
    BY <1>6 DEF React
  <2> DEFINE r == Line(b, ev.anchor, GroupChannel(ev.grp), <<"group", ev.grp>>, ev.anchor, TRUE)
  <2>2. b \in Bots /\ ev.grp \in Groups /\ ev.anchor \in Humans
    BY <1>3 DEF Speakers, GroupBots, Events
  <2>3. r \in Lines /\ r.event BY <2>2, KeysAre DEF Line, Lines, GroupChannel
  <2>4. jobs' = Append(jobs, r) BY <2>1
  <2> HIDE DEF r
  <2>5. Last(jobs') = r /\ jobs' \in Seq(Lines) BY <2>3, <2>4 DEF Last
  <2> QED BY <1>4, <2>3, <2>5
<1> QED BY <1>5, <1>6
-----------------------------------------------------------------------------
(* What comes back from the workers and goes out. *)

LEMMA FinishKeeps ==
  ASSUME TalkInv, NEW i, Finish(i)
  PROVE  LinesOK' /\ Len(jobs') < Len(jobs)
<1>1. jobs \in Seq(Lines) /\ results \in Seq(Lines) /\ inbox' = inbox
  BY DEF TalkInv, LinesOK, Finish
<1>2. i \in 1..Len(jobs)
  <2>1. Len(jobs) \in Nat /\ MaxConcurrent \in Nat BY <1>1, SceneAssumption
  <2>2. i \in Running BY DEF Finish
  <2> QED BY <2>1, <2>2 DEF Running
<1>3. jobs' = RemoveAt(jobs, i) /\ (results' = results \/ results' = Append(results, jobs[i]))
  BY DEF Finish, Silence, Answered
<1>4. jobs' \in Seq(Lines) /\ Len(jobs') < Len(jobs) BY <1>1, <1>2, <1>3, RemoveAtKeeps
<1>5. results' \in Seq(Lines)
  <2>1. jobs[i] \in Lines BY <1>1, <1>2, ElementOfSeq
  <2> HIDE DEF Lines
  <2> QED BY <1>1, <1>3, <2>1
<1> QED BY <1>1, <1>4, <1>5 DEF TalkInv, LinesOK

LEMMA DispatchKeeps ==
  ASSUME IsContexts(ctx), NEW k, NEW b \in Bots, OnBotLineDispatched(k, b)
  PROVE  IsContexts(ctx') /\ DOMAIN ctx' = DOMAIN ctx
<1>1. CASE k \notin DOMAIN ctx BY <1>1 DEF OnBotLineDispatched
<1>2. CASE k \in DOMAIN ctx
  <2> DEFINE c == [ctx[k] EXCEPT !.buffer = TRUE, !.active = ActiveWindow, !.last = b,
                                 !.streak = @ + 1]
  <2>1. {ActiveWindow, Cooldown} \subseteq Nat BY AmbientAssumption
  <2>2. ctx[k] \in Contexts BY <1>2 DEF IsContexts
  <2>3. c \in Contexts
    <3> DEFINE d == ctx[k]
    <3>1. d \in Contexts /\ d.streak + 1 \in Nat BY <2>2 DEF Contexts
    <3>2. c = [d EXCEPT !.buffer = TRUE, !.active = ActiveWindow, !.last = b, !.streak = d.streak + 1]
      OBVIOUS
    <3> HIDE DEF c, d
    <3> QED BY <2>1, <3>1, <3>2 DEF Contexts
  <2>4. PICK d \in Contexts : ctx' = [ctx EXCEPT ![k] = d]
    <3>1. CASE c.streak >= StreakMax
      <4>1. [c EXCEPT !.cool = Cooldown, !.streak = 0] \in Contexts
        <5> HIDE DEF c
        <5> QED BY <2>1, <2>3 DEF Contexts
      <4> QED BY <1>2, <3>1, <4>1 DEF OnBotLineDispatched
    <3>2. CASE ~(c.streak >= StreakMax)
      <4>1. PICK f \in Follow : ctx' = [ctx EXCEPT ![k] = [c EXCEPT !.wait = Sooner(@, f)]]
        BY <1>2, <3>2 DEF OnBotLineDispatched
      <4>2. [c EXCEPT !.wait = Sooner(@, f)] \in Contexts
        <5> HIDE DEF c
        <5>1. f \in Nat BY AmbientAssumption
        <5>2. Sooner(c.wait, f) \in Nat BY <2>3, <5>1 DEF Contexts, Sooner
        <5> QED BY <2>3, <5>2 DEF Contexts
      <4> QED BY <4>1, <4>2
    <3> QED BY <3>1, <3>2
  <2> QED BY <2>4 DEF IsContexts
<1> QED BY <1>1, <1>2

LEMMA DeliverKeeps ==
  ASSUME TalkInv, Deliver
  PROVE  ContextsOK' /\ inbox' \in Seq(Lines)
<1>1. inbox \in Seq(Lines) /\ IsContexts(ctx) /\ work \subseteq DOMAIN ctx /\ work' = work
  BY DEF TalkInv, LinesOK, ContextsOK, Deliver
<1>2. inbox # <<>> /\ inbox' = Tail(inbox) BY DEF Deliver
<1>3. Head(inbox) \in Lines /\ inbox' \in Seq(Lines) BY <1>1, <1>2, HeadTailProperties
<1>4. Head(inbox).bot \in Bots BY <1>3 DEF Lines
<1>5. ctx' = ctx \/ OnBotLineDispatched(Head(inbox).key, Head(inbox).bot) BY DEF Deliver
<1> QED BY <1>1, <1>3, <1>4, <1>5, DispatchKeeps DEF ContextsOK

LEMMA TickKeeps ==
  ASSUME IsContexts(ctx), Tick
  PROVE  ContextsOK'
<1> DEFINE old == Elapsed(ctx)
<1>1. IsContexts(old)
  <2>1. \A n \in Nat : Less1(n) \in Nat BY DEF Less1
  <2>2. \A k \in DOMAIN ctx : ctx[k] \in Contexts /\ DOMAIN ctx \subseteq Keys BY DEF IsContexts
  <2>3. ASSUME NEW k \in DOMAIN ctx
        PROVE  [ctx[k] EXCEPT !.wait = Less1(@), !.cool = Less1(@), !.active = Less1(@)] \in Contexts
    <3> DEFINE d == ctx[k]
    <3>1. d \in Contexts BY <2>2
    <3>2. Less1(d.wait) \in Nat /\ Less1(d.cool) \in Nat /\ Less1(d.active) \in Nat
      BY <2>1, <3>1 DEF Contexts
    <3> HIDE DEF d
    <3>3. [d EXCEPT !.wait = Less1(@), !.cool = Less1(@), !.active = Less1(@)] \in Contexts
      BY <3>1, <3>2 DEF Contexts
    <3> QED BY <3>3 DEF d
  <2>4. DOMAIN old = DOMAIN ctx BY DEF Elapsed
  <2>5. old \in [DOMAIN ctx -> Contexts] BY <2>3 DEF Elapsed
  <2> HIDE DEF old
  <2> QED BY <2>2, <2>4, <2>5 DEF IsContexts
<1> HIDE DEF old
<1>2. ASSUME ctx' \in Sweep(old) PROVE IsContexts(ctx')
  <2> DEFINE live == {k \in Keys : Present(k) # {}}
  <2>1. PICK a \in {f \in [live -> Humans] : \A k \in live : f[k] \in Present(k)},
             w \in [live -> Seed] : ctx' = [k \in live |-> Ensure(old, k, a[k], w[k])[k]]
    <3> DEFINE A == {f \in [live -> Humans] : \A k \in live : f[k] \in Present(k)}
               W == [live -> Seed]
               G(f, u) == [k \in live |-> Ensure(old, k, f[k], u[k])[k]]
    <3>1. Sweep(old) = {G(f, u) : f \in A, u \in W} BY DEF Sweep
    <3> HIDE DEF A, W, G
    <3>2. PICK a \in A, w \in W : ctx' = G(a, w) BY <1>2, <3>1
    <3> QED BY <3>2 DEF A, W, G
  <2>2. ASSUME NEW k \in live PROVE Ensure(old, k, a[k], w[k])[k] \in Contexts
    <3>1. a[k] \in Humans /\ w[k] \in Nat /\ k \in Keys BY <2>1, AmbientAssumption
    <3> DEFINE x == a[k]  n == w[k]  E == Ensure(old, k, x, n)
    <3>x. x \in Humans /\ n \in Nat BY <3>1
    <3> HIDE DEF x, n
    <3>2. IsContexts(E) /\ DOMAIN E = DOMAIN old \cup {k} BY <1>1, <3>1, <3>x, EnsureKeeps
    <3> HIDE DEF E
    <3>3. E[k] \in Contexts BY <3>2 DEF IsContexts
    <3> QED BY <3>3 DEF E, x, n
  <2>3. ctx' \in [live -> Contexts] BY <2>1, <2>2
  <2> HIDE DEF live
  <2>4. DOMAIN ctx' = live BY <2>3
  <2>5. live \subseteq Keys BY DEF live
  <2> QED BY <2>3, <2>4, <2>5 DEF IsContexts
<1>3. IsContexts(ctx') /\ work' = DOMAIN ctx' BY <1>1, <1>2 DEF Tick, old
<1> QED BY <1>3 DEF ContextsOK
-----------------------------------------------------------------------------
(* Every step keeps the invariant, and only a visit of the director puts a   *)
(* line of its own into the queue.                                           *)

LEMMA Silent ==
  ASSUME jobs \in Seq(Lines), jobs' = jobs \/ jobs' = <<>> PROVE ~(Len(jobs') > Len(jobs))
OBVIOUS

(* The steps that change neither the queue nor the contexts.                 *)
LEMMA SceneryKeeps ==
  ASSUME TalkInv, play' = play, NEW x \in Players, Scenery(x)
  PROVE  TalkInv' /\ jobs' = jobs
<1>1. UNCHANGED <<ctx, work, batch, ticked, lag, inbox>> BY DEF Scenery, ambient
<1>2. UNCHANGED <<jobs, results>>
  BY DEF Scenery, MoveZone, LeaveGroup, LogInOrOut, DieOrRise, JoinGroup, ConvertToRaid
<1>3. zone' \in [Players -> Zones] /\ grp' \in [Players -> Groups \cup {NoOne}]
  BY DEF Scenery, MoveZone, LeaveGroup, LogInOrOut, DieOrRise, JoinGroup, ConvertToRaid,
         TalkInv, PeopleOK
<1>4. reactions' = reactions \/ \E g \in Groups : RecordGroupJoin(x, g) BY DEF Scenery
<1>5. reactions' \in Seq(Events) BY <1>4, JoinKeeps DEF TalkInv, EventsOK
<1>6. PeopleOK' BY <1>3 DEF TalkInv, PeopleOK
<1>7. ContextsOK' BY <1>1 DEF TalkInv, ContextsOK
<1>8. LinesOK' BY <1>1, <1>2 DEF TalkInv, LinesOK
<1>9. EventsOK' BY <1>1, <1>5 DEF TalkInv, EventsOK
<1> QED BY <1>2, <1>6, <1>7, <1>8, <1>9 DEF TalkInv

LEMMA FromScratchKeeps ==
  ASSUME TalkInv, play' = play, FromScratch PROVE TalkInv' /\ jobs' = <<>>
<1>1. PeopleOK' BY DEF FromScratch, TalkInv, PeopleOK
<1>2. ContextsOK'
  <2>1. ctx' = <<>> /\ work' = {} BY DEF FromScratch
  <2>2. DOMAIN ctx' = {} /\ ctx' = [k \in {} |-> ctx'[k]] BY <2>1
  <2> QED BY <2>1, <2>2 DEF ContextsOK, IsContexts
<1>3. LinesOK' BY DEF FromScratch, LinesOK
<1>4. EventsOK'
  <2>1. reactions' = <<>> /\ batch' = <<>> /\ ticked' = FALSE /\ lag' = 0 BY DEF FromScratch
  <2>2. reactions' \in Seq(Events) /\ batch' \in Seq(Events) BY <2>1, EmptySeq
  <2>3. ticked' \in BOOLEAN BY <2>1, Zenon
  <2>4. lag' \in Nat BY <2>1
  <2> QED BY <2>2, <2>3, <2>4 DEF EventsOK
<1> QED BY <1>1, <1>2, <1>3, <1>4 DEF TalkInv, FromScratch

(* Between two updates, and in the update outside the director's rounds.     *)
Calm == TalkInv' /\ (Len(jobs') > Len(jobs) => ~Last(jobs').ambient \/ Last(jobs').event)

LEMMA StepKeeps ==
  ASSUME TalkInv, Step, play' = play
  PROVE  Calm \/ (TalkInv' /\ Paced)
<1> USE DEF Calm
<1>j. jobs \in Seq(Lines) BY DEF TalkInv, LinesOK
<1>1. CASE \E h \in Humans : PlayerTalks(h) BY <1>1, TalkKeeps
<1>2. CASE \E i \in 1..MaxConcurrent : Finish(i)
  <2>1. PICK i \in 1..MaxConcurrent : Finish(i) BY <1>2
  <2>2. LinesOK' /\ Len(jobs') < Len(jobs) BY <2>1, FinishKeeps
  <2>3. UNCHANGED <<people, ambient, events, phase, inbox>> BY <2>1 DEF Finish, Silence
  <2>4. PeopleOK' /\ ContextsOK' /\ EventsOK'
    BY <2>3 DEF TalkInv, PeopleOK, ContextsOK, EventsOK, people, ambient, events
  <2>5. Len(jobs) \in Nat /\ Len(jobs') \in Nat BY <1>j, <2>2 DEF LinesOK
  <2> QED BY <2>2, <2>4, <2>5 DEF TalkInv
<1>3. CASE BeginUpdate
  <2>1. UNCHANGED <<scene, events, inbox>> BY <1>3 DEF BeginUpdate
  <2>2. ContextsOK' BY <1>3, TickKeeps DEF BeginUpdate, TalkInv, ContextsOK, ambient
  <2>3. PeopleOK' /\ LinesOK' /\ EventsOK' /\ jobs' = jobs
    BY <2>1 DEF TalkInv, PeopleOK, LinesOK, EventsOK, people, scene, events
  <2> QED BY <1>j, <2>2, <2>3, Silent DEF TalkInv
<1>4. CASE \E k \in Keys : VisitContext(k)
  <2>1. PICK k \in Keys : VisitContext(k) BY <1>4
  <2>2. jobs' \in Seq(Lines) /\ IsContexts(ctx') /\ work' \subseteq DOMAIN ctx' /\ Paced
    BY <2>1, VisitKeeps DEF VisitContext
  <2>3. UNCHANGED <<people, results, inbox, events>> BY <2>1 DEF VisitContext, Visit
  <2>4. PeopleOK' /\ EventsOK' BY <2>3 DEF TalkInv, PeopleOK, EventsOK, people, events
  <2>5. LinesOK' /\ ContextsOK' BY <2>2, <2>3 DEF TalkInv, LinesOK, ContextsOK
  <2> QED BY <2>2, <2>4, <2>5 DEF TalkInv
<1>5. CASE ReadEventClock
  <2>1. EventsOK' BY <1>5, ClockKeeps DEF ReadEventClock, TalkInv
  <2>2. UNCHANGED <<scene, ambient, inbox>> BY <1>5 DEF ReadEventClock
  <2>3. PeopleOK' /\ ContextsOK' /\ LinesOK' /\ jobs' = jobs
    BY <2>2 DEF TalkInv, PeopleOK, ContextsOK, LinesOK, people, scene, ambient
  <2> QED BY <1>j, <2>1, <2>3, Silent DEF TalkInv
<1>6. CASE \E g \in Groups : ScanGroup(g)
  <2>1. PICK g \in Groups : ScanGroup(g) BY <1>6
  <2>2. PICK a \in Humans, b \in Bots : QueueEventReaction(a, "sighting", b, <<>>, NoOne)
    BY <2>1 DEF ScanGroup, Scan, RealAnchors, GroupBots
  <2>3. UNCHANGED <<scene, ambient, inbox, batch, ticked, lag>> BY <2>1 DEF ScanGroup, Scan
  <2>4. "sighting" \in Kinds BY DEF Kinds
  <2>5. reactions' \in Seq(Events) BY <2>2, <2>4, QueueKeeps DEF TalkInv, Players
  <2>6. EventsOK' BY <2>3, <2>5 DEF TalkInv, EventsOK
  <2>7. PeopleOK' /\ ContextsOK' /\ LinesOK' /\ jobs' = jobs
    BY <2>3 DEF TalkInv, PeopleOK, ContextsOK, LinesOK, people, scene, ambient
  <2> QED BY <1>j, <2>6, <2>7, Silent DEF TalkInv
<1>7. CASE TakeReactions
  <2>1. EventsOK'
    <3>1. batch' = reactions /\ reactions' = <<>> /\ UNCHANGED <<ticked, lag>>
      BY <1>7 DEF TakeReactions, Swap
    <3> QED BY <3>1, EmptySeq DEF TalkInv, EventsOK
  <2>2. UNCHANGED <<scene, ambient, inbox>> BY <1>7 DEF TakeReactions
  <2>3. PeopleOK' /\ ContextsOK' /\ LinesOK' /\ jobs' = jobs
    BY <2>2 DEF TalkInv, PeopleOK, ContextsOK, LinesOK, people, scene, ambient
  <2> QED BY <1>j, <2>1, <2>3, Silent DEF TalkInv
<1>8. CASE ProcessReaction
  <2>1. EventsOK' /\ jobs' \in Seq(Lines) /\ (Len(jobs') > Len(jobs) => Last(jobs').event)
    BY <1>j, <1>8, ReactKeeps DEF ProcessReaction, TalkInv
  <2>2. UNCHANGED <<people, results, ambient, inbox>> BY <1>8 DEF ProcessReaction, React
  <2>3. PeopleOK' /\ ContextsOK' BY <2>2 DEF TalkInv, PeopleOK, ContextsOK, people, ambient
  <2>4. LinesOK' BY <2>1, <2>2 DEF TalkInv, LinesOK
  <2> QED BY <2>1, <2>3, <2>4 DEF TalkInv
<1>9. CASE DrainResults
  <2>1. UNCHANGED <<people, jobs, ambient, events>> BY <1>9 DEF DrainResults
  <2>2. inbox' = results /\ results' = <<>> BY <1>9 DEF DrainResults
  <2>3. LinesOK' BY <2>1, <2>2, EmptySeq DEF TalkInv, LinesOK
  <2>4. PeopleOK' /\ ContextsOK' /\ EventsOK'
    BY <2>1 DEF TalkInv, PeopleOK, ContextsOK, EventsOK, people, ambient, events
  <2> QED BY <1>j, <2>1, <2>3, <2>4, Silent DEF TalkInv
<1>10. CASE Deliver
  <2>1. ContextsOK' /\ inbox' \in Seq(Lines) BY <1>10, DeliverKeeps
  <2>2. UNCHANGED <<scene, events>> BY <1>10 DEF Deliver
  <2>3. PeopleOK' /\ EventsOK' /\ LinesOK' /\ jobs' = jobs
    BY <2>1, <2>2 DEF TalkInv, PeopleOK, EventsOK, LinesOK, people, scene, events
  <2> QED BY <1>j, <2>1, <2>3, Silent DEF TalkInv
<1>11. CASE EndUpdate
  <2>1. UNCHANGED <<scene, ambient, events, inbox>> BY <1>11 DEF EndUpdate
  <2>2. TalkInv' /\ jobs' = jobs
    BY <2>1 DEF TalkInv, PeopleOK, ContextsOK, EventsOK, LinesOK, people, scene, ambient, events
  <2> QED BY <1>j, <2>2, Silent
<1>12. CASE \E x \in Players : Scenery(x) BY <1>j, <1>12, SceneryKeeps, Silent
<1>13. CASE \E x \in Players : \E kind \in play.hooks : Happens(x, kind)
  <2>1. PICK x \in Players, kind \in play.hooks : Happens(x, kind) BY <1>13
  <2>2. kind \in Kinds BY TalkAssumption DEF TalkInv, PeopleOK, Kinds
  <2>3. EventsOK' BY <2>1, <2>2, RecordKeeps DEF Happens, TalkInv
  <2>4. UNCHANGED <<scene, ctx, work, inbox>> BY <2>1 DEF Happens
  <2>5. PeopleOK' /\ ContextsOK' /\ LinesOK' /\ jobs' = jobs
    BY <2>4 DEF TalkInv, PeopleOK, ContextsOK, LinesOK, people, scene
  <2> QED BY <1>j, <2>3, <2>5, Silent DEF TalkInv
<1>14. CASE Reload
  <2>1. UNCHANGED <<people, jobs, results, ambient, events, inbox>> BY <1>14 DEF Reload, ReloadConfig
  <2>2. TalkInv' /\ jobs' = jobs
    BY <2>1 DEF TalkInv, PeopleOK, ContextsOK, EventsOK, LinesOK, people, ambient, events
  <2> QED BY <1>j, <2>2, Silent
<1>15. CASE Shutdown \/ Crash
  <2>1. FromScratch BY <1>15 DEF Shutdown, Crash
  <2> QED BY <1>j, <2>1, FromScratchKeeps, Silent
<1> QED BY <1>1, <1>2, <1>3, <1>4, <1>5, <1>6, <1>7, <1>8, <1>9, <1>10, <1>11, <1>12, <1>13, <1>14, <1>15
        DEF Step
-----------------------------------------------------------------------------
LEMMA NextKeeps == TalkInv /\ [Next]_vars => TalkInv'
<1> SUFFICES ASSUME TalkInv, [Next]_vars PROVE TalkInv' OBVIOUS
<1>1. CASE Next BY <1>1, StepKeeps DEF Next, Calm
<1>2. CASE UNCHANGED vars
  BY <1>2 DEF vars, scene, people, ambient, events, TalkInv, PeopleOK, ContextsOK, LinesOK, EventsOK
<1> QED BY <1>1, <1>2

(* Lines under way name contexts, bots and real players that exist: what the *)
(* director, the reactions, the workers and the delivery hand on is whole.   *)
THEOREM InvHolds == Spec => []TalkInv
BY InitInv, NextKeeps, PTL DEF Spec

(* A line the director submits finds its context off the brakes, however     *)
(* players talk, groups change and configurations are reloaded meanwhile.    *)
THEOREM DirectorKeepsPace == Spec => PacingKept
<1> DEFINE P == Len(jobs') > Len(jobs) /\ Last(jobs').ambient /\ ~Last(jobs').event =>
                  LET r == Last(jobs') c == ctx[r.key] IN
                    /\ c.cool = 0 /\ c.wait = 0 /\ c.last # r.bot /\ botCool[r.bot] = 0
                    /\ AnchorMatches(r.key, r.anchor)
<1>1. TalkInv /\ [Next]_vars => [P]_vars
  <2> SUFFICES ASSUME TalkInv, Next PROVE P OBVIOUS
  <2>1. Calm \/ Paced BY StepKeeps DEF Next
  <2> QED BY <2>1 DEF Calm, Paced
<1>2. Spec => [][P]_vars BY <1>1, InvHolds, PTL DEF Spec
<1> QED BY <1>2 DEF PacingKept

(* A line made for a group is spoken in that group, with a real player of it *)
(* in the world: Belongs looks again when the line goes out.                 *)
THEOREM LinesStayHome == Spec => GroupLinesStayHome
<1> DEFINE P == spoken' \notin {spoken, <<>>} =>
                  LET r == spoken'[1] IN
                    r.ambient /\ r.key[1] = "group" =>
                      grp[r.bot] = r.key[2] /\ RealAnchors(r.key[2]) # {}
<1>1. TalkInv /\ [Next]_vars => [P]_vars
  <2> SUFFICES ASSUME TalkInv, Next, spoken' \notin {spoken, <<>>}
               PROVE  LET r == spoken'[1] IN
                        r.ambient /\ r.key[1] = "group" =>
                          grp[r.bot] = r.key[2] /\ RealAnchors(r.key[2]) # {}
    OBVIOUS
  <2>1. Deliver
    BY DEF Next, Step, PlayerTalks, Finish, BeginUpdate, VisitContext, ReadEventClock, ScanGroup,
           TakeReactions, ProcessReaction, DrainResults, EndUpdate, Scenery, Happens, Reload,
           Shutdown, Crash, FromScratch
  <2> DEFINE r == Head(inbox)
  <2>2. inbox # <<>> /\ Belongs(r) /\ spoken' = <<r>> BY <2>1 DEF Deliver
  <2>3. r \in Lines BY <2>2, HeadTailProperties DEF TalkInv, LinesOK
  <2>4. spoken'[1] = r BY <2>2
  <2> HIDE DEF r
  <2> SUFFICES ASSUME r.ambient, r.key[1] = "group"
               PROVE  grp[r.bot] = r.key[2] /\ RealAnchors(r.key[2]) # {}
    BY <2>4
  <2>5. /\ r.anchor \in Humans /\ up[r.anchor]
        /\ grp[r.bot] = r.key[2] /\ grp[r.anchor] = r.key[2]
    BY <2>2 DEF Belongs
  <2>6. r.key[2] # NoOne BY <2>3, KeysAre, SceneAssumption DEF Lines, NoKey
  <2> QED BY <2>5, <2>6 DEF RealAnchors, Members, Players
<1>2. Spec => [][P]_vars BY <1>1, InvHolds, PTL DEF Spec
<1> QED BY <1>2 DEF GroupLinesStayHome
-----------------------------------------------------------------------------
(* Memory.  A row's ts is the flush that made it, so the rows of a pair come  *)
(* in the order of their ts, each exchange once, and no flush makes more of   *)
(* them than the cache holds.  What is newest in the cache and already has a  *)
(* row has no newer row outside the cache (Unsurpassed): that, and not its age, is  *)
(* why pruning and loading keep it.                                           *)

RowOf == [ex : Exchanges, ts : Nat]
InOrder(q) ==
  /\ \A i, j \in DOMAIN q : i <= j => q[i].ts <= q[j].ts
  /\ \A i, j \in DOMAIN q : q[i].ex = q[j].ex => i = j
SameFlush(q, t) == {r \in ToSet(q) : r.ts = t}
SmallFlushes(q) == \A t \in Nat : Cardinality(SameFlush(q, t)) <= HistoryLen
IsTable(q, fl) ==
  /\ q \in Seq(RowOf) /\ InOrder(q) /\ SmallFlushes(q)
  /\ \A i \in DOMAIN q : q[i].ts < fl

\* Whatever row has e, all rows from that flush on are of exchanges in C.
NoneNewer(q, e, C) ==
  \A r, x \in ToSet(q) : r.ex = e /\ x.ts >= r.ts => x.ex \in C
Unsurpassed(p) == p \in novel /\ cache[p] # <<>> =>
  NoneNewer(rows[p], Last(cache[p]), ToSet(cache[p]))

MemoryInv ==
  /\ flushes \in Nat
  /\ cache \in [Pairs -> Seq(Exchanges)] /\ rows \in [Pairs -> Seq(RowOf)]
  /\ \A p \in Pairs : Len(cache[p]) <= HistoryLen /\ IsTable(rows[p], flushes) /\ Unsurpassed(p)

LEMMA KeptIs ==
  ASSUME NEW S, NEW s \in Seq(S)
  PROVE  \E d \in 0 .. Len(s) :
           /\ d = (IF Len(s) > HistoryLen THEN Len(s) - HistoryLen ELSE 0)
           /\ Kept(s) \in Seq(S) /\ Len(Kept(s)) = Len(s) - d /\ Len(Kept(s)) <= HistoryLen
           /\ \A i \in 1 .. Len(s) - d : Kept(s)[i] = s[i + d]
           /\ ToSet(Kept(s)) \subseteq ToSet(s)
<1> DEFINE n == Len(s)  d == IF n > HistoryLen THEN n - HistoryLen ELSE 0
<1>1. n \in Nat /\ HistoryLen \in Nat /\ DOMAIN s = 1 .. n  BY MemoryAssumption
<1>2. d \in 0 .. n  BY <1>1
<1>3. /\ Kept(s) \in Seq(S) /\ Len(Kept(s)) = n - d /\ Len(Kept(s)) <= HistoryLen
      /\ \A i \in 1 .. n - d : Kept(s)[i] = s[i + d]
  <2>1. CASE n > HistoryLen
    <3> DEFINE a == n - HistoryLen + 1
    <3>1. a \in 1 .. n + 1 /\ Kept(s) = SubSeq(s, a, n)  BY <1>1, <2>1 DEF Kept
    <3>2. /\ SubSeq(s, a, n) \in Seq(S) /\ Len(SubSeq(s, a, n)) = n - a + 1
          /\ \A i \in 1 .. n - a + 1 : SubSeq(s, a, n)[i] = s[a + i - 1]
      <4> HIDE DEF a, d, n
      <4> QED  BY <1>1, <3>1, SubSeqProperties
    <3>3. d = n - HistoryLen /\ a = d + 1 /\ n - a + 1 = n - d /\ n - d = HistoryLen
      BY <1>1, <2>1
    <3> HIDE DEF a, d, n
    <3>4. ASSUME NEW i \in 1 .. n - d PROVE Kept(s)[i] = s[i + d]
      <4>1. a + i - 1 = i + d  BY <1>1, <1>2, <3>3
      <4> QED  BY <3>1, <3>2, <3>3, <4>1
    <3> QED  BY <1>1, <3>1, <3>2, <3>3, <3>4
  <2>2. CASE ~(n > HistoryLen)  BY <1>1, <2>2 DEF Kept
  <2> QED  BY <2>1, <2>2
<1>4. ToSet(Kept(s)) \subseteq ToSet(s)
  <2>1. ASSUME NEW i \in DOMAIN Kept(s) PROVE Kept(s)[i] \in ToSet(s)
    <3>1. i \in 1 .. n - d  BY <1>3, <2>1
    <3>2. i + d \in DOMAIN s /\ Kept(s)[i] = s[i + d]  BY <1>1, <1>2, <1>3, <3>1
    <3> QED  BY <3>2 DEF ToSet
  <2> QED  BY <2>1 DEF ToSet
<1> QED  BY <1>2, <1>3, <1>4

\* Distinct members of a small set leave little room.
LEMMA RoomFor ==
  ASSUME NEW i \in Nat, NEW n \in Nat, i <= n + 1, NEW T, IsFiniteSet(T), NEW f \in [i .. n -> T],
         \A j, k \in i .. n : f[j] = f[k] => j = k
  PROVE  n - i + 1 <= Cardinality(T)
<1>1. f \in Injection(i .. n, T)  BY DEF Injection, IsInjective
<1>2. Cardinality(i .. n) <= Cardinality(T)  BY <1>1, FS_Injection
<1>3. Cardinality(i .. n) = n - i + 1  BY FS_Interval
<1> QED  BY <1>2, <1>3

LEMMA SetOfSeq ==
  ASSUME NEW S, NEW s \in Seq(S)
  PROVE  IsFiniteSet(ToSet(s)) /\ Cardinality(ToSet(s)) \in Nat /\ Cardinality(ToSet(s)) <= Len(s)
<1>1. DOMAIN s = 1 .. Len(s) /\ Len(s) \in Nat  OBVIOUS
<1>2. s \in Surjection(DOMAIN s, ToSet(s))  BY DEF Surjection, ToSet
<1>3. IsFiniteSet(DOMAIN s) /\ Cardinality(DOMAIN s) = Len(s)  BY <1>1, FS_Interval
<1>4. IsFiniteSet(ToSet(s)) /\ Cardinality(ToSet(s)) <= Cardinality(DOMAIN s)
  BY <1>2, <1>3, FS_Surjection
<1> QED  BY <1>3, <1>4, FS_CardinalityType

\* Rows that have different exchanges are as many as their exchanges.
LEMMA ExCounts ==
  ASSUME NEW q \in Seq(RowOf), InOrder(q), NEW T \in SUBSET ToSet(q), NEW C, IsFiniteSet(C),
         \A x \in T : x.ex \in C
  PROVE  Cardinality(T) <= Cardinality(C)
<1> DEFINE f == [x \in T |-> x.ex]
<1>1. \A x, y \in T : f[x] = f[y] => x = y
  <2> SUFFICES ASSUME NEW x \in T, NEW y \in T, x.ex = y.ex PROVE x = y  OBVIOUS
  <2>1. PICK i \in DOMAIN q, j \in DOMAIN q : x = q[i] /\ y = q[j]  BY DEF ToSet
  <2> QED  BY <2>1 DEF InOrder
<1>2. f \in [T -> C]  OBVIOUS
<1>3. f \in Injection(T, C)
  <2> HIDE DEF f
  <2> QED  BY <1>1, <1>2 DEF Injection, IsInjective
<1> QED  BY <1>3, FS_Injection

LEMMA InSeq ==
  ASSUME NEW S, NEW s \in Seq(S)
  PROVE  /\ DOMAIN s = 1 .. Len(s) /\ Len(s) \in Nat /\ ToSet(s) \subseteq S
         /\ \A i \in 1 .. Len(s) : s[i] \in S /\ s[i] \in ToSet(s)
         /\ \A x \in ToSet(s) : \E i \in 1 .. Len(s) : s[i] = x
BY DEF ToSet

\* A suffix of a table is a table.
LEMMA PrunedTable ==
  ASSUME NEW q, NEW fl, IsTable(q, fl) PROVE IsTable(Pruned(q), fl)
<1>1. q \in Seq(RowOf) /\ InOrder(q) /\ SmallFlushes(q) /\ \A i \in DOMAIN q : q[i].ts < fl  BY DEF IsTable
<1> DEFINE w == Kept(q)  n == Len(q)
<1>2. PICK d \in 0 .. n :
        /\ w \in Seq(RowOf) /\ Len(w) = n - d
        /\ \A i \in 1 .. n - d : w[i] = q[i + d]
        /\ ToSet(w) \subseteq ToSet(q)
  BY <1>1, KeptIs
<1>3. DOMAIN q = 1 .. n /\ n \in Nat /\ DOMAIN w = 1 .. n - d  BY <1>1, <1>2, InSeq
<1> HIDE DEF w, n
<1>4. \A i \in DOMAIN w : i + d \in DOMAIN q /\ w[i] = q[i + d]  BY <1>2, <1>3
<1>5. InOrder(w)
  <2>1. \A i, j \in DOMAIN w : i <= j => w[i].ts <= w[j].ts
    <3> SUFFICES ASSUME NEW i \in DOMAIN w, NEW j \in DOMAIN w, i <= j PROVE w[i].ts <= w[j].ts  OBVIOUS
    <3>1. i + d <= j + d  BY <1>2, <1>3
    <3> QED  BY <1>1, <1>4, <3>1 DEF InOrder
  <2>2. \A i, j \in DOMAIN w : w[i].ex = w[j].ex => i = j
    <3> SUFFICES ASSUME NEW i \in DOMAIN w, NEW j \in DOMAIN w, w[i].ex = w[j].ex PROVE i = j  OBVIOUS
    <3>1. i + d = j + d  BY <1>1, <1>4 DEF InOrder
    <3> QED  BY <1>2, <1>3, <3>1
  <2> QED  BY <2>1, <2>2 DEF InOrder
<1>6. SmallFlushes(w)
  <2> SUFFICES ASSUME NEW t \in Nat PROVE Cardinality(SameFlush(w, t)) <= HistoryLen  BY DEF SmallFlushes
  <2>1. SameFlush(w, t) \subseteq SameFlush(q, t)  BY <1>2 DEF SameFlush
  <2>2. IsFiniteSet(SameFlush(q, t))
    <3>1. IsFiniteSet(ToSet(q))  BY <1>1, SetOfSeq
    <3> QED  BY <3>1, FS_Subset DEF SameFlush
  <2>3. Cardinality(SameFlush(w, t)) <= Cardinality(SameFlush(q, t))  BY <2>1, <2>2, FS_Subset
  <2>4. Cardinality(SameFlush(q, t)) <= HistoryLen  BY <1>1 DEF SmallFlushes
  <2>5. IsFiniteSet(SameFlush(w, t))  BY <2>1, <2>2, FS_Subset
  <2>6. Cardinality(SameFlush(w, t)) \in Nat /\ Cardinality(SameFlush(q, t)) \in Nat
    BY <2>2, <2>5, FS_CardinalityType
  <2> QED  BY <2>3, <2>4, <2>6, MemoryAssumption
<1>7. \A i \in DOMAIN w : w[i].ts < fl  BY <1>1, <1>4
<1>8. IsTable(w, fl)  BY <1>2, <1>5, <1>6, <1>7 DEF IsTable
<1> QED  BY <1>8 DEF w, Pruned

\* In a list of rows by their ts, what no more than HistoryLen rows equal or
\* surpass is among the last HistoryLen.
LEMMA KeptNewest ==
  ASSUME NEW o \in Seq(RowOf), NEW S, IsFiniteSet(S), Cardinality(S) <= HistoryLen,
         \A i, j \in DOMAIN o : o[i] = o[j] => i = j,
         \A i, j \in DOMAIN o : i <= j => o[i].ts <= o[j].ts,
         NEW r \in ToSet(o), \A x \in ToSet(o) : x.ts >= r.ts => x \in S
  PROVE  /\ r \in ToSet(Kept(o))
         /\ r.ex \in ToSet(Kept([i \in DOMAIN o |-> o[i].ex]))
<1> DEFINE n == Len(o)  exs == [i \in DOMAIN o |-> o[i].ex]
<1>1. /\ DOMAIN o = 1 .. n /\ n \in Nat
      /\ \A i \in 1 .. n : o[i].ex \in Exchanges /\ o[i].ts \in Nat
  <2>1. DOMAIN o = 1 .. n /\ n \in Nat /\ \A i \in 1 .. n : o[i] \in RowOf  BY InSeq
  <2>2. \A x \in RowOf : x.ex \in Exchanges /\ x.ts \in Nat  BY DEF RowOf
  <2> QED  BY <2>1, <2>2
<1>2. PICK k \in 1 .. n : o[k] = r  BY InSeq
<1>3. exs \in Seq(Exchanges) /\ Len(exs) = n
  <2> HIDE DEF n
  <2> QED  BY <1>1
<1> HIDE DEF n
<1>4. n - k + 1 <= HistoryLen
  <2> DEFINE T == {x \in ToSet(o) : x.ts >= r.ts}  f == [j \in k .. n |-> o[j]]
  <2>1. \A j \in k .. n : j \in 1 .. n /\ o[j] \in ToSet(o) /\ o[j].ts >= r.ts
    <3> SUFFICES ASSUME NEW j \in k .. n PROVE j \in 1 .. n /\ o[j] \in ToSet(o) /\ o[j].ts >= r.ts  OBVIOUS
    <3>1. j \in 1 .. n /\ k <= j  BY <1>1, <1>2
    <3>2. o[j] \in ToSet(o)  BY <1>1, <3>1, InSeq DEF n
    <3>3. o[k].ts <= o[j].ts  BY <1>1, <3>1
    <3>4. o[k].ts \in Nat /\ o[j].ts \in Nat  BY <1>1, <3>1
    <3> QED  BY <1>2, <3>1, <3>2, <3>3, <3>4
  <2>2. \A i, j \in k .. n : f[i] = f[j] => i = j  BY <1>1, <2>1
  <2>3. f \in [k .. n -> T]  BY <2>1
  <2>4. T \subseteq S  OBVIOUS
  <2>5. IsFiniteSet(T) /\ Cardinality(T) <= Cardinality(S)
    <3> HIDE DEF T
    <3> QED  BY <2>4, FS_Subset
  <2> HIDE DEF f, T
  <2>6. n - k + 1 <= Cardinality(T)
    <3>1. k \in Nat /\ n \in Nat /\ k <= n + 1  BY <1>1
    <3>2. IsFiniteSet(T)  BY <2>5
    <3> QED  BY <2>2, <2>3, <3>1, <3>2, RoomFor
  <2>7. Cardinality(T) \in Nat /\ Cardinality(S) \in Nat  BY <2>5, FS_CardinalityType
  <2> QED  BY <1>1, <2>5, <2>6, <2>7, MemoryAssumption
<1>5. ASSUME NEW V, NEW s \in Seq(V), Len(s) = n PROVE s[k] \in ToSet(Kept(s))
  <2>1. PICK d \in 0 .. n :
          /\ d = (IF n > HistoryLen THEN n - HistoryLen ELSE 0)
          /\ Kept(s) \in Seq(V) /\ Len(Kept(s)) = n - d
          /\ \A i \in 1 .. n - d : Kept(s)[i] = s[i + d]
    BY <1>5, KeptIs
  <2>2. k - d \in 1 .. n - d  BY <1>1, <1>4, <2>1, MemoryAssumption
  <2>3. Kept(s)[k - d] = s[k]  BY <1>1, <2>1, <2>2
  <2> QED  BY <2>1, <2>2, <2>3, InSeq
<1>6. exs[k] = r.ex  BY <1>1, <1>2
<1>7. r \in ToSet(Kept(o))  BY <1>2, <1>5 DEF n
<1>8. r.ex \in ToSet(Kept(exs))
  <2> HIDE DEF exs
  <2> QED  BY <1>3, <1>5, <1>6
<1> QED  BY <1>7, <1>8

\* What is read ORDER BY ts is the table's rows, each once, by their ts.
LEMMA ReadByTs ==
  ASSUME NEW q \in Seq(RowOf), InOrder(q), NEW o \in ByTs(q)
  PROVE  /\ o \in Seq(RowOf) /\ ToSet(o) = ToSet(q) /\ DOMAIN o = DOMAIN q
         /\ \A i, j \in DOMAIN o : o[i] = o[j] => i = j
         /\ \A i, j \in DOMAIN o : i <= j => o[i].ts <= o[j].ts
<1> DEFINE D == DOMAIN q  R == ToSet(q)
<1>1. D = 1 .. Len(q) /\ Len(q) \in Nat /\ R \subseteq RowOf  BY InSeq
<1>2. o \in [D -> R] /\ ToSet(o) = R /\ \A i, j \in D : i < j => o[i].ts <= o[j].ts  BY DEF ByTs
<1>3. q \in Surjection(D, R) /\ q \in Injection(D, R)
  <2>1. q \in [D -> R] /\ \A i, j \in D : q[i] = q[j] => i = j  BY <1>1 DEF InOrder, ToSet
  <2> QED  BY <2>1 DEF Surjection, Injection, IsInjective, ToSet
<1>4. o \in Surjection(D, R)  BY <1>2 DEF Surjection, ToSet
<1>5. IsFiniteSet(D)  BY <1>1, FS_Interval
<1> HIDE DEF D, R
<1>6. Cardinality(D) = Cardinality(R)  BY <1>3, <1>5, FS_Surjection
<1>7. o \in Injection(D, R)  BY <1>4, <1>5, <1>6, FS_SurjSameCardinalityImpliesInj
<1>8. \A i, j \in D : o[i] = o[j] => i = j  BY <1>7 DEF Injection, IsInjective
<1>9. o \in Seq(RowOf) /\ DOMAIN o = D  BY <1>1, <1>2
<1>10. \A i, j \in D : i <= j => o[i].ts <= o[j].ts
  <2> SUFFICES ASSUME NEW i \in D, NEW j \in D, i <= j PROVE o[i].ts <= o[j].ts  OBVIOUS
  <2>1. CASE i < j  BY <1>2, <2>1
  <2>2. CASE i = j
    <3>1. \A x \in RowOf : x.ts \in Nat  BY DEF RowOf
    <3>2. o[i] \in RowOf  BY <1>1, <1>2
    <3> QED  BY <2>2, <3>1, <3>2
  <2>3. i \in Int /\ j \in Int  BY <1>1
  <2> QED  BY <2>1, <2>2, <2>3
<1> QED  BY <1>2, <1>8, <1>9, <1>10 DEF D, R

LEMMA ExsSeq ==
  ASSUME NEW o \in Seq(RowOf)
  PROVE  [i \in DOMAIN o |-> o[i].ex] \in Seq(Exchanges)
<1>1. \A x \in RowOf : x.ex \in Exchanges  BY DEF RowOf
<1>2. DOMAIN o = 1 .. Len(o) /\ Len(o) \in Nat /\ \A i \in 1 .. Len(o) : o[i] \in RowOf  BY InSeq
<1> QED  BY <1>1, <1>2

LEMMA LoadedAre ==
  ASSUME NEW q \in Seq(RowOf), InOrder(q), NEW c \in Loaded(q)
  PROVE  c \in Seq(Exchanges) /\ Len(c) <= HistoryLen
<1>1. PICK o \in ByTs(q) : c = Kept([i \in DOMAIN o |-> o[i].ex])  BY DEF Loaded
<1>2. [i \in DOMAIN o |-> o[i].ex] \in Seq(Exchanges)  BY ReadByTs, ExsSeq
<1>3. \A s \in Seq(Exchanges) : Kept(s) \in Seq(Exchanges) /\ Len(Kept(s)) <= HistoryLen  BY KeptIs
<1> QED  BY <1>1, <1>2, <1>3

\* What the cache says newest is loaded again, and so is what was loaded last.
LEMMA LoadKeepsNewest ==
  ASSUME NEW q \in Seq(RowOf), InOrder(q), NEW C, IsFiniteSet(C), Cardinality(C) <= HistoryLen,
         NEW r \in ToSet(q), NoneNewer(q, r.ex, C), NEW c \in Loaded(q)
  PROVE  r.ex \in ToSet(c)
<1>1. PICK o \in ByTs(q) : c = Kept([i \in DOMAIN o |-> o[i].ex])  BY DEF Loaded
<1>2. /\ o \in Seq(RowOf) /\ ToSet(o) = ToSet(q)
      /\ \A i, j \in DOMAIN o : o[i] = o[j] => i = j
      /\ \A i, j \in DOMAIN o : i <= j => o[i].ts <= o[j].ts
  BY ReadByTs
<1> DEFINE S == {x \in ToSet(q) : x.ts >= r.ts}
<1>3. S \in SUBSET ToSet(q) /\ IsFiniteSet(S)
  <2>1. IsFiniteSet(ToSet(q))  BY SetOfSeq
  <2> QED  BY <2>1, FS_Subset
<1>4. \A x \in S : x.ex \in C  BY DEF NoneNewer
<1>5. \A x \in ToSet(o) : x.ts >= r.ts => x \in S  BY <1>2
<1> HIDE DEF S
<1>6. Cardinality(S) <= Cardinality(C)  BY <1>3, <1>4, ExCounts
<1>7. Cardinality(S) <= HistoryLen
  <2>1. Cardinality(S) \in Nat /\ Cardinality(C) \in Nat  BY <1>3, FS_CardinalityType
  <2> QED  BY <1>6, <2>1, MemoryAssumption
<1>8. r.ex \in ToSet(Kept([i \in DOMAIN o |-> o[i].ex]))  BY <1>2, <1>3, <1>5, <1>7, KeptNewest
<1> QED  BY <1>1, <1>8

LEMMA PruneKeepsNewest ==
  ASSUME NEW q \in Seq(RowOf), InOrder(q), NEW C, IsFiniteSet(C), Cardinality(C) <= HistoryLen,
         NEW r \in ToSet(q), NoneNewer(q, r.ex, C)
  PROVE  r \in ToSet(Pruned(q)) /\ NoneNewer(Pruned(q), r.ex, C)
<1> DEFINE S == {x \in ToSet(q) : x.ts >= r.ts}
<1>1. S \in SUBSET ToSet(q) /\ IsFiniteSet(S)
  <2>1. IsFiniteSet(ToSet(q))  BY SetOfSeq
  <2> QED  BY <2>1, FS_Subset
<1>2. \A x \in S : x.ex \in C  BY DEF NoneNewer
<1>3. \A x \in ToSet(q) : x.ts >= r.ts => x \in S  OBVIOUS
<1> HIDE DEF S
<1>4. Cardinality(S) <= Cardinality(C)  BY <1>1, <1>2, ExCounts
<1>5. Cardinality(S) <= HistoryLen
  <2>1. Cardinality(S) \in Nat /\ Cardinality(C) \in Nat  BY <1>1, FS_CardinalityType
  <2> QED  BY <1>4, <2>1, MemoryAssumption
<1>6. /\ \A i, j \in DOMAIN q : q[i] = q[j] => i = j
      /\ \A i, j \in DOMAIN q : i <= j => q[i].ts <= q[j].ts
  BY DEF InOrder
<1>7. r \in ToSet(Kept(q))  BY <1>1, <1>3, <1>5, <1>6, KeptNewest
<1>8. ToSet(Kept(q)) \subseteq ToSet(q)  BY KeptIs
<1>9. NoneNewer(Kept(q), r.ex, C)  BY <1>8 DEF NoneNewer
<1> QED  BY <1>7, <1>9 DEF Pruned

\* The newest of what was loaded belongs to the newest flush, all of which fits.
LEMMA LoadedUnsurpassed ==
  ASSUME NEW fl, NEW q, IsTable(q, fl), NEW c \in Loaded(q), c # <<>>
  PROVE  NoneNewer(q, Last(c), ToSet(c))
<1>0. q \in Seq(RowOf) /\ InOrder(q) /\ SmallFlushes(q)  BY DEF IsTable
<1>1. PICK o \in ByTs(q) : c = Kept([i \in DOMAIN o |-> o[i].ex])  BY DEF Loaded
<1>2. /\ o \in Seq(RowOf) /\ ToSet(o) = ToSet(q)
      /\ \A i, j \in DOMAIN o : o[i] = o[j] => i = j
      /\ \A i, j \in DOMAIN o : i <= j => o[i].ts <= o[j].ts
  BY <1>0, ReadByTs
<1> DEFINE exs == [i \in DOMAIN o |-> o[i].ex]  n == Len(o)
<1>3. DOMAIN o = 1 .. n /\ n \in Nat /\ \A i \in 1 .. n : o[i] \in RowOf /\ o[i] \in ToSet(o)
  BY <1>2, InSeq
<1>4. exs \in Seq(Exchanges) /\ Len(exs) = n
  <2>1. exs \in Seq(Exchanges)  BY <1>2, ExsSeq
  <2>2. DOMAIN exs = 1 .. n  BY <1>3
  <2> HIDE DEF exs, n
  <2> QED  BY <1>3, <2>1, <2>2
<1> HIDE DEF n
<1>5. n > 0 /\ Last(c) = o[n].ex
  <2>0. (exs[n] = o[n].ex \/ n = 0) /\ c = Kept(exs)  BY <1>1, <1>3
  <2> HIDE DEF exs
  <2>1. PICK d \in 0 .. n :
          /\ d = (IF n > HistoryLen THEN n - HistoryLen ELSE 0)
          /\ c \in Seq(Exchanges) /\ Len(c) = n - d
          /\ \A i \in 1 .. n - d : c[i] = exs[i + d]
    BY <1>4, <2>0, KeptIs
  <2>2. n - d # 0  BY <2>1
  <2>3. n - d \in 1 .. n - d /\ (n - d) + d = n  BY <1>3, <2>1, <2>2
  <2>4. c[n - d] = exs[n]  BY <2>1, <2>3
  <2> QED  BY <1>3, <2>0, <2>1, <2>3, <2>4 DEF Last
<1> DEFINE top == o[n]  S == SameFlush(q, top.ts)
<1>6. top \in ToSet(q) /\ top.ts \in Nat /\ Last(c) = top.ex
  <2>1. o[n] \in RowOf /\ o[n] \in ToSet(q)  BY <1>2, <1>3, <1>5
  <2>2. \A x \in RowOf : x.ts \in Nat  BY DEF RowOf
  <2> QED  BY <1>5, <2>1, <2>2
<1>7. \A x \in ToSet(q) : x.ts \in Nat /\ x.ts <= top.ts
  <2> SUFFICES ASSUME NEW x \in ToSet(o) PROVE x.ts \in Nat /\ x.ts <= top.ts  BY <1>2
  <2>1. PICK i \in 1 .. n : o[i] = x  BY <1>2, InSeq DEF n
  <2>2. o[i].ts <= o[n].ts  BY <1>2, <1>3, <2>1
  <2>3. \A y \in RowOf : y.ts \in Nat  BY DEF RowOf
  <2> QED  BY <1>3, <2>1, <2>2, <2>3
<1>8. S \in SUBSET ToSet(q) /\ IsFiniteSet(S) /\ Cardinality(S) <= HistoryLen
  <2>1. IsFiniteSet(ToSet(q))  BY <1>0, SetOfSeq
  <2>2. S \subseteq ToSet(q)  BY DEF SameFlush
  <2>3. Cardinality(S) <= HistoryLen  BY <1>0, <1>6 DEF SmallFlushes
  <2> HIDE DEF S
  <2> QED  BY <2>1, <2>2, <2>3, FS_Subset
<1>9. ASSUME NEW r \in ToSet(q), r.ex = Last(c) PROVE r = top
  <2>1. PICK i \in DOMAIN q, j \in DOMAIN q : r = q[i] /\ top = q[j]  BY <1>6 DEF ToSet
  <2>2. q[i].ex = q[j].ex  BY <1>6, <1>9, <2>1
  <2> QED  BY <1>0, <2>1, <2>2 DEF InOrder
<1>10. ASSUME NEW x \in ToSet(q), x.ts >= top.ts PROVE x.ex \in ToSet(c)
  <2>1. x.ts = top.ts  BY <1>6, <1>7, <1>10
  <2>2. \A y \in ToSet(o) : y.ts >= x.ts => y \in S
    <3>1. \A y \in ToSet(q) : y.ts >= x.ts => y.ts = top.ts  BY <1>6, <1>7, <2>1
    <3> QED  BY <1>2, <3>1 DEF SameFlush
  <2>3. x \in ToSet(o)  BY <1>2
  <2> HIDE DEF S, top, exs
  <2> QED  BY <1>1, <1>2, <1>8, <2>2, <2>3, KeptNewest DEF exs
<1> HIDE DEF top
<1> QED  BY <1>9, <1>10 DEF NoneNewer

-----------------------------------------------------------------------------
(* INSERT IGNORE, one exchange of the cache after the other: a fold, taken     *)
(* apart as a function on the sets 1 .. k of what has been inserted.           *)

\* Every nonempty set of naturals has a least element, and a set that has 0 and
\* each successor has them all.
LEMMA NatMin == ASSUME NEW T, T \subseteq Nat, T # {} PROVE \E m \in T : \A y \in T : m <= y
<1> DEFINE R == {ss \in Nat \X Nat : ss[1] < ss[2]}
<1>1. IsWellFoundedOn(R, Nat)  BY NatLessThanWellFounded DEF OpToRel
<1>2. \A x, y \in Nat : y < x => <<y, x>> \in R  OBVIOUS
<1> HIDE DEF R
<1>3. PICK m \in T : \A y \in T : ~(<<y, m>> \in R)  BY <1>1, WFMin
<1>4. \A y \in T : ~(y < m)  BY <1>2, <1>3
<1>5. \A y \in T : m <= y  BY <1>3, <1>4
<1> QED  BY <1>3, <1>5

LEMMA NatInd ==
    ASSUME NEW S, 0 \in S, \A k \in Nat : k \in S => k + 1 \in S
    PROVE  Nat \subseteq S
<1> SUFFICES ASSUME NEW k \in Nat, k \notin S PROVE FALSE  OBVIOUS
<1> DEFINE T == {i \in Nat : i \notin S}
<1>1. PICK m \in T : \A i \in T : m <= i
  <2>1. T \subseteq Nat /\ T # {}  OBVIOUS
  <2> HIDE DEF T
  <2> QED  BY <2>1, NatMin
<1>2. m # 0 /\ m \in Nat /\ m \notin S  BY <1>1
<1>3. m - 1 \in Nat /\ m - 1 \notin T  BY <1>1, <1>2
<1>4. m - 1 \in S  BY <1>3
<1> QED  BY <1>2, <1>3, <1>4

LEMMA MaxTop == ASSUME NEW k \in Nat, NEW s \in SUBSET (1 .. k), k \in s PROVE Max(s) = k
<1>1. \A y \in s : k >= y  OBVIOUS
<1>2. \A x \in s : (\A y \in s : x >= y) => x = k  OBVIOUS
<1> QED BY <1>1, <1>2 DEF Max

IsFilling(g, n, q, s) ==
   g = [d \in SUBSET (1 .. n) |-> IF d = {} THEN q ELSE Insert(g[d \ {Max(d)}], s[Max(d)])]

LEMMA FillingExists ==
  ASSUME NEW n \in Nat, NEW q, NEW s PROVE \E g : IsFilling(g, n, q, s)
<1> DEFINE Sizes == {k \in Nat : \E g : IsFilling(g, k, q, s)}
<1>1. \E g : IsFilling(g, 0, q, s)
  <2> DEFINE g == [d \in SUBSET (1 .. 0) |-> q]
  <2>1. \A d \in SUBSET (1 .. 0) : d = {}  OBVIOUS
  <2>2. IsFilling(g, 0, q, s)  BY <2>1 DEF IsFilling
  <2> QED  BY <2>2
<1>2. ASSUME NEW k \in Nat, NEW f, IsFilling(f, k, q, s) PROVE \E g : IsFilling(g, k + 1, q, s)
  <2> DEFINE g == [d \in SUBSET (1 .. k + 1) |->
                     IF k + 1 \in d THEN Insert(f[d \ {k + 1}], s[k + 1]) ELSE f[d]]
  <2>1. ASSUME NEW d \in SUBSET (1 .. k + 1)
        PROVE  g[d] = IF d = {} THEN q ELSE Insert(g[d \ {Max(d)}], s[Max(d)])
    <3>1. CASE k + 1 \in d
      <4>1. Max(d) = k + 1  BY <3>1, MaxTop
      <4>2. d \ {k + 1} \in SUBSET (1 .. k + 1) /\ k + 1 \notin d \ {k + 1}  OBVIOUS
      <4>3. g[d \ {k + 1}] = f[d \ {k + 1}]  BY <4>2
      <4>4. g[d] = Insert(f[d \ {k + 1}], s[k + 1])  BY <3>1
      <4>5. d # {}  BY <3>1
      <4> QED  BY <4>1, <4>3, <4>4, <4>5
    <3>2. CASE k + 1 \notin d
      <4>1. d \in SUBSET (1 .. k)
        <5>1. \A x \in d : x \in 1 .. k  BY <3>2
        <5> QED  BY <5>1
      <4>2. g[d] = f[d]  BY <3>2
      <4>3. \A x : d \ {x} \in SUBSET (1 .. k + 1) /\ k + 1 \notin d \ {x}  BY <3>2
      <4>4. \A x : g[d \ {x}] = f[d \ {x}]  BY <4>3
      <4>5. f[d] = IF d = {} THEN q ELSE Insert(f[d \ {Max(d)}], s[Max(d)])
        BY <1>2, <4>1 DEF IsFilling
      <4> HIDE DEF g
      <4> QED  BY <4>2, <4>4, <4>5
    <3> QED  BY <3>1, <3>2
  <2>2. g = [d \in SUBSET (1 .. k + 1) |-> g[d]]  OBVIOUS
  <2>3. IsFilling(g, k + 1, q, s)
    <3> HIDE DEF g
    <3> QED  BY <2>1, <2>2 DEF IsFilling
  <2> QED  BY <2>3
<1>3. 0 \in Sizes /\ \A k \in Nat : k \in Sizes => k + 1 \in Sizes  BY <1>1, <1>2
<1>4. Nat \subseteq Sizes
  <2> HIDE DEF Sizes
  <2> QED  BY <1>3, NatInd
<1> QED  BY <1>4

FilledBy(g, n, q, s) == IsFilling(g, n, q, s) /\ FoldLeft(Insert, q, s) = g[1 .. n]

LEMMA FoldFills ==
  ASSUME NEW n \in Nat, NEW q, NEW s, DOMAIN s = 1 .. n PROVE \E g : FilledBy(g, n, q, s)
<1> DEFINE g == CHOOSE g : IsFilling(g, n, q, s)
<1>1. IsFilling(g, n, q, s)  BY FillingExists
<1>2. FoldLeft(Insert, q, s) = g[1 .. n]  BY DEF FoldLeft, MapThenFoldSet, IsFilling, Insert
<1> HIDE DEF g
<1>3. FilledBy(g, n, q, s)  BY <1>1, <1>2 DEF FilledBy
<1> QED  BY <1>3

LEMMA FillingUnfold ==
  ASSUME NEW n \in Nat, NEW q, NEW s, NEW g, IsFilling(g, n, q, s)
  PROVE  /\ g[1 .. 0] = q
         /\ \A k \in 1 .. n : g[1 .. k] = Insert(g[1 .. k - 1], s[k])
<1>1. \A d \in SUBSET (1 .. n) : g[d] = IF d = {} THEN q ELSE Insert(g[d \ {Max(d)}], s[Max(d)])
  BY DEF IsFilling
<1>2. 1 .. 0 = {} /\ 1 .. 0 \in SUBSET (1 .. n)  OBVIOUS
<1>3. ASSUME NEW k \in 1 .. n PROVE g[1 .. k] = Insert(g[1 .. k - 1], s[k])
  <2>1. Max(1 .. k) = k  BY MaxTop
  <2>2. (1 .. k) \ {k} = 1 .. k - 1  OBVIOUS
  <2>3. 1 .. k # {} /\ 1 .. k \in SUBSET (1 .. n)  OBVIOUS
  <2> QED  BY <1>1, <2>1, <2>2, <2>3
<1> QED  BY <1>1, <1>2, <1>3

\* w is q with rows of this flush for what q had no row of, among the first k.
Fills(w, q, s, k) ==
  /\ w \in Seq(RowOf) /\ InOrder(w) /\ \A x \in ToSet(w) : x.ts <= flushes
  /\ ToSet(q) \subseteq ToSet(w)
  /\ \A x \in ToSet(w) : x \in ToSet(q) \/ (x.ts = flushes /\ x.ex \in ToSet(s))
  /\ \A i \in 1 .. k : \E x \in ToSet(w) : x.ex = s[i]

LEMMA InsertFills ==
  ASSUME flushes \in Nat, NEW s \in Seq(Exchanges), NEW w, NEW q, NEW k \in Nat, k + 1 \in 1 .. Len(s),
         Fills(w, q, s, k)
  PROVE  Fills(Insert(w, s[k + 1]), q, s, k + 1)
<1> DEFINE e == s[k + 1]  y == [ex |-> e, ts |-> flushes]
<1>1. e \in Exchanges /\ e \in ToSet(s)  BY InSeq
<1>2. /\ w \in Seq(RowOf) /\ InOrder(w) /\ \A x \in ToSet(w) : x.ts <= flushes
      /\ ToSet(q) \subseteq ToSet(w)
      /\ \A x \in ToSet(w) : x \in ToSet(q) \/ (x.ts = flushes /\ x.ex \in ToSet(s))
      /\ \A i \in 1 .. k : \E x \in ToSet(w) : x.ex = s[i]
  BY DEF Fills
<1>3. CASE \E i \in DOMAIN w : w[i].ex = e
  <2>1. Insert(w, e) = w  BY <1>3 DEF Insert
  <2>2. \E x \in ToSet(w) : x.ex = e  BY <1>3 DEF ToSet
  <2>3. \A i \in 1 .. k + 1 : i \in 1 .. k \/ i = k + 1  OBVIOUS
  <2>4. \A i \in 1 .. k + 1 : \E x \in ToSet(w) : x.ex = s[i]  BY <1>2, <2>2, <2>3
  <2> QED  BY <1>2, <2>1, <2>4 DEF Fills
<1>4. CASE ~ \E i \in DOMAIN w : w[i].ex = e
  <2> DEFINE v == Append(w, y)  n == Len(w)
  <2>1. Insert(w, e) = v  BY <1>4 DEF Insert
  <2>2. y \in RowOf /\ y.ex = e /\ y.ts = flushes  BY <1>1 DEF RowOf
  <2>3. n \in Nat /\ DOMAIN w = 1 .. n  BY <1>2, InSeq
  <2> HIDE DEF y, n, e
  <2>4. v \in Seq(RowOf) /\ Len(v) = n + 1 /\ v[n + 1] = y /\ \A i \in 1 .. n : v[i] = w[i]
    BY <1>2, <2>2, AppendProperties DEF n
  <2>5. DOMAIN v = 1 .. n + 1  BY <2>4, InSeq
  <2> HIDE DEF v
  <2>6. ToSet(v) = ToSet(w) \cup {y}
    <3>1. \A i \in 1 .. n + 1 : i \in 1 .. n \/ i = n + 1  BY <2>3
    <3>2. ToSet(v) \subseteq ToSet(w) \cup {y}  BY <2>3, <2>4, <2>5, <3>1 DEF ToSet
    <3>3. \A i \in 1 .. n : i \in 1 .. n + 1  BY <2>3
    <3>4. n + 1 \in 1 .. n + 1  BY <2>3
    <3>5. ToSet(w) \cup {y} \subseteq ToSet(v)  BY <2>3, <2>4, <2>5, <3>3, <3>4 DEF ToSet
    <3> QED  BY <3>2, <3>5
  <2>7. \A i \in 1 .. n : w[i] \in ToSet(w) /\ w[i].ts <= flushes /\ w[i].ex # e
    BY <1>2, <1>4, <2>3 DEF ToSet
  <2>8. InOrder(v)
    <3>1. ASSUME NEW i \in 1 .. n + 1, NEW j \in 1 .. n + 1, i <= j PROVE v[i].ts <= v[j].ts
      <4>1. CASE j = n + 1 /\ i = n + 1
        <5>1. v[i].ts = flushes /\ v[j].ts = flushes  BY <2>2, <2>4, <4>1
        <5> QED  BY <5>1
      <4>2. CASE j = n + 1 /\ i \in 1 .. n  BY <2>2, <2>4, <2>7, <4>2
      <4>3. CASE j \in 1 .. n /\ i \in 1 .. n
        <5>1. w[i].ts <= w[j].ts  BY <1>2, <2>3, <3>1, <4>3 DEF InOrder
        <5> QED  BY <2>4, <4>3, <5>1
      <4> QED  BY <2>3, <3>1, <4>1, <4>2, <4>3
    <3>2. ASSUME NEW i \in 1 .. n + 1, NEW j \in 1 .. n + 1, v[i].ex = v[j].ex PROVE i = j
      <4>1. CASE j \in 1 .. n /\ i \in 1 .. n
        <5>1. w[i].ex = w[j].ex  BY <2>4, <3>2, <4>1
        <5> QED  BY <1>2, <2>3, <4>1, <5>1 DEF InOrder
      <4>2. \A m \in 1 .. n + 1 : m # n + 1 => m \in 1 .. n /\ v[m].ex # e
        <5>1. \A m \in 1 .. n + 1 : m # n + 1 => m \in 1 .. n  BY <2>3
        <5> QED  BY <2>4, <2>7, <5>1
      <4>3. v[n + 1].ex = e  BY <2>2, <2>4
      <4> QED  BY <3>2, <4>1, <4>2, <4>3
    <3> QED  BY <2>5, <3>1, <3>2 DEF InOrder
  <2>9. \A x \in ToSet(v) : x.ts <= flushes  BY <1>2, <2>2, <2>6
  <2>10. \A x \in ToSet(v) : x \in ToSet(q) \/ (x.ts = flushes /\ x.ex \in ToSet(s))
    BY <1>1, <1>2, <2>2, <2>6 DEF e
  <2>11. \A i \in 1 .. k + 1 : \E x \in ToSet(v) : x.ex = s[i]
    <3>1. \A i \in 1 .. k + 1 : i \in 1 .. k \/ i = k + 1  OBVIOUS
    <3>2. y.ex = s[k + 1]  BY <2>2 DEF e
    <3> QED  BY <1>2, <2>6, <3>1, <3>2
  <2>12. ToSet(q) \subseteq ToSet(v)  BY <1>2, <2>6
  <2>13. Fills(v, q, s, k + 1)  BY <2>4, <2>8, <2>9, <2>10, <2>11, <2>12 DEF Fills
  <2> QED  BY <2>1, <2>13 DEF e
<1> QED  BY <1>3, <1>4

LEMMA FoldHolds ==
  ASSUME flushes \in Nat, NEW s \in Seq(Exchanges), NEW q, IsTable(q, flushes)
  PROVE  Fills(FoldLeft(Insert, q, s), q, s, Len(s))
<1> DEFINE n == Len(s)
<1>1. n \in Nat /\ DOMAIN s = 1 .. n  BY InSeq
<1>2. PICK g : FilledBy(g, n, q, s)
  <2> HIDE DEF n
  <2> QED  BY <1>1, FoldFills
<1> DEFINE Sizes == {k \in Nat : k \in 0 .. n => Fills(g[1 .. k], q, s, k)}
<1>3. 0 \in Sizes
  <2>1. g[1 .. 0] = q  BY <1>1, <1>2, FillingUnfold DEF FilledBy
  <2>2. \A x \in ToSet(q) : x.ts <= flushes
    <3>1. q \in Seq(RowOf) /\ \A i \in DOMAIN q : q[i].ts < flushes  BY DEF IsTable
    <3>2. \A x \in RowOf : x.ts \in Nat  BY DEF RowOf
    <3>3. \A i \in 1 .. Len(q) : q[i].ts <= flushes
      <4>1. DOMAIN q = 1 .. Len(q) /\ \A i \in 1 .. Len(q) : q[i] \in RowOf  BY <3>1, InSeq
      <4> QED  BY <3>1, <3>2, <4>1
    <3> QED  BY <3>1, <3>3, InSeq
  <2>3. Fills(q, q, s, 0)  BY <2>2 DEF Fills, IsTable
  <2> QED  BY <2>1, <2>3
<1>4. ASSUME NEW k \in Nat, k \in Sizes PROVE k + 1 \in Sizes
  <2> SUFFICES ASSUME k + 1 \in 0 .. n PROVE Fills(g[1 .. k + 1], q, s, k + 1)  OBVIOUS
  <2>1. k \in 0 .. n /\ k + 1 \in 1 .. n  BY <1>1
  <2>2. Fills(g[1 .. k], q, s, k)  BY <1>4, <2>1
  <2>3. \A m \in 1 .. n : g[1 .. m] = Insert(g[1 .. m - 1], s[m])
    <3> HIDE DEF n
    <3> QED  BY <1>1, <1>2, FillingUnfold DEF FilledBy
  <2>4. g[1 .. k + 1] = Insert(g[1 .. k], s[k + 1])
    <3>1. (k + 1) - 1 = k  OBVIOUS
    <3> QED  BY <2>1, <2>3, <3>1
  <2> HIDE DEF Sizes
  <2> QED  BY <2>1, <2>2, <2>4, InsertFills
<1>5. Nat \subseteq Sizes
  <2> HIDE DEF Sizes
  <2> QED  BY <1>3, <1>4, NatInd
<1>6. Fills(g[1 .. n], q, s, n)  BY <1>1, <1>5
<1> QED  BY <1>2, <1>6 DEF FilledBy

\* A flush, whole or cut short: the rows there were, and rows with this ts for
\* members of the cache.
Flushed(p, w) ==
  /\ IsTable(w, flushes + 1) /\ ToSet(rows[p]) \subseteq ToSet(w)
  /\ \A x \in ToSet(w) : x \in ToSet(rows[p]) \/ (x.ts = flushes /\ x.ex \in ToSet(cache[p]))

LEMMA InsertedIs ==
  ASSUME MemoryInv, NEW p \in Pairs, NEW n \in 0 .. Len(cache[p])
  PROVE  /\ Flushed(p, Inserted(p, n))
         /\ \A i \in 1 .. n : \E x \in ToSet(Inserted(p, n)) : x.ex = cache[p][i]
<1> DEFINE c == cache[p]  s == SubSeq(c, 1, n)  q == rows[p]  w == Inserted(p, n)
<1>1. flushes \in Nat /\ c \in Seq(Exchanges) /\ Len(c) <= HistoryLen /\ IsTable(q, flushes)
  BY DEF MemoryInv
<1>2. s \in Seq(Exchanges) /\ Len(s) = n /\ \A i \in 1 .. n : s[i] = c[i]
  <2> HIDE DEF c, s
  <2>1. Len(c) \in Nat /\ n \in Nat /\ n <= Len(c)  BY <1>1, InSeq DEF c
  <2>2. 1 \in 1 .. Len(c) + 1 /\ n \in 1 - 1 .. Len(c) /\ n - 1 + 1 = n  BY <2>1
  <2>3. \A i \in 1 .. n : 1 + i - 1 = i  OBVIOUS
  <2> QED  BY <1>1, <2>1, <2>2, <2>3, SubSeqProperties DEF s
<1>3. ToSet(s) \subseteq ToSet(c)
  <2>1. Len(c) \in Nat /\ \A i \in 1 .. Len(c) : c[i] \in ToSet(c)  BY <1>1, InSeq
  <2>2. \A i \in 1 .. n : s[i] \in ToSet(c)  BY <1>2, <2>1
  <2> HIDE DEF s, c
  <2> QED  BY <1>2, <2>2, InSeq
<1>4. w = FoldLeft(Insert, q, s)  BY DEF Inserted
<1> HIDE DEF c, s, q, w
<1>5. Fills(w, q, s, n)  BY <1>1, <1>2, <1>4, FoldHolds
<1>6. /\ w \in Seq(RowOf) /\ InOrder(w) /\ \A x \in ToSet(w) : x.ts <= flushes
      /\ ToSet(q) \subseteq ToSet(w)
      /\ \A x \in ToSet(w) : x \in ToSet(q) \/ (x.ts = flushes /\ x.ex \in ToSet(c))
      /\ \A i \in 1 .. n : \E x \in ToSet(w) : x.ex = c[i]
  BY <1>2, <1>3, <1>5 DEF Fills
<1>7. \A x \in RowOf : x.ts \in Nat  BY DEF RowOf
<1>8. \A x \in ToSet(q) : x.ts < flushes
  <2>1. q \in Seq(RowOf) /\ \A i \in DOMAIN q : q[i].ts < flushes  BY <1>1 DEF IsTable
  <2> QED  BY <2>1, InSeq
<1>9. SmallFlushes(w)
  <2> SUFFICES ASSUME NEW t \in Nat PROVE Cardinality(SameFlush(w, t)) <= HistoryLen  BY DEF SmallFlushes
  <2> DEFINE T == SameFlush(w, t)
  <2>1. T \subseteq ToSet(w) /\ \A x \in T : x.ts = t  BY DEF SameFlush
  <2>2. IsFiniteSet(ToSet(w)) /\ IsFiniteSet(ToSet(q)) /\ IsFiniteSet(ToSet(c))
        /\ Cardinality(ToSet(c)) \in Nat /\ Cardinality(ToSet(c)) <= Len(c) /\ Len(c) \in Nat
    BY <1>1, <1>6, SetOfSeq, InSeq DEF IsTable
  <2>3. IsFiniteSet(T) /\ Cardinality(T) \in Nat
    <3> HIDE DEF T
    <3> QED  BY <2>1, <2>2, FS_Subset, FS_CardinalityType
  <2>4. CASE t = flushes
    <3>1. \A x \in T : x.ex \in ToSet(c)  BY <1>6, <1>8, <2>1, <2>4
    <3> HIDE DEF T
    <3>2. Cardinality(T) <= Cardinality(ToSet(c))  BY <1>6, <2>1, <2>2, <3>1, ExCounts
    <3> QED  BY <1>1, <2>2, <2>3, <3>2, MemoryAssumption DEF T
  <2>5. CASE t # flushes
    <3>1. T \subseteq SameFlush(q, t)  BY <1>6, <2>1, <2>5 DEF SameFlush
    <3>2. IsFiniteSet(SameFlush(q, t))  BY <2>2, FS_Subset DEF SameFlush
    <3>3. Cardinality(T) <= Cardinality(SameFlush(q, t)) /\ Cardinality(SameFlush(q, t)) \in Nat
      <4> HIDE DEF T
      <4> QED  BY <3>1, <3>2, FS_Subset, FS_CardinalityType
    <3>4. Cardinality(SameFlush(q, t)) <= HistoryLen  BY <1>1 DEF IsTable, SmallFlushes
    <3> QED  BY <2>3, <3>3, <3>4, MemoryAssumption
  <2> QED  BY <2>4, <2>5
<1>10. \A i \in DOMAIN w : w[i].ts < flushes + 1
  <2>1. \A x \in ToSet(w) : x.ts < flushes + 1
    <3>1. \A x \in ToSet(w) : x.ts \in Nat  BY <1>6, <1>7, InSeq
    <3> QED  BY <1>1, <1>6, <3>1
  <2> QED  BY <2>1 DEF ToSet
<1>11. IsTable(w, flushes + 1)  BY <1>6, <1>9, <1>10 DEF IsTable
<1> QED  BY <1>6, <1>11 DEF Flushed, w, q, c

-----------------------------------------------------------------------------
(* The steps. *)

LEMMA CacheIs ==
  ASSUME MemoryInv, NEW p \in Pairs
  PROVE  /\ cache[p] \in Seq(Exchanges) /\ Len(cache[p]) <= HistoryLen /\ Len(cache[p]) \in Nat
         /\ IsFiniteSet(ToSet(cache[p])) /\ Cardinality(ToSet(cache[p])) <= HistoryLen
         /\ flushes \in Nat /\ IsTable(rows[p], flushes) /\ Unsurpassed(p)
<1>1. /\ cache[p] \in Seq(Exchanges) /\ Len(cache[p]) <= HistoryLen /\ flushes \in Nat
      /\ IsTable(rows[p], flushes) /\ Unsurpassed(p)
  BY DEF MemoryInv
<1>2. Len(cache[p]) \in Nat  BY <1>1, InSeq
<1>3. /\ IsFiniteSet(ToSet(cache[p])) /\ Cardinality(ToSet(cache[p])) \in Nat
      /\ Cardinality(ToSet(cache[p])) <= Len(cache[p])
  BY <1>1, SetOfSeq
<1> QED  BY <1>1, <1>2, <1>3, MemoryAssumption

\* A flush stores what is newest, and nothing but the cache is newer.
LEMMA FlushStores ==
  ASSUME MemoryInv, FlushToDB, NEW p \in Pairs
  PROVE  /\ IsTable(rows'[p], flushes + 1)
         /\ p \in novel /\ cache[p] # <<>> =>
              \E r \in ToSet(rows'[p]) :
                r.ex = Last(cache[p]) /\ NoneNewer(rows'[p], r.ex, ToSet(cache[p]))
<1> DEFINE C == ToSet(cache[p])  n == Len(cache[p])  w == Inserted(p, n)
<1>1. /\ cache[p] \in Seq(Exchanges) /\ n \in Nat /\ IsFiniteSet(C) /\ Cardinality(C) <= HistoryLen
      /\ flushes \in Nat /\ IsTable(rows[p], flushes) /\ Unsurpassed(p)
  BY CacheIs
<1>2. rows'[p] = w \/ rows'[p] = Pruned(w)  BY DEF FlushToDB
<1>3. Flushed(p, w) /\ \A i \in 1 .. n : \E x \in ToSet(w) : x.ex = cache[p][i]
  <2>1. n \in 0 .. n  BY <1>1
  <2> QED  BY <2>1, InsertedIs
<1>4. /\ IsTable(w, flushes + 1) /\ w \in Seq(RowOf) /\ InOrder(w) /\ ToSet(rows[p]) \subseteq ToSet(w)
      /\ \A x \in ToSet(w) : x \in ToSet(rows[p]) \/ (x.ts = flushes /\ x.ex \in C)
  BY <1>3 DEF Flushed, IsTable
<1>5. IsTable(rows'[p], flushes + 1)  BY <1>2, <1>4, PrunedTable
<1>6. ASSUME p \in novel, cache[p] # <<>>
      PROVE  \E r \in ToSet(rows'[p]) : r.ex = Last(cache[p]) /\ NoneNewer(rows'[p], r.ex, C)
  <2>1. n \in 1 .. n /\ Last(cache[p]) = cache[p][n]
    <3>1. n # 0  BY <1>1, <1>6
    <3> QED  BY <1>1, <3>1 DEF Last
  <2>2. PICK r \in ToSet(w) : r.ex = Last(cache[p])  BY <1>3, <2>1
  <2>3. NoneNewer(rows[p], r.ex, C)  BY <1>1, <1>6, <2>2 DEF Unsurpassed
  <2>4. \A y \in ToSet(w) : y.ex = r.ex => y = r
    <3> SUFFICES ASSUME NEW y \in ToSet(w), y.ex = r.ex PROVE y = r  OBVIOUS
    <3> HIDE DEF w
    <3>1. PICK i \in DOMAIN w, j \in DOMAIN w : y = w[i] /\ r = w[j]  BY DEF ToSet
    <3> QED  BY <1>4, <3>1 DEF InOrder
  <2>5. ASSUME NEW x \in ToSet(w), x.ts >= r.ts PROVE x.ex \in C
    <3>1. CASE x \in ToSet(rows[p]) /\ r \in ToSet(rows[p])  BY <2>3, <2>5, <3>1 DEF NoneNewer
    <3>2. CASE x \notin ToSet(rows[p])  BY <1>4, <3>2
    <3>3. CASE x \in ToSet(rows[p]) /\ r \notin ToSet(rows[p])
      <4>1. r.ts = flushes  BY <1>4, <3>3
      <4>2. rows[p] \in Seq(RowOf) /\ \A i \in DOMAIN rows[p] : rows[p][i].ts < flushes
        BY <1>1 DEF IsTable
      <4>3. x.ts < flushes  BY <3>3, <4>2, InSeq
      <4>4. x.ts \in Nat
        <5>1. \A y \in RowOf : y.ts \in Nat  BY DEF RowOf
        <5> QED  BY <3>3, <4>2, <5>1, InSeq
      <4> QED  BY <1>1, <2>5, <4>1, <4>3, <4>4
    <3> QED  BY <3>1, <3>2, <3>3
  <2>6. NoneNewer(w, r.ex, C)  BY <2>4, <2>5 DEF NoneNewer
  <2> HIDE DEF w, C
  <2>7. r \in ToSet(Pruned(w)) /\ NoneNewer(Pruned(w), r.ex, C)
    BY <1>1, <1>4, <2>6, PruneKeepsNewest
  <2> QED  BY <1>2, <2>2, <2>6, <2>7
<1> QED  BY <1>5, <1>6

\* What each step does to the memory.
Remembers == \E p \in Pairs, e \in Exchanges : Remember(p, e)
Flushes   == FlushToDB /\ UNCHANGED <<cache, novel>>
Reloads   == FlushToDB /\ LoadAllFromDB(TRUE) /\ UNCHANGED novel
Dies      == CutShort /\ LoadAllFromDB(enabled) /\ novel' = {}

LEMMA MemorySteps ==
  ASSUME [Next]_vars
  PROVE  \/ UNCHANGED memory \/ Remembers \/ Flushes \/ Dies
         \/ Shutdown /\ Reloads
<1>1. CASE UNCHANGED vars  BY <1>1 DEF vars, memory
<1>2. CASE Next
  <2>1. ASSUME NEW h \in Humans, PlayerTalks(h) PROVE UNCHANGED memory  BY <2>1 DEF PlayerTalks
  <2>2. ASSUME NEW i \in 1..MaxConcurrent, Finish(i) PROVE UNCHANGED memory \/ Remembers
    BY <2>2 DEF Finish, Remembers
  <2>3. BeginUpdate => UNCHANGED memory  BY DEF BeginUpdate
  <2>4. ASSUME NEW k \in Keys, VisitContext(k) PROVE UNCHANGED memory  BY <2>4 DEF VisitContext
  <2>5. ReadEventClock => UNCHANGED memory  BY DEF ReadEventClock
  <2>6. ASSUME NEW g \in Groups, ScanGroup(g) PROVE UNCHANGED memory  BY <2>6 DEF ScanGroup
  <2>7. TakeReactions \/ ProcessReaction \/ DrainResults \/ Deliver => UNCHANGED memory
    BY DEF TakeReactions, ProcessReaction, DrainResults, Deliver
  <2>8. EndUpdate => UNCHANGED memory \/ Flushes  BY DEF EndUpdate, Flushes
  <2>9. ASSUME NEW x \in Players, Scenery(x) PROVE UNCHANGED memory  BY <2>9 DEF Scenery
  <2>10. ASSUME NEW x \in Players, NEW kind, Happens(x, kind) PROVE UNCHANGED memory
    BY <2>10 DEF Happens
  <2>11. Reload => UNCHANGED memory  BY DEF Reload
  <2>12. Shutdown => Reloads  BY DEF Shutdown, FromScratch, Reloads, LoadAllFromDB
  <2>13. Crash => Dies  BY DEF Crash, FromScratch, Dies
  <2> QED  BY <1>2, <2>1, <2>2, <2>3, <2>4, <2>5, <2>6, <2>7, <2>8, <2>9, <2>10, <2>11, <2>12, <2>13
           DEF Next, Step
<1> QED  BY <1>1, <1>2

LEMMA MemoryStarts == Init => MemoryInv
<1> SUFFICES ASSUME Init PROVE MemoryInv  OBVIOUS
<1>1. /\ cache = [p \in Pairs |-> <<>>] /\ rows = [p \in Pairs |-> <<>>] /\ flushes = 0 /\ novel = {}
  BY DEF Init, MemoryInit
<1>2. <<>> \in Seq(Exchanges) /\ <<>> \in Seq(RowOf) /\ Len(<<>>) = 0 /\ DOMAIN <<>> = {}  OBVIOUS
<1>3. IsTable(<<>>, 0)
  <2>1. InOrder(<<>>)  BY <1>2 DEF InOrder
  <2>2. SmallFlushes(<<>>)
    <3>1. \A t : SameFlush(<<>>, t) = {}  BY <1>2 DEF SameFlush, ToSet
    <3> QED  BY <3>1, FS_EmptySet, MemoryAssumption DEF SmallFlushes
  <2> QED  BY <1>2, <2>1, <2>2 DEF IsTable
<1>4. \A p \in Pairs : Unsurpassed(p)  BY <1>1 DEF Unsurpassed
<1> QED  BY <1>1, <1>2, <1>3, <1>4, MemoryAssumption DEF MemoryInv

LEMMA RememberKeeps == ASSUME MemoryInv, Remembers PROVE MemoryInv'
<1>1. PICK p \in Pairs, e \in Exchanges : Remember(p, e)  BY DEF Remembers
<1> DEFINE c == Kept(Append(cache[p], e))
<1>2. /\ cache' = [cache EXCEPT ![p] = c] /\ UNCHANGED <<rows, flushes>>
      /\ novel' = IF e \in Stored(p) \cup ToSet(cache[p]) THEN novel \ {p} ELSE novel \cup {p}
  BY <1>1 DEF Remember
<1>3. flushes \in Nat /\ cache \in [Pairs -> Seq(Exchanges)] /\ rows \in [Pairs -> Seq(RowOf)]
  BY DEF MemoryInv
<1> DEFINE s == Append(cache[p], e)
<1>4. s \in Seq(Exchanges) /\ Len(s) = Len(cache[p]) + 1 /\ s[Len(s)] = e
  BY <1>3, AppendProperties
<1>5. c \in Seq(Exchanges) /\ Len(c) <= HistoryLen /\ (c # <<>> => Last(c) = e)
  <2>0. c = Kept(s) /\ Len(s) \in Nat  BY <1>4
  <2> HIDE DEF s, c
  <2>1. PICK d \in 0 .. Len(s) :
          /\ c \in Seq(Exchanges) /\ Len(c) = Len(s) - d /\ Len(c) <= HistoryLen
          /\ \A i \in 1 .. Len(s) - d : c[i] = s[i + d]
    BY <1>4, <2>0, KeptIs
  <2>2. ASSUME c # <<>> PROVE Last(c) = e
    <3>1. Len(c) # 0  BY <2>1, <2>2
    <3>2. Len(s) - d \in 1 .. Len(s) - d /\ (Len(s) - d) + d = Len(s)  BY <2>0, <2>1, <3>1
    <3> QED  BY <1>4, <2>1, <3>2 DEF Last
  <2> QED  BY <2>1, <2>2
<1> HIDE DEF c, s
<1>6. ASSUME NEW x \in Pairs
      PROVE  Len(cache'[x]) <= HistoryLen /\ IsTable(rows'[x], flushes') /\ Unsurpassed(x)'
  <2>1. /\ Len(cache[x]) <= HistoryLen /\ IsTable(rows'[x], flushes') /\ Unsurpassed(x)
    BY <1>2 DEF MemoryInv
  <2>2. CASE x # p
    <3>1. cache'[x] = cache[x] /\ rows'[x] = rows[x] /\ (x \in novel' => x \in novel)
      BY <1>2, <1>3, <2>2
    <3> QED  BY <2>1, <3>1 DEF Unsurpassed
  <2>3. CASE x = p
    <3>1. cache'[x] = c /\ rows'[x] = rows[p]  BY <1>2, <1>3, <2>3
    <3>2. ASSUME p \in novel', c # <<>> PROVE NoneNewer(rows[p], Last(c), ToSet(c))
      <4>1. e \notin Stored(p)  BY <1>2, <3>2
      <4>2. \A r \in ToSet(rows[p]) : r.ex # e  BY <4>1 DEF Stored
      <4> QED  BY <1>5, <3>2, <4>2 DEF NoneNewer
    <3> QED  BY <1>5, <2>1, <2>3, <3>1, <3>2 DEF Unsurpassed
  <2> QED  BY <2>2, <2>3
<1>7. cache' \in [Pairs -> Seq(Exchanges)]  BY <1>2, <1>3, <1>5
<1> QED  BY <1>2, <1>3, <1>6, <1>7 DEF MemoryInv

\* FlushToDB without a load, and the tables it may leave.
LEMMA FlushTyped ==
  ASSUME MemoryInv, FlushToDB
  PROVE  flushes' = flushes + 1 /\ flushes' \in Nat /\ rows' \in [Pairs -> Seq(RowOf)]
<1>1. flushes' = flushes + 1 /\ flushes \in Nat  BY DEF FlushToDB, MemoryInv
<1>2. \E f \in [Pairs -> {rows'[p] : p \in Pairs}] : rows' = f  BY DEF FlushToDB
<1>3. \A p \in Pairs : rows'[p] \in Seq(RowOf)  BY FlushStores DEF IsTable
<1> QED  BY <1>1, <1>2, <1>3

LEMMA FlushKeeps == ASSUME MemoryInv, Flushes PROVE MemoryInv'
<1>1. FlushToDB /\ cache' = cache /\ novel' = novel  BY DEF Flushes
<1>2. flushes' = flushes + 1 /\ flushes' \in Nat /\ rows' \in [Pairs -> Seq(RowOf)]  BY <1>1, FlushTyped
<1>3. ASSUME NEW p \in Pairs
      PROVE  Len(cache'[p]) <= HistoryLen /\ IsTable(rows'[p], flushes') /\ Unsurpassed(p)'
  <2>1. /\ IsTable(rows'[p], flushes')
        /\ p \in novel /\ cache[p] # <<>> => NoneNewer(rows'[p], Last(cache[p]), ToSet(cache[p]))
    BY <1>1, <1>2, FlushStores
  <2>2. Len(cache[p]) <= HistoryLen  BY CacheIs
  <2> QED  BY <1>1, <2>1, <2>2 DEF Unsurpassed
<1>4. cache' \in [Pairs -> Seq(Exchanges)]  BY <1>1 DEF MemoryInv
<1> QED  BY <1>2, <1>3, <1>4 DEF MemoryInv

\* LoadAllFromDB fills the cache from the tables there are then.
LEMMA LoadTyped ==
  ASSUME rows' \in [Pairs -> Seq(RowOf)], \A p \in Pairs : InOrder(rows'[p]),
         NEW on, LoadAllFromDB(on)
  PROVE  /\ cache' \in [Pairs -> Seq(Exchanges)] /\ \A p \in Pairs : Len(cache'[p]) <= HistoryLen
         /\ on => \A p \in Pairs : cache'[p] \in Loaded(rows'[p])
<1>1. CASE on
  <2>1. cache' \in [Pairs -> UNION {Loaded(rows'[p]) : p \in Pairs}]
        /\ \A p \in Pairs : cache'[p] \in Loaded(rows'[p])
    BY <1>1 DEF LoadAllFromDB
  <2>2. \A p \in Pairs : cache'[p] \in Seq(Exchanges) /\ Len(cache'[p]) <= HistoryLen
    BY <2>1, LoadedAre
  <2> QED  BY <2>1, <2>2
<1>2. CASE ~on
  <2>1. cache' = [p \in Pairs |-> <<>>]  BY <1>2 DEF LoadAllFromDB
  <2>2. <<>> \in Seq(Exchanges) /\ Len(<<>>) = 0  OBVIOUS
  <2> QED  BY <1>2, <2>1, <2>2, MemoryAssumption
<1> QED  BY <1>1, <1>2

LEMMA DiesKeeps == ASSUME MemoryInv, Dies PROVE MemoryInv'
<1>1. CutShort /\ LoadAllFromDB(enabled) /\ novel' = {}  BY DEF Dies
<1>2. flushes' = flushes + 1 /\ flushes \in Nat  BY <1>1 DEF CutShort, MemoryInv
<1>3. PICK n \in [Pairs -> 0..HistoryLen] :
        (\A p \in Pairs : n[p] <= Len(cache[p])) /\ rows' = [p \in Pairs |-> Inserted(p, n[p])]
  BY <1>1 DEF CutShort
<1>4. ASSUME NEW p \in Pairs PROVE IsTable(rows'[p], flushes')
  <2>1. n[p] \in 0 .. Len(cache[p])  BY <1>3, CacheIs, MemoryAssumption
  <2>2. IsTable(Inserted(p, n[p]), flushes + 1)  BY <2>1, InsertedIs DEF Flushed
  <2> QED  BY <1>2, <1>3, <2>2
<1>5. rows' \in [Pairs -> Seq(RowOf)] /\ \A p \in Pairs : InOrder(rows'[p])
  <2>1. \A p \in Pairs : rows'[p] \in Seq(RowOf) /\ InOrder(rows'[p])  BY <1>4 DEF IsTable
  <2>2. \E f \in [Pairs -> {rows'[p] : p \in Pairs}] : rows' = f  BY <1>3
  <2> QED  BY <2>1, <2>2
<1>6. cache' \in [Pairs -> Seq(Exchanges)] /\ \A p \in Pairs : Len(cache'[p]) <= HistoryLen
  BY <1>1, <1>5, LoadTyped
<1>7. \A p \in Pairs : Unsurpassed(p)'  BY <1>1 DEF Unsurpassed
<1> QED  BY <1>2, <1>4, <1>5, <1>6, <1>7 DEF MemoryInv

\* A clean restart: what was newest is loaded, and what was loaded is newest.
LEMMA ReloadKeeps ==
  ASSUME MemoryInv, Reloads
  PROVE  /\ MemoryInv'
         /\ \A p \in novel \cap Pairs : cache[p] # <<>> => Last(cache[p]) \in ToSet(cache'[p])
<1>1. FlushToDB /\ LoadAllFromDB(TRUE) /\ novel' = novel  BY DEF Reloads
<1>2. flushes' = flushes + 1 /\ flushes' \in Nat /\ rows' \in [Pairs -> Seq(RowOf)]  BY <1>1, FlushTyped
<1>3. \A p \in Pairs : IsTable(rows'[p], flushes')  BY <1>1, <1>2, FlushStores
<1>4. \A p \in Pairs : InOrder(rows'[p])  BY <1>3 DEF IsTable
<1>5. /\ cache' \in [Pairs -> Seq(Exchanges)] /\ \A p \in Pairs : Len(cache'[p]) <= HistoryLen
      /\ \A p \in Pairs : cache'[p] \in Loaded(rows'[p])
  BY <1>1, <1>2, <1>4, LoadTyped
<1>6. \A p \in Pairs : Unsurpassed(p)'
  <2>1. \A p \in Pairs : cache'[p] # <<>> => NoneNewer(rows'[p], Last(cache'[p]), ToSet(cache'[p]))
    BY <1>3, <1>5, LoadedUnsurpassed
  <2> QED  BY <2>1 DEF Unsurpassed
<1>7. MemoryInv'  BY <1>2, <1>3, <1>5, <1>6 DEF MemoryInv
<1>8. ASSUME NEW p \in novel \cap Pairs, cache[p] # <<>> PROVE Last(cache[p]) \in ToSet(cache'[p])
  <2>1. PICK r \in ToSet(rows'[p]) :
          r.ex = Last(cache[p]) /\ NoneNewer(rows'[p], r.ex, ToSet(cache[p]))
    BY <1>1, <1>8, FlushStores
  <2>2. IsFiniteSet(ToSet(cache[p])) /\ Cardinality(ToSet(cache[p])) <= HistoryLen  BY CacheIs
  <2>3. rows'[p] \in Seq(RowOf) /\ InOrder(rows'[p])  BY <1>2, <1>4
  <2>4. r.ex \in ToSet(cache'[p])  BY <1>5, <2>1, <2>2, <2>3, LoadKeepsNewest
  <2> QED  BY <2>1, <2>4
<1> QED  BY <1>7, <1>8

LEMMA MemoryKeeps == MemoryInv /\ [Next]_vars => MemoryInv'
<1> SUFFICES ASSUME MemoryInv, [Next]_vars PROVE MemoryInv'  OBVIOUS
<1>1. CASE UNCHANGED memory  BY <1>1 DEF memory, MemoryInv, Unsurpassed
<1> QED  BY <1>1, MemorySteps, RememberKeeps, FlushKeeps, DiesKeeps, ReloadKeeps

\* A clean restart forgets no pair's newest exchange, for every number of pairs,
\* every length of the history and every number of flushes and crashes before
\* (FlushToDB, LoadAllFromDB).
THEOREM RestartKeepsMemory == Spec => RestartKeepsNewest
<1>1. Spec => []MemoryInv  BY MemoryStarts, MemoryKeeps, PTL DEF Spec
<1>2. MemoryInv /\ [Next]_vars =>
        [Shutdown => \A p \in novel \cap Pairs :
            cache[p] # <<>> => Last(cache[p]) \in ToSet(cache'[p])]_vars
  <2> SUFFICES ASSUME MemoryInv, [Next]_vars, Shutdown
               PROVE  \A p \in novel \cap Pairs :
                        cache[p] # <<>> => Last(cache[p]) \in ToSet(cache'[p])
    OBVIOUS
  <2>1. Reloads  BY DEF Shutdown, FromScratch, Reloads, LoadAllFromDB
  <2> QED  BY <2>1, ReloadKeeps
<1> QED  BY <1>1, <1>2, PTL DEF Spec, RestartKeepsNewest
=============================================================================
