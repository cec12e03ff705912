--------------------------- MODULE WintergraspJobs ---------------------------
(***************************************************************************)
(* The planner of mod-wintergrasp-bots: BuildJobs lists a faction's posts  *)
(* in priority order, each with a headcount, and Reconcile fills them      *)
(* nearest first, the last job absorbing whoever is left.                  *)
(*                                                                         *)
(* The planner reads a snapshot of the battle, a record bs with            *)
(*   owner       the workshops' controllers                                *)
(*   attacker    the attacking team          open     the relic is open    *)
(*   stage       the breach stage            held     workshops per team   *)
(*   vehicles    the attacker's vehicles     maxVeh   and their cap        *)
(*   lts         living Lieutenants          convoy   crewed engines       *)
(*   van         the engine nearest the gate, of the last look at them     *)
(*   threat      hostile engines at the gate threatAt their centroid       *)
(*   fired       an axis wall lost health    firedAt  its outer face       *)
(*   released    the sortie has been let out                               *)
(***************************************************************************)
EXTENDS WintergraspField, SequencesExt

CONSTANTS CaptureSquad, KeepScreen, HumanReserve, CrewMax, RallyPerVehicle,
          DefenseShare, Quorum, WorkshopCapture

ASSUME PlanAssumption ==
  /\ {CaptureSquad, KeepScreen, HumanReserve, CrewMax, RallyPerVehicle,
      DefenseShare, Quorum} \subseteq Nat
  /\ WorkshopCapture \in BOOLEAN

Fewer(a, b) == IF a <= b THEN a ELSE b
More(a, b) == IF a >= b THEN a ELSE b

Ranks == {"any", "lieutenant", "rankless"}
Duties == {"generic", "crew", "production"}
Job(at, want, rank, duty) == [at |-> at, want |-> want, rank |-> rank, duty |-> duty]
Plain(at, want) == Job(at, want, "any", "generic")

Held(bs, team) == WorkshopOrder({w \in Workshops : bs.owner[w] = team})
Lost(bs, team) == WorkshopOrder({w \in Workshops : bs.owner[w] # team})
AtEach(sites, want, rank, duty) ==
  [i \in DOMAIN sites |-> Job(sites[i], want, rank, duty)]
FirstOf(sites, n) == SubSeq(sites, 1, Fewer(n, Len(sites)))

LtsWanted(bs) == More(0, bs.maxVeh - HumanReserve)
RankPhase(bs) == bs.lts < LtsWanted(bs)
WantVehicles(bs) == bs.vehicles + HumanReserve < bs.maxVeh
KeepThreat(bs) == bs.threat > 0 \/ bs.fired
Mustering(bs) == Quorum > 0 /\ ~bs.released

\* RallyWant: scaled to the enemy cluster, capped by the share, at least two.
RallyWant(bs, alive) ==
  More(2, Fewer(More(4, bs.threat * RallyPerVehicle),
                    (alive * DefenseShare) \div 100))

CaptureWant(bs, team) ==
  (IF RankPhase(bs) THEN 4 ELSE CaptureSquad) + (IF bs.held[team] = 0 THEN 2 ELSE 0)
CaptureRank(bs) == IF RankPhase(bs) THEN "rankless" ELSE "any"

\* The garrison of the NE road belongs to the Sunken Ring.
RoadHunts(bs, team) ==
  IF RankPhase(bs) /\ bs.owner["ring"] # team
  THEN << Job("ring", 3, "rankless", "generic") >> ELSE << >>

\* Where the leftovers go when no siege is under way.
FieldPush(bs, team, fallback) ==
  IF Lost(bs, team) # << >> THEN Lost(bs, team)[1] ELSE fallback
OwnFirst(bs, team) ==
  IF Held(bs, team) # << >> THEN Held(bs, team)[1] ELSE AttackerPush(bs.stage)

MainEffort(bs, team, alive) ==
  IF bs.van # << >>
  THEN << Plain(bs.van[1], alive) >>
  ELSE << Plain(AttackerPush(bs.stage), KeepScreen),
          Plain(FieldPush(bs, team, OwnFirst(bs, team)), alive) >>

AttackerJobsCaptureFirst(bs, team, alive) ==
     AtEach(Lost(bs, team), CaptureWant(bs, team), CaptureRank(bs), "generic")
  \o (IF WantVehicles(bs)
      THEN AtEach(Held(bs, team), 2, "lieutenant", "production") ELSE << >>)
  \o RoadHunts(bs, team)
  \o AtEach(FirstOf(bs.convoy, 2), 3, "any", "generic")
  \o MainEffort(bs, team, alive)

AttackerJobs(bs, team, alive) ==
     (IF WantVehicles(bs)
      THEN AtEach(Held(bs, team), 2, "lieutenant", "production") ELSE << >>)
  \o AtEach(Lost(bs, team), CaptureWant(bs, team), CaptureRank(bs), "generic")
  \o RoadHunts(bs, team)
  \o AtEach(FirstOf(bs.convoy, 2), 3, "any", "generic")
  \o MainEffort(bs, team, alive)

RallyAtThreat(bs) ==
  IF bs.threat > 0 THEN bs.threatAt
  ELSE IF Mustering(bs) THEN "muster" ELSE bs.firedAt

RallyAt(bs) ==
  IF Mustering(bs) THEN "muster"
  ELSE IF bs.threat > 0 THEN bs.threatAt ELSE bs.firedAt

CrewJobs(bs) ==
  IF KeepThreat(bs) /\ CrewMax > 0
  THEN AtEach(<< "post", "spost" >>, More(1, CrewMax \div 2), "any", "crew")
  ELSE << >>

RallyJobs(bs, alive) ==
  IF ~KeepThreat(bs) THEN << >>
  ELSE << Plain(RallyAt(bs), IF bs.threat > 0 THEN RallyWant(bs, alive) ELSE 6) >>

DefenderJobs(bs, team, alive) ==
     CrewJobs(bs)
  \o RallyJobs(bs, alive)
  \o AtEach(FirstOf(Lost(bs, team), 2), 2, "any", "generic")
  \o AtEach(Held(bs, team), 2, "any", "generic")
  \o << Plain(DefenderAnchor, 3) >>
  \o << Plain(IF bs.threat > 0 THEN RallyAt(bs)
              ELSE FieldPush(bs, team, DefenderAnchor), alive) >>

\* BuildJobs for one faction with that many bots alive and on foot.
BuildJobs(bs, team, alive) ==
  LET attacking == team = bs.attacker IN
  CASE bs.open -> << Plain("relic", alive) >>
    [] ~bs.open /\ ~WorkshopCapture ->
         << Plain(IF attacking THEN AttackerPush(bs.stage) ELSE DefenderAnchor, alive) >>
    [] ~bs.open /\ WorkshopCapture /\ attacking -> AttackerJobs(bs, team, alive)
    [] OTHER -> DefenderJobs(bs, team, alive)

-----------------------------------------------------------------------------
\* The assignment.  place gives where each bot stands, ranked who holds the
\* Lieutenant aura.  A plan maps bots to jobs.

RankFits(job, b, ranked) ==
  CASE job.rank = "lieutenant" -> b \in ranked
    [] job.rank = "rankless" -> b \notin ranked
    [] OTHER -> TRUE

\* The ways one job drafts its headcount, nearest bots first (ties any way).
Drafts(job, pool, place, ranked) ==
  LET cands == {b \in pool : RankFits(job, b, ranked)}
      take == Fewer(job.want, Cardinality(cands))
      d(b) == Dist2(place[b], job.at)
  IN {S \in SUBSET cands : /\ Cardinality(S) = take
                           /\ \A b \in S, c \in cands \ S : d(b) <= d(c)}

Give(plan, bots, job) == [b \in DOMAIN plan \cup bots |->
                            IF b \in bots THEN job ELSE plan[b]]

\* One job drafts from whoever has none yet.
Fill(plans, job, pool, place, ranked) ==
  UNION { {Give(plan, S, job) : S \in Drafts(job, pool \ DOMAIN plan, place, ranked)} :
          plan \in plans }

\* Every plan Reconcile may come to for this pool.
Plans(jobs, pool, place, ranked) ==
  {Give(plan, pool \ DOMAIN plan, Last(jobs)) :
     plan \in FoldLeft(LAMBDA plans, job : Fill(plans, job, pool, place, ranked),
                       {<< >>}, jobs)}
=============================================================================
