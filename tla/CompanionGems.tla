---------------------------- MODULE CompanionGems ----------------------------
(***************************************************************************)
(* The maintenance that fills a companion's empty sockets with gems        *)
(* (CompanionGemMaintenance.cpp, CompanionGemCatalog.h) and the planner    *)
(* that chooses them (CompanionGemPlanner.h), for one character.           *)
(***************************************************************************)
EXTENDS Integers, Sequences, FiniteSets, SequencesExt

CONSTANTS
  Sockets,      \* the sockets of the worn items, numbered in their order
  ColorsOf,     \* socket -> its colors
  ItemOf,       \* socket -> the item it is in
  BcGemItems,   \* the catalogue that passed the template checks, scored for the character
  ManualGems,   \* gems a player may have put in
  EpicSocket,   \* the sockets that rolled epic
  Interval, Soon

VARIABLES
  gems,       \* socket -> gem or Empty
  state,      \* item -> whole, held (trade, refund) or broken
  eligible,   \* the published snapshot: is the character a companion
  pinned,     \* is it in a raid roster or a player's friend list
  safe,       \* out of combat, trade, teleport
  due         \* steps until the next pass
gemVars == << gems, state, eligible, pinned, safe, due >>

Colors == {"meta", "red", "yellow", "blue"}
Empty  == [id |-> "none"]
Saturation == 255
\* A color, the comparison and the color or value to compare it with.
Requirement == [color : Colors, cmp : {"<", ">", ">="}, other : Colors \cup {"none"}, value : 0..200]
CatalogGem == [id : STRING, colors : SUBSET Colors, score : Int, epic : BOOLEAN,
               rules : SUBSET Requirement, readable : BOOLEAN]

\* The checks of the catalogue's templates and of their requirements. A character
\* has far fewer sockets than a count holds; that the planner gives up beyond 54
\* of them, and beyond 16384 plans, is left out.
ASSUME GemsAssumption ==
  /\ Sockets \subseteq Nat /\ IsFiniteSet(Sockets) /\ Cardinality(Sockets) < Saturation
  /\ BcGemItems \cup ManualGems \subseteq CatalogGem /\ \A g \in BcGemItems \cup ManualGems : g.id # "none"
  /\ IsFiniteSet(BcGemItems) /\ \A g, h \in BcGemItems : g.id = h.id => g = h
  /\ \A g \in BcGemItems : g.colors = {"meta"} \/ ("meta" \notin g.colors /\ g.colors # {})

\* Mutant of AtMost: the threshold itself is merged with what exceeds it.
AtMostValue(n, v) == Min({n, v})
\* Counts above the largest threshold are all alike: one more than it is kept.
AtMost(n, v) == Min({n, v + 1})

-----------------------------------------------------------------------------
\* The planner.

AddColor(counts, colors) ==
  [c \in Colors |-> IF c \in colors /\ counts[c] < Saturation THEN counts[c] + 1 ELSE counts[c]]
\* A rule compares the count of one color with another's or with a value.
Holds(counts, rule) ==
  LET left == counts[rule.color]
      right == IF rule.other \in Colors THEN counts[rule.other] ELSE rule.value
  IN CASE rule.cmp = "<" -> left < right
       [] rule.cmp = ">" -> left > right
       [] OTHER -> left >= right
Fits(counts, rules) == \A r \in rules : Holds(counts, r)

Relative(rules) == UNION {{r.color, r.other} : r \in {x \in rules : x.other \in Colors}}
Clamp(counts, rules) ==
  [c \in Colors |->
     LET limits == {r.value : r \in {x \in rules : x.color = c /\ x.other \notin Colors}}
     IN IF c \in Relative(rules) THEN counts[c]
        ELSE IF limits = {} THEN 0 ELSE AtMost(counts[c], Max(limits))]
Valid(g) == g.colors # {} /\ "meta" \notin g.colors /\ g.score > 0

\* One socket: of the plans that reach the same counts the best one is kept.
Extended(plans, options, rules) ==
  LET all == {[counts |-> Clamp(AddColor(p.counts, g.colors), rules),
               score |-> p.score + g.score, gems |-> Append(p.gems, g)] :
              p \in plans, g \in {x \in options : Valid(x)}}
  IN {CHOOSE p \in all : p.counts = k /\ \A q \in all : q.counts = k => q.score <= p.score :
        k \in {p.counts : p \in all}}
NoPlan == [score |-> -1, gems |-> << >>]
Solve(fixed, choices, rules) ==
  LET start == {[counts |-> Clamp(fixed, rules), score |-> 0, gems |-> << >>]}
      plans == FoldLeft(LAMBDA s, options : Extended(s, options, rules), start, choices)
      good == {p \in plans : Fits(p.counts, rules)}
  IN IF good = {} THEN NoPlan ELSE CHOOSE p \in good : \A q \in good : q.score <= p.score

-----------------------------------------------------------------------------
\* The maintenance of one character.

Counted(s, g) == g[s] # Empty /\ state[ItemOf[s]] # "broken"
CountsOf(g) ==
  LET n(c) == Cardinality({s \in Sockets : Counted(s, g) /\ c \in g[s].colors})
  IN [c \in Colors |-> n(c)]
Metas(g) == {s \in Sockets : Counted(s, g) /\ g[s].colors = {"meta"}}
\* EnchantmentFitsRequirements of the core.
Active(s, g) == s \in Metas(g) /\ Fits(CountsOf(g), g[s].rules)
Targets(meta) == {s \in Sockets : gems[s] = Empty /\ state[ItemOf[s]] = "whole"
                                  /\ (ColorsOf[s] = {"meta"}) = meta}
\* S by number.
InOrder(S) == CHOOSE f \in [1..Cardinality(S) -> S] : \A i, j \in DOMAIN f : i < j => f[i] < f[j]

Liking(s, g) == IF g.colors \cap ColorsOf[s] # {} THEN [g EXCEPT !.score = (@ * 6) \div 5] ELSE g
\* Per color the best gem: rare ones, and epic ones where the socket rolled epic.
Options(s) ==
  LET open == {Liking(s, g) : g \in {x \in BcGemItems :
                 /\ ~x.epic \/ s \in EpicSocket
                 /\ x.score > 0 /\ x.colors # {"meta"} /\ x.rules = {}}}
  IN {CHOOSE g \in open : g.colors = k /\ \A h \in open : h.colors = k => h.score <= g.score :
        k \in {g.colors : g \in open}}
ChoicesFor(targets) == [n \in DOMAIN targets |-> Options(targets[n])]

ExistingRules == UNION {gems[s].rules : s \in Metas(gems)}
ActiveRules == UNION {gems[s].rules : s \in {x \in Sockets : Active(x, gems)}}

\* The plan without a new meta: keep every meta's rules, or the active ones'.
\* Mutant of PlanAround: an infeasible rule set is dropped altogether.
PlanAroundNone(fixed, choices) ==
  LET all == Solve(fixed, choices, ExistingRules)
  IN IF all = NoPlan THEN Solve(fixed, choices, {}) ELSE all
PlanAround(fixed, choices) ==
  LET all == Solve(fixed, choices, ExistingRules)
  IN IF all = NoPlan THEN Solve(fixed, choices, ActiveRules) ELSE all
\* With an empty meta socket: the meta gem and plan of the best joint score.
MetaPlans(fixed, choices) ==
  LET fit == {[meta |-> m, plan |-> Solve(AddColor(fixed, {"meta"}), choices, ExistingRules \cup m.rules)] :
                m \in {g \in BcGemItems : g.colors = {"meta"} /\ g.score > 0}}
      found == {f \in fit : f.plan # NoPlan}
  IN {f \in found : \A e \in found : e.plan.score + e.meta.score <= f.plan.score + f.meta.score}

Apply(targets, plan) ==
  [s \in Sockets |-> IF \E n \in DOMAIN targets : targets[n] = s
                     THEN LET g == plan.gems[CHOOSE n \in DOMAIN targets : targets[n] = s]
                          IN CHOOSE h \in BcGemItems : h.id = g.id
                     ELSE gems[s]]
FillSockets ==
  LET normal == InOrder(Targets(FALSE))
      metas == InOrder(Targets(TRUE))
      fixed == CountsOf(gems)
      choices == ChoicesFor(normal)
      joint == IF metas = << >> THEN {} ELSE MetaPlans(fixed, choices)
      alone == PlanAround(fixed, choices)
      readable == \A s \in Metas(gems) : gems[s].readable
  IN IF ~readable \/ (normal = << >> /\ metas = << >>) \/ \E n \in DOMAIN choices : choices[n] = {}
     THEN gems' = gems
     ELSE IF joint # {} THEN \E j \in joint : gems' = [Apply(normal, j.plan) EXCEPT ![metas[1]] = j.meta]
     ELSE IF alone = NoPlan THEN gems' = gems
     ELSE gems' = Apply(normal, alone)

-----------------------------------------------------------------------------
Worn == {ItemOf[s] : s \in Sockets}
GemInit ==
  /\ gems = [s \in Sockets |-> Empty] /\ state = [i \in Worn |-> "whole"]
  /\ eligible = FALSE /\ pinned = FALSE /\ safe = TRUE /\ due = Soon

\* The world thread publishes a new snapshot every minute and on a reload.
RefreshSettings == eligible' = pinned /\ UNCHANGED << gems, state, pinned, safe, due >>

\* The character is played by a bot here.
IsCompanion == eligible
OnPlayerAfterUpdate ==
  /\ IsCompanion
  /\ \/ due > 0 /\ due' = due - 1 /\ UNCHANGED gems
     \/ due = 0 /\ safe /\ FillSockets /\ due' = Interval
  /\ UNCHANGED << state, eligible, pinned, safe >>

\* An item is put on or stored: the next pass comes soon.
Request == due' = IF IsCompanion THEN Min({due, Soon}) ELSE due
PutOn(i, with) ==
  /\ gems' = [s \in Sockets |-> IF ItemOf[s] = i THEN with[s] ELSE gems[s]]
  /\ state' = [state EXCEPT ![i] = "whole"] /\ Request
  /\ UNCHANGED << eligible, pinned, safe >>
\* A player's gem, a trade or refund window, wear and repair.
SocketByHand(s, g) ==
  /\ (g.colors = {"meta"}) = (ColorsOf[s] = {"meta"})
  /\ gems' = [gems EXCEPT ![s] = g]
  /\ UNCHANGED << state, eligible, pinned, safe, due >>
ItemChanges(i, st) == state' = [state EXCEPT ![i] = st] /\ UNCHANGED << gems, eligible, pinned, safe, due >>
Busy == safe' = ~safe /\ UNCHANGED << gems, state, eligible, pinned, due >>
PinsChange == pinned' = ~pinned /\ UNCHANGED << gems, state, eligible, safe, due >>

GemNext ==
  \/ RefreshSettings \/ OnPlayerAfterUpdate \/ Busy \/ PinsChange
  \/ \E i \in Worn, with \in [Sockets -> BcGemItems \cup ManualGems \cup {Empty}] : PutOn(i, with)
  \/ \E s \in Sockets, g \in BcGemItems \cup ManualGems : SocketByHand(s, g)
  \/ \E i \in Worn, st \in {"whole", "held", "broken"} : ItemChanges(i, st)
GemSpec == GemInit /\ [][GemNext]_gemVars

GemTypeOK ==
  /\ gems \in [Sockets -> BcGemItems \cup ManualGems \cup {Empty}]
  /\ \A s \in Sockets : gems[s] # Empty => (gems[s].colors = {"meta"}) = (ColorsOf[s] = {"meta"})
  /\ due \in 0..Interval

\* A pass never costs the character an active meta gem, puts in no meta gem
\* that stays dark, and touches no socket a player filled, whatever was put on,
\* broken or socketed by hand in between.
MetaKept ==
  [][OnPlayerAfterUpdate =>
       \A s \in Sockets :
         /\ gems[s] # Empty => gems'[s] = gems[s]
         /\ Active(s, gems) \/ (gems[s] = Empty /\ gems'[s] # Empty /\ ColorsOf[s] = {"meta"})
              => Active(s, gems')]_gemVars

\* The bounded search that merges plans of equal clamped counts finds a plan
\* when there is one, and none of a better score exists.
SolveIsBest ==
  LET normal == InOrder(Targets(FALSE))
      choices == ChoicesFor(normal)
      fixed == CountsOf(gems)
      Totals(pick) == [c \in Colors |-> fixed[c] + Cardinality({n \in DOMAIN normal : c \in pick[n].colors})]
      Score(pick) == SumFunction([n \in DOMAIN normal |-> pick[n].score])
  IN \A rules \in {ExistingRules, ActiveRules} \cup {m.rules : m \in {g \in BcGemItems : g.rules # {}}} :
       LET picks == {p \in [DOMAIN normal -> UNION {choices[n] : n \in DOMAIN normal}] :
                       (\A n \in DOMAIN normal : p[n] \in choices[n]) /\ Fits(Totals(p), rules)}
           plan == Solve(fixed, choices, rules)
       IN IF picks = {} THEN plan = NoPlan
          ELSE plan.score = Max({Score(p) : p \in picks})
=============================================================================
